---------------------------- MODULE TracerProofs ----------------------------
(***************************************************************************)
(* Theorems about Tracer, for any system calls and signals of the tracee,  *)
(* in any number, whether or not libc::ptrace is hooked.                   *)
(***************************************************************************)
EXTENDS Tracer, PathTranslationProofs

TypeOK ==
    /\ pc \in {"first", "loop", "reap", "over"} /\ insys \in BOOLEAN
    /\ at \in {"user", "entry", "kernel", "exit", "signal", "dead"}
    /\ traced \in {"no", "signals", "calls"}
    /\ prog \in {"lroot", "guest", "failing"} /\ again \in BOOLEAN
    /\ call \in TraceeCalls \cup {FirstCall}

\* How the tracee is traced is a matter of how far the tracer is; only a
\* tracee that is traced by its calls stops at them.
Modes ==
    /\ pc = "first" => traced = "signals" /\ ~insys
    /\ pc = "reap" => traced = "no"
    /\ traced = "calls" => pc = "loop"
    /\ traced = "no" <=> pc \in {"reap", "over"}
    /\ at \in {"entry", "exit"} => traced = "calls"
    /\ pc = "loop" => (Hooked <=> traced = "signals")
    /\ Hooked => traced # "calls"
    /\ at = "signal" => traced # "no"

\* Until it is, the child is on its way to its execve, or has the SIGTRAP of
\* it before it and stops for that.
Before ==
    traced = "signals" =>
        /\ ~again
        /\ at = "kernel" => prog = "lroot" /\ call = FirstCall
        /\ prog = "guest" => "trap" \in pending \/ at \in {"signal", "dead"}
        /\ pc = "loop" => at \in {"signal", "dead"}

\* A program that ended with success was started.
Ends ==
    /\ end.code \in 0..255
    /\ end.how = "exited" /\ end.code = 0 => at = "dead" /\ prog = "guest"

Control == TypeOK /\ Modes /\ Before /\ Ends /\ CountAgrees

\* What the kernel is to read of the i-th path of the call.
Wanted(i) == IF i \in Skipped(call) THEN call.args[i] ELSE Translate(call.args[i]).path

\* The paths of a call as it was made, and as the tracer leaves them: what it
\* has rewritten it would not rewrite again.
AsMade == ptr = [i \in DOMAIN call.args |-> [place |-> "caller", off |-> 0]]
AsRewritten ==
    /\ ptr = [i \in DOMAIN call.args |-> ptr[i]]
    /\ Rewritten = {}
    /\ \A i \in DOMAIN call.args : \/ BothRewritten(call) /\ i = 1
                                   \/ Text(i) = Wanted(i)

Paths ==
    /\ at = "entry" => AsMade \/ AsRewritten
    /\ traced = "calls" /\ (at = "kernel" \/ again) => AsRewritten

Data == scratch.text \in Path /\ Paths /\ KernelSeesTranslation
IInv == Control /\ Data

(***************************************************************************)
(* Control: no assumption on paths is needed                               *)
(***************************************************************************)

LEMMA ControlInit == Init => Control
<1>1. Init => TypeOK /\ Modes /\ Before /\ CountAgrees
    BY TracerAssumption DEF Init, TypeOK, Modes, Before, CountAgrees
<1>2. Init => Ends
    <2>1. Running.code = 0 /\ Running.how = "runs"
        BY DEF Running
    <2>2. QED BY <2>1 DEF Init, Ends
<1>3. QED BY <1>1, <1>2 DEF Control

\* However the tracer ends, it leaves the program dead or on its own.
LEMMA ControlOver ==
    ASSUME Control, pc # "over", NEW how, TracerOver(how)
    PROVE  Control'
BY DEF TracerOver, Stopped, Resumed, Control, TypeOK, Modes, Before, Ends, CountAgrees,
       Running, Exited, Signaled, program, counts, tracer

LEMMA ControlTracer ==
    ASSUME Control, TracerStep
    PROVE  Control'
<1> USE TracerAssumption
<1> USE DEF Control, TypeOK, Modes, Before, Ends, CountAgrees, Running, Exited, Signaled,
        program, counts, tracer
<1>1. CASE FirstStop
    BY <1>1 DEF FirstStop, Stopped, Resume, Resumed
<1>2. CASE FirstDeath
    BY <1>2, ControlOver DEF FirstDeath
<1>3. CASE AtEntry
    BY <1>3 DEF AtEntry, InLoop, Resume, Resumed
<1>4. CASE AtExit
    <2>1. ~Hooked /\ traced = "calls" /\ at = "exit"
        BY <1>4 DEF AtExit, InLoop
    <2>2. /\ traced' = IF detach THEN "no" ELSE "calls"
          /\ pc' = IF detach THEN "reap" ELSE "loop"
          /\ at' = "user" /\ insys' = FALSE
          /\ UNCHANGED <<end, prog, call, again>>
        BY <1>4, <2>1 DEF AtExit, InLoop, Resume, Resumed
    <2>3. TypeOK' /\ Modes'
        BY <2>1, <2>2
    <2>4. QED BY <2>1, <2>2, <2>3
<1>5. CASE AtSignal
    BY <1>5 DEF AtSignal, InLoop, Resume, Resumed
<1>6. CASE AtDeath
    BY <1>6, ControlOver DEF AtDeath
<1>7. QED BY <1>1, <1>2, <1>3, <1>4, <1>5, <1>6 DEF TracerStep

LEMMA ControlKernel ==
    ASSUME Control, KernelStep
    PROVE  Control'
<1> USE TracerAssumption
<1> USE DEF Control, TypeOK, Modes, Before, Ends, CountAgrees, Running, Exited, Signaled,
        program, counts, tracer
<1>1. CASE MakesCall
    BY <1>1 DEF MakesCall, Makes
<1>2. CASE MakesAgain
    BY <1>2 DEF MakesAgain
<1>3. CASE KernelActs
    BY <1>3, CallsAssumption DEF KernelActs, Returns
<1>4. CASE KernelInterrupted
    BY <1>4, CallsAssumption DEF KernelInterrupted, Returns
<1>5. CASE SignalSent
    BY <1>5 DEF SignalSent
<1>6. CASE TakesSignal
    BY <1>6 DEF TakesSignal
<1>7. CASE Exits
    BY <1>7 DEF Exits
<1>8. QED BY <1>1, <1>2, <1>3, <1>4, <1>5, <1>6, <1>7 DEF KernelStep

LEMMA ControlNext ==
    ASSUME Control, [Next]_vars
    PROVE  Control'
<1>1. CASE UNCHANGED vars
    BY <1>1 DEF vars, tracer, program, counts, Control, TypeOK, Modes, Before,
                Ends, CountAgrees, Running, Exited
<1>2. CASE WaitFails \/ TracerKilled
    BY <1>2, ControlOver DEF WaitFails, TracerKilled
<1>3. QED BY <1>1, <1>2, ControlTracer, ControlKernel DEF Next

THEOREM TracerControl == Spec => []Control
BY ControlInit, ControlNext, PTL DEF Spec

\* The tracer never takes an exit for an entry, whatever calls are made,
\* interrupted or failed and whatever signals arrive (lib.rs:2745-2768).
THEOREM TracerCounts == Spec => []CountAgrees
<1>1. Control => CountAgrees
    BY DEF Control
<1>2. QED BY <1>1, TracerControl, PTL

\* Whatever ends the tracer: while it follows the program's calls the program
\* ends with it; it reports success only of a program that was started and
\* succeeded; and any other exit code, except 1, is the one the program ended
\* with (lib.rs:2686-2706, 2708-2741, 2801-2806).
THEOREM TracerPasses == Spec => PassesForProgram
<1> DEFINE Step == pc # "over" /\ pc' = "over" =>
                      /\ pc = "loop" /\ ~Hooked => at' = "dead"
                      /\ status' = Exited(0) => prog = "guest"
                      /\ status'.how = "exited" /\ status'.code # 1 =>
                            at = "dead" /\ status'.code = AsShell(end)
<1>1. ASSUME Control, pc # "over", NEW how, TracerOver(how), pc = "loop", ~Hooked
      PROVE  at' = "dead"
    BY <1>1 DEF TracerOver, Options, Control, TypeOK, Modes
<1>2. ASSUME Control, [Next]_vars
      PROVE  Step
    <2>1. CASE AtDeath
        <3>1. /\ at = "dead" /\ pc # "over" /\ TracerOver(Exited(AsShell(end)))
              /\ status' = Exited(AsShell(end))
            BY <2>1 DEF AtDeath, TracerOver
        <3>2. end.how # "exited" => AsShell(end) # 0
            BY <1>2 DEF AsShell, Control, Ends
        <3>3. AsShell(end) = 0 => end.how = "exited" /\ end.code = 0
            BY <3>2 DEF AsShell
        <3>4. Exited(AsShell(end)) = Exited(0) => AsShell(end) = 0
            BY DEF Exited
        <3>5. QED BY <1>1, <1>2, <3>1, <3>3, <3>4 DEF Exited, Control, Ends
    <2>2. CASE WaitFails \/ FirstDeath
        <3>1. pc # "over" /\ TracerOver(Exited(1)) /\ status' = Exited(1)
            BY <2>2 DEF WaitFails, FirstDeath, TracerOver
        <3>2. QED BY <1>1, <1>2, <3>1 DEF Exited
    <2>3. CASE TracerKilled
        <3>1. /\ pc # "over" /\ TracerOver(Signaled("term"))
              /\ status' = Signaled("term")
            BY <2>3 DEF TracerKilled, TracerOver
        <3>2. QED BY <1>1, <1>2, <3>1 DEF Exited, Signaled
    <2>4. CASE FirstStop \/ AtEntry \/ AtExit \/ AtSignal \/ KernelStep \/ UNCHANGED vars
        BY <2>4 DEF FirstStop, AtEntry, AtExit, AtSignal, InLoop, KernelStep, MakesCall,
                    Makes, MakesAgain, KernelActs, KernelInterrupted, SignalSent,
                    TakesSignal, Exits, vars, tracer
    <2>5. QED BY <1>2, <2>1, <2>2, <2>3, <2>4 DEF Next, TracerStep
<1>3. Control /\ [Next]_vars => [Step]_vars
    BY <1>2
<1>4. QED BY <1>3, TracerControl, PTL DEF Spec, PassesForProgram

(***************************************************************************)
(* Paths: a descriptor's directory is a path that is never rewritten, and  *)
(* so is what a bind leads to                                              *)
(***************************************************************************)

\* The path the rewriting of t starts from, for a call.
FullOf(c, t) ==
    IF t # <<>> /\ ByFd(c) /\ ~IsAbsolute(t) THEN FdDir \o <<Slash>> \o t ELSE t

\* A text that is translated, or that needs no translation.
Fixed(t) == t \in Path /\ Translate(t).path = t

LEMMA TranslationsAreFixed ==
    ASSUME BindsSettled, NEW t \in Path
    PROVE  Fixed(Translate(t).path)
BY TranslateTyped, TranslationIsIdempotent DEF Fixed, Idempotent

LEMMA BelowDirectoryStays ==
    ASSUME PassesThrough(FdDir), NEW t \in Path
    PROVE  Translate(FdDir \o <<Slash>> \o t).path = FdDir \o <<Slash>> \o t
<1>1. FdDir \in Path /\ <<Slash>> \in Path
    BY TracerAssumption, PathAssumption DEF Path
<1>2. \A s \in Path : IsPrefix(s, FdDir) => IsPrefix(s, FdDir \o <<Slash>> \o t)
    <2>1. TAKE s \in Path
    <2>2. HAVE IsPrefix(s, FdDir)
    <2>3. IsPrefix(s, FdDir \o <<Slash>>) /\ FdDir \o <<Slash>> \in Path
        BY <1>1, <2>2, PrefixOfConcat, ConcatProperties DEF Path
    <2>4. QED BY <2>3, PrefixOfConcat
<1>3. PassesThrough(FdDir \o <<Slash>> \o t)
    BY <1>2, PathAssumption DEF PassesThrough
<1>4. QED BY <1>3 DEF Translate

LEMMA FixedStays ==
    ASSUME PassesThrough(FdDir), NEW c, NEW t, Fixed(t)
    PROVE  Translate(FullOf(c, t)).path = FullOf(c, t)
BY BelowDirectoryStays DEF Fixed, FullOf

LEMMA FullIsFullOf ==
    /\ \A i : Full(i) = FullOf(call, Text(i))
    /\ (\A i : Full(i) = FullOf(call, Text(i)))'
<1>1. \A i : Full(i) = FullOf(call, Text(i))
    BY DEF Full, FullOf
<1>2. (\A i : Full(i) = FullOf(call, Text(i)))'
    BY DEF Full, FullOf
<1>3. QED BY <1>1, <1>2

\* Which paths a call has, and which of them are looked at.
LEMMA ShapeOfCall ==
    ASSUME NEW c \in TraceeCalls \cup {FirstCall}
    PROVE  /\ \A i \in DOMAIN c.args : c.args[i] \in Path
           /\ Handled(c) \subseteq DOMAIN c.args
           /\ \A i \in DOMAIN c.args : i \in Handled(c) <=> i \notin Skipped(c)
           /\ Handled(c) \subseteq {1, 2}
           /\ \A i, j \in Handled(c) : i # j => c.sys \in TwoPath
<1>1. c.args \in Seq(Path)
    BY CallsAssumption
<1>2. /\ Handled(c) \subseteq {1, 2}
      /\ 2 \in Handled(c) => c.sys \in TwoPath \cup {"symlinkat"}
      /\ DOMAIN c.args = Handled(c) \cup Skipped(c)
      /\ Handled(c) \cap Skipped(c) = {}
    BY CallsAssumption DEF Handled, Skipped, PathAt, TwoPath, Exec
<1>3. \A i \in DOMAIN c.args : c.args[i] \in Path
    BY <1>1, ElementOfSeq, LenProperties
<1>4. \A i, j \in Handled(c) : i # j => c.sys \in TwoPath
    BY <1>2 DEF Handled, PathAt, TwoPath, Exec
<1>5. QED BY <1>2, <1>3, <1>4

\* A call keeps its paths while nothing is written to it.
LEMMA RewrittenStays ==
    ASSUME AsRewritten, UNCHANGED <<call, ptr, scratch>>
    PROVE  AsRewritten'
<1>1. \A i : Text(i)' = Text(i)
    BY DEF Text
<1>2. \A i : Full(i)' = Full(i)
    BY <1>1, FullIsFullOf
<1>3. Rewritten' = Rewritten
    BY <1>2 DEF Rewritten
<1>4. \A i : Wanted(i)' = Wanted(i)
    BY DEF Wanted
<1>5. QED BY <1>1, <1>3, <1>4 DEF AsRewritten

\* The heart of it: the tracer's pass over a call that was just made leaves
\* it as the kernel is to see it, and a second pass changes nothing.
LEMMA PassOverNewCall ==
    ASSUME BindsSettled, PassesThrough(FdDir), TypeOK,
           scratch.text \in Path, AsMade, Rewriting, call' = call
    PROVE  AsRewritten' /\ (scratch.text \in Path)'
<1>1. /\ \A i \in DOMAIN call.args : call.args[i] \in Path
      /\ Handled(call) \subseteq DOMAIN call.args
      /\ \A i \in DOMAIN call.args : i \in Handled(call) <=> i \notin Skipped(call)
      /\ Handled(call) \subseteq {1, 2}
      /\ \A i, j \in Handled(call) : i # j => call.sys \in TwoPath
    BY ShapeOfCall DEF TypeOK
<1>2. /\ DOMAIN ptr = DOMAIN call.args
      /\ \A i \in DOMAIN call.args : ptr[i].place = "caller" /\ Text(i) = call.args[i]
    BY DEF AsMade, Text
<1>3. ASSUME NEW i \in Rewritten
      PROVE  Full(i) = call.args[i] /\ Translate(call.args[i]).path # call.args[i]
    <2>1. i \in Handled(call) /\ IsAbsolute(Full(i)) /\ Translate(Full(i)).path # Full(i)
        BY DEF Rewritten
    <2>2. Text(i) = call.args[i] /\ call.args[i] \in Path
        BY <1>1, <1>2, <2>1
    <2>3. Full(i) = Text(i) \/ Full(i) = FdDir \o <<Slash>> \o Text(i)
        BY DEF Full
    <2>4. Full(i) # FdDir \o <<Slash>> \o Text(i)
        BY <2>1, <2>2, BelowDirectoryStays
    <2>5. QED BY <2>1, <2>2, <2>3, <2>4
<1>4. ASSUME NEW i \in Handled(call), i \notin Rewritten
      PROVE  Translate(call.args[i]).path = call.args[i]
    <2>1. Text(i) = call.args[i]
        BY <1>1, <1>2
    <2>2. CASE IsAbsolute(call.args[i])
        <3>1. Full(i) = call.args[i]
            BY <2>1, <2>2 DEF Full
        <3>2. QED BY <1>4, <2>2, <3>1 DEF Rewritten
    <2>3. CASE ~IsAbsolute(call.args[i])
        BY <2>3 DEF Translate
    <2>4. QED BY <2>2, <2>3
<1>5. /\ ptr' = [i \in DOMAIN call.args |-> ptr'[i]]
      /\ \A i \in DOMAIN call.args :
            i \notin Rewritten => ptr'[i].place = "caller" /\ Text(i)' = call.args[i]
    <2>1. ptr' = [i \in DOMAIN call.args |->
                    IF i \in Rewritten
                    THEN [place |-> "scratch", off |-> Offset(Translate(Full(i)).path)]
                    ELSE ptr[i]]
        BY <1>2 DEF Rewriting
    <2>2. \A i \in DOMAIN call.args : i \notin Rewritten => ptr'[i] = ptr[i]
        BY <2>1
    <2>3. QED BY <1>2, <2>1, <2>2 DEF Text
<1>6. CASE Rewritten = {}
    <2>1. \A i \in DOMAIN call.args : Text(i)' = call.args[i]
        BY <1>5, <1>6
    <2>2. \A i \in Handled(call) : Fixed(call.args[i])
        BY <1>1, <1>4, <1>6 DEF Fixed
    <2>3. Rewritten' = {}
        BY <1>1, <2>1, <2>2, FixedStays, FullIsFullOf DEF Rewritten
    <2>4. \A i \in DOMAIN call.args : Text(i)' = Wanted(i)'
        BY <1>1, <2>1, <2>2 DEF Wanted, Fixed
    <2>5. scratch' = scratch
        BY <1>6 DEF Rewriting
    <2>6. QED BY <1>5, <2>3, <2>4, <2>5 DEF AsRewritten
<1>7. CASE Rewritten # {}
    <2>1. PICK last \in Rewritten :
              /\ \A j \in Rewritten : j <= last
              /\ scratch' = [off |-> Offset(Translate(Full(last)).path),
                             text |-> Translate(Full(last)).path]
        <3>1. Rewritten \subseteq {1, 2}
            BY <1>1 DEF Rewritten
        <3>2. \E i \in Rewritten : \A j \in Rewritten : j <= i
            <4>1. CASE 2 \in Rewritten
                BY <3>1, <4>1
            <4>2. CASE Rewritten = {1}
                BY <4>2
            <4>3. QED BY <1>7, <3>1, <4>1, <4>2
        <3>3. QED BY <1>7, <3>2 DEF Rewriting
    <2>2. /\ last \in Handled(call)
          /\ Full(last) = call.args[last] /\ call.args[last] \in Path
        BY <1>1, <1>3 DEF Rewritten
    <2>3. /\ scratch'.text = Translate(call.args[last]).path
          /\ scratch'.off = Offset(scratch'.text)
          /\ Fixed(scratch'.text)
        BY <2>1, <2>2, TranslationsAreFixed
    <2>4. ASSUME NEW i \in Rewritten
          PROVE  ptr'[i].place = "scratch" /\ ptr'[i].off = Offset(Translate(Full(i)).path)
        <3>1. i \in DOMAIN ptr
            BY <1>1, <1>2 DEF Rewritten
        <3>2. ptr'[i] = [place |-> "scratch", off |-> Offset(Translate(Full(i)).path)]
            BY <3>1 DEF Rewriting
        <3>3. QED BY <3>2
    <2>5. Text(last)' = Translate(call.args[last]).path
        <3>1. ptr'[last].place = "scratch" /\ ptr'[last].off = scratch'.off
            BY <2>1, <2>4
        <3>2. QED BY <2>3, <3>1 DEF Text
    <2>6. \A i \in Rewritten : Text(i)' \in {scratch'.text, Spoilt}
        <3>1. \A i \in Rewritten : ptr'[i].place = "scratch"
            BY <2>4
        <3>2. QED BY <3>1 DEF Text
    <2>7. \A i \in Handled(call) : Fixed(Text(i)')
        <3>1. Fixed(Spoilt)
            <4>1. Spoilt \in Path /\ ~IsAbsolute(Spoilt)
                BY EmptySeq DEF Spoilt, Path, IsAbsolute
            <4>2. QED BY <4>1 DEF Fixed, Translate
        <3>2. \A i \in Handled(call) : i \notin Rewritten => Fixed(call.args[i])
            BY <1>1, <1>4 DEF Fixed
        <3>3. QED BY <1>1, <1>5, <2>3, <2>6, <3>1, <3>2
    <2>8. Rewritten' = {}
        BY <2>7, FixedStays, FullIsFullOf DEF Rewritten
    <2>9. ASSUME NEW i \in DOMAIN call.args
          PROVE  (BothRewritten(call) /\ i = 1) \/ Text(i)' = Wanted(i)'
        <3>1. CASE i \notin Rewritten
            <4>1. Text(i)' = call.args[i]
                BY <1>5, <3>1
            <4>2. QED BY <1>1, <1>4, <3>1, <4>1 DEF Wanted
        <3>2. CASE i = last
            BY <1>1, <2>2, <2>5, <3>2 DEF Wanted
        <3>3. CASE i \in Rewritten /\ i # last
            <4>1. i \in Handled(call) /\ call.sys \in TwoPath /\ i = 1 /\ last = 2
                BY <1>1, <2>1, <2>2, <3>3 DEF Rewritten
            <4>2. \A j \in {1, 2} : Translate(call.args[j]).path # call.args[j]
                BY <1>3, <2>1, <3>3, <4>1
            <4>3. QED BY <4>1, <4>2 DEF BothRewritten
        <3>4. QED BY <3>1, <3>2, <3>3
    <2>10. QED BY <1>5, <2>3, <2>8, <2>9 DEF AsRewritten, Fixed
<1>8. QED BY <1>6, <1>7

LEMMA DataInit == Init => Data
<1> SUFFICES ASSUME Init
             PROVE  Data
    OBVIOUS
<1>1. scratch.text \in Path
    BY EmptySeq DEF Init, NoScratch, Path
<1>2. Paths /\ KernelSeesTranslation
    BY DEF Init, Paths, KernelSeesTranslation
<1>3. QED BY <1>1, <1>2 DEF Data

\* Most steps write no path: what they have to respect is which calls have
\* been passed over.
LEMMA DataKept ==
    ASSUME Data, UNCHANGED <<call, ptr, scratch, seen>>,
           at' = "entry" => AsMade \/ AsRewritten,
           traced' = "calls" /\ (at' = "kernel" \/ again') => AsRewritten
    PROVE  Data'
<1>1. AsMade => AsMade'
    BY DEF AsMade
<1>2. KernelSeesTranslation'
    BY DEF Data, KernelSeesTranslation
<1>3. Paths'
    BY <1>1, RewrittenStays DEF Paths
<1>4. QED BY <1>2, <1>3 DEF Data

LEMMA DataOver ==
    ASSUME Control, Data, NEW how, TracerOver(how)
    PROVE  Data'
<1> USE DEF Control, TypeOK, Modes, Before, Data, Paths, program, counts, tracer
<1>1. /\ UNCHANGED <<call, ptr, scratch, seen, again>> /\ traced' = "no"
      /\ at' = "entry" => at = "entry"
    BY DEF TracerOver, Stopped, Resumed
<1>2. QED BY <1>1, DataKept

LEMMA DataTracer ==
    ASSUME BindsSettled, PassesThrough(FdDir), Control, Data, TracerStep
    PROVE  Data'
<1> USE DEF Control, TypeOK, Modes, Before, Data, Paths, program, counts, tracer
<1>1. CASE FirstStop
    BY <1>1, DataKept DEF FirstStop, Stopped, Resume, Resumed
<1>2. CASE FirstDeath
    BY <1>2, DataOver DEF FirstDeath
<1>3. CASE AtEntry
    <2>1. /\ at = "entry" /\ Rewriting /\ UNCHANGED <<call, seen>>
          /\ at' = "kernel"
        BY <1>3 DEF AtEntry, InLoop, CountAgrees, Resume, Resumed
    <2>2. AsRewritten' /\ (scratch.text \in Path)'
        <3>1. CASE AsMade
            BY <2>1, <3>1, PassOverNewCall
        <3>2. CASE AsRewritten
            <4>1. ptr' = ptr /\ scratch' = scratch
                BY <2>1, <3>2 DEF AsRewritten, Rewriting
            <4>2. QED BY <2>1, <3>2, <4>1, RewrittenStays
        <3>3. QED BY <2>1, <3>1, <3>2
    <2>3. KernelSeesTranslation'
        BY <2>1 DEF KernelSeesTranslation
    <2>4. QED BY <2>1, <2>2, <2>3
<1>4. CASE AtExit
    BY <1>4, DataKept DEF AtExit, InLoop, CountAgrees, Resume, Resumed
<1>5. CASE AtSignal
    BY <1>5, DataKept DEF AtSignal, InLoop, Resume, Resumed
<1>6. CASE AtDeath
    BY <1>6, DataOver DEF AtDeath
<1>7. QED BY <1>1, <1>2, <1>3, <1>4, <1>5, <1>6 DEF TracerStep

LEMMA DataKernel ==
    ASSUME Control, Data, KernelStep
    PROVE  Data'
<1> USE DEF Control, TypeOK, Modes, Before, Data, Paths, program, counts, tracer
<1>1. CASE MakesCall
    <2>1. PICK c \in TraceeCalls \cup {FirstCall} : Makes(c)
        BY <1>1 DEF MakesCall
    <2>2. AsMade' /\ UNCHANGED <<scratch, again, seen, traced>> /\ ~again
        BY <1>1, <2>1 DEF MakesCall, Makes, AsMade
    <2>3. traced = "calls" => at' = "entry"
        BY <2>1 DEF Makes
    <2>4. KernelSeesTranslation'
        BY <2>2 DEF KernelSeesTranslation
    <2>5. Paths'
        BY <2>2, <2>3
    <2>6. QED BY <2>2, <2>4, <2>5
<1>2. CASE MakesAgain
    BY <1>2, DataKept DEF MakesAgain
<1>3. CASE KernelActs
    <2>1. UNCHANGED <<call, ptr, scratch, traced, again>> /\ at' \in {"exit", "user"}
        BY <1>3 DEF KernelActs, Returns
    <2>2. Paths'
        BY <2>1, RewrittenStays
    <2>3. KernelSeesTranslation'
        <3>1. seen' = [call |-> call, texts |-> [i \in DOMAIN call.args |-> Text(i)],
                       mine |-> traced = "calls"]
            BY <1>3 DEF KernelActs
        <3>2. CASE traced # "calls"
            BY <3>1, <3>2 DEF KernelSeesTranslation
        <3>3. CASE traced = "calls"
            <4>1. AsRewritten
                BY <1>3, <3>3 DEF KernelActs
            <4>2. /\ seen'.call = call /\ DOMAIN seen'.texts = DOMAIN call.args
                  /\ \A i \in DOMAIN call.args : seen'.texts[i] = Text(i)
                BY <3>1
            <4>3. QED BY <4>1, <4>2 DEF AsRewritten, Wanted, KernelSeesTranslation
        <3>4. QED BY <3>2, <3>3
    <2>4. QED BY <2>1, <2>2, <2>3
<1>4. CASE KernelInterrupted
    BY <1>4, DataKept DEF KernelInterrupted, Returns
<1>5. CASE SignalSent
    BY <1>5, DataKept DEF SignalSent
<1>6. CASE TakesSignal
    BY <1>6, DataKept DEF TakesSignal
<1>7. CASE Exits
    BY <1>7, DataKept DEF Exits
<1>8. QED BY <1>1, <1>2, <1>3, <1>4, <1>5, <1>6, <1>7 DEF KernelStep

\* The invariant with both parts, from which the next theorem follows.
THEOREM TracerInvariant ==
    ASSUME BindsSettled, PassesThrough(FdDir)
    PROVE  Spec => []IInv
<1>1. Init => IInv
    BY ControlInit, DataInit DEF IInv
<1>2. IInv /\ [Next]_vars => IInv'
    <2>1. SUFFICES ASSUME IInv, [Next]_vars
                   PROVE  Data'
        BY ControlNext DEF IInv
    <2>2. CASE UNCHANGED vars
        BY <2>1, <2>2, DataKept DEF IInv, Data, Paths, vars, tracer, program, counts
    <2>3. CASE WaitFails \/ TracerKilled
        BY <2>1, <2>3, DataOver DEF IInv, WaitFails, TracerKilled
    <2>4. QED BY <2>1, <2>2, <2>3, DataTracer, DataKernel DEF IInv, Next
<1>3. QED BY <1>1, <1>2, PTL DEF Spec

\* What the kernel reads of a call it was stopped at is translated, once,
\* also when the call is made again, and in a call of two paths at least the
\* second (lib.rs:2408-2455, 2582-2634).  BindsSettled and the descriptor's
\* directory: a path a bind sends to where it is translated again is
\* translated again.
THEOREM TracerTranslates ==
    ASSUME BindsSettled, PassesThrough(FdDir)
    PROVE  Spec => []KernelSeesTranslation
<1>1. IInv => KernelSeesTranslation
    BY DEF IInv, Data
<1>2. QED BY <1>1, TracerInvariant, PTL
=============================================================================
