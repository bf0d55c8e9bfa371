------------------------------- MODULE Tracer -------------------------------
(***************************************************************************)
(* The fallback for static and setuid programs: the process that called    *)
(* execve forks, the child runs the program under ptrace, and the parent   *)
(* becomes its tracer, rewrites the paths of its system calls as it enters *)
(* them and exits as the program does.                                     *)
(*                                                                         *)
(* A stop of the tracee is reported once; the tracee then stays stopped    *)
(* until the tracer resumes it.  A system call stops the tracee twice, and *)
(* the tracer tells an entry from an exit only by counting.                *)
(***************************************************************************)
EXTENDS PathTranslation

CONSTANTS
    Hooked,      \* libc::ptrace is the library's own hook, as it is in the
                 \* build: the crate defines the symbol ptrace itself
    FirstCall,   \* the execve of the child, on a path already translated
    TraceeCalls, \* the system calls of the guest program
    Signals,     \* the signals it gets, "term" (fatal) and others (ignored)
    Statics,     \* the host paths at which read_elf_info finds a static ELF
    FdDir,       \* the host path behind the tracee's directory descriptor
    Align,       \* the alignment of what is written into the tracee, 16
    Codes,       \* the exit codes of the guest program
    MaxCalls, MaxSignals   \* bounds on the guest's calls and signals

ASSUME TracerAssumption ==
    /\ Hooked \in BOOLEAN /\ FdDir \in Path
    /\ Align \in Nat \ {0} /\ Codes \subseteq 0..255
    /\ MaxCalls \in Nat /\ MaxSignals \in Nat

VARIABLES
    \* the tracer
    pc,       \* "first" (waits for the first stop), "loop" (ptrace_loop),
              \* "reap" (wait_and_exit) or "over"
    insys,    \* in_syscall
    detach,   \* detach_next
    status,   \* how it ended, for those that wait for it
    \* the tracee
    at,       \* "user", "entry", "kernel", "exit", "signal" or "dead"
    told,     \* the tracer has been told of this stop
    traced,   \* "no", "signals" (stops for signals only) or "calls"
    prog,     \* the program: "lroot" until the first execve, "guest" after
              \* it, "failing" if it failed
    call,     \* its system call
    ptr,      \* ptr[i]: where the register of the i-th path of it points
    scratch,  \* what was last written below its stack pointer
    again,    \* the call was interrupted and is made again
    pending,  \* the signals it has yet to take
    sig,      \* the signal it is stopped for
    end,      \* how it ended, as waitpid reports it
    \* history and bounds
    seen,     \* the last call the kernel acted on: the texts of its paths,
              \* and whether they were to be translated
    calls, signals

tracer  == <<pc, insys, detach, status>>
program == <<prog, call, ptr, scratch, again>>
counts  == <<seen, calls, signals>>
vars == <<tracer, at, told, traced, program, pending, sig, end, counts>>

NoScratch == [off |-> 0, text |-> <<>>]

\* What waitpid reports of a process that ended.
Running     == [how |-> "runs", code |-> 0]
Exited(n)   == [how |-> "exited", code |-> n]
Signaled(s) == [how |-> "signaled",
                code |-> CASE s = "trap" -> 5 [] s = "kill" -> 9 [] OTHER -> 15]

(***************************************************************************)
(* The paths of a system call                                              *)
(***************************************************************************)

\* The calls handle_ptrace_syscall knows, by their aarch64 numbers.
PathAt  == {"openat", "faccessat", "newfstatat", "mkdirat", "unlinkat",
            "readlinkat", "utimensat", "renameat2"}
TwoPath == {"linkat", "renameat"}
Exec    == {"execve", "execveat"}

\* A mutant of Handled: symlinkat is forgotten.
HandledNoSymlink(c) ==
    CASE c.sys \in PathAt \cup Exec \cup {"chdir"} -> {1}
      [] c.sys \in TwoPath -> {1, 2}
      [] OTHER -> {}

\* The paths that are looked at, of those the call has; the first path of
\* symlinkat is the link's target.
Handled(c) ==
    CASE c.sys \in PathAt \cup Exec \cup {"chdir"} -> {1}
      [] c.sys = "symlinkat" -> {2}
      [] c.sys \in TwoPath -> {1, 2}
      [] OTHER -> {}

\* The child's call is an execve, and every call has the paths its system
\* call takes.
ASSUME CallsAssumption ==
    /\ FirstCall.sys \in Exec
    /\ \A c \in TraceeCalls \cup {FirstCall} :
          /\ c.args \in Seq(Path)
          /\ DOMAIN c.args =
                IF c.sys \in TwoPath \cup {"symlinkat", "renameat2"}  THEN {1, 2}
                ELSE IF c.sys \in PathAt \cup Exec \cup {"chdir"}    THEN {1}
                ELSE {}

\* A text below the stack pointer lies where its own length puts it; one
\* written over by a longer or shorter text is spoilt.
Spoilt == << >>
Offset(text) == ((Len(text) + Align) \div Align) * Align
Text(i) == IF ptr[i].place = "caller" THEN call.args[i]
           ELSE IF ptr[i].off = scratch.off THEN scratch.text ELSE Spoilt

\* The path a rewriting starts from.  Relative paths are left alone, except
\* that the *at calls put the path of the descriptor in front.
ByFd(c) == c.sys \in PathAt \cup TwoPath /\ c.at = "fd"
Full(i) ==
    IF Text(i) = <<>> THEN Text(i)
    ELSE IF ByFd(call) /\ ~IsAbsolute(Text(i)) THEN FdDir \o <<Slash>> \o Text(i)
    ELSE Text(i)

Rewritten == {i \in Handled(call) : IsAbsolute(Full(i)) /\ Translate(Full(i)).path # Full(i)}

\* translate_tracee_path and resolve_ptrace_path: each text is written just
\* below the stack pointer, over what was written there before.
Rewriting ==
    /\ ptr' = [i \in DOMAIN ptr |->
                 IF i \in Rewritten
                 THEN [place |-> "scratch", off |-> Offset(Translate(Full(i)).path)]
                 ELSE ptr[i]]
    /\ scratch' = IF Rewritten = {} THEN scratch
                  ELSE LET last == CHOOSE i \in Rewritten : \A j \in Rewritten : j <= i
                           text == Translate(Full(last)).path
                       IN  [off |-> Offset(text), text |-> text]

\* Whether the tracer is to let go of the tracee at the call's exit: an
\* execve of anything but a static ELF file, by the path as the tracee gives
\* it.
LetGo == call.sys \in Exec /\ IsAbsolute(Text(1)) /\ Text(1) \notin Statics

(***************************************************************************)
(* The tracer                                                              *)
(***************************************************************************)

Stopped == at \in {"entry", "exit", "signal"}

\* What becomes of a tracee that is resumed from its stop with a signal, or
\* with none ("none"): it enters the kernel, returns to its program, or ends.
Resumed(s) ==
    /\ at' = IF at = "entry" THEN "kernel"
             ELSE IF s \in {"term", "trap"} THEN "dead" ELSE "user"
    /\ end' = IF at # "entry" /\ s \in {"term", "trap"} THEN Signaled(s) ELSE end
    /\ told' = FALSE

\* A request of libc::ptrace that resumes the tracee.  The hook fails it, and
\* nothing looks at the result.
Resume(s, mode) ==
    IF Hooked THEN told' = TRUE /\ UNCHANGED <<at, end, traced>>
              ELSE Resumed(s) /\ traced' = mode

\* ptrace_fallback_execve: the first stop, whatever it is for, ends the first
\* wait; ptrace_loop resumes the tracee without a signal.
FirstStop ==
    /\ pc = "first" /\ Stopped /\ ~told
    /\ pc' = "loop"
    /\ Resume("none", "calls")
    /\ UNCHANGED <<insys, detach, status, program, pending, sig, counts>>

\* The options ptrace_loop sets, after a mutant of them.
OptionsNoKill == {"TRACESYSGOOD"}
Options       == {"TRACESYSGOOD", "EXITKILL"}

\* The tracer ends.  A tracee it has set the options for is killed; another
\* goes on untraced, out of a stop with the signal of the stop or without.
TracerOver(how) ==
    /\ pc' = "over" /\ status' = how
    /\ traced' = "no"
    /\ IF at = "dead" THEN UNCHANGED <<at, told, end>>
       ELSE IF traced = "calls" /\ "EXITKILL" \in Options
            THEN at' = "dead" /\ end' = Signaled("kill") /\ told' = FALSE
       ELSE IF Stopped THEN \E s \in {"none", sig} : Resumed(s)
       ELSE UNCHANGED <<at, told, end>>
    /\ UNCHANGED <<insys, detach, program, pending, sig, counts>>

\* The tracee ended before its first stop, whatever the way.
FirstDeath ==
    /\ pc = "first" /\ at = "dead"
    /\ TracerOver(Exited(1))

InLoop == pc = "loop" /\ ~told

\* The stop at an entry, or what counts as one.
AtEntry ==
    /\ InLoop /\ at \in {"entry", "exit"} /\ ~insys
    /\ insys' = TRUE
    /\ detach' = LetGo /\ Rewriting
    /\ Resume("none", "calls")
    /\ UNCHANGED <<pc, status, prog, call, again, pending, sig, counts>>

AtExit ==
    /\ InLoop /\ at \in {"entry", "exit"} /\ insys
    /\ insys' = FALSE
    /\ pc' = IF detach THEN "reap" ELSE pc
    /\ Resume("none", IF detach THEN "no" ELSE "calls")
    /\ UNCHANGED <<detach, status, program, pending, sig, counts>>

\* Mutants of AtSignal: the stop is counted as one of a call; the signal is
\* forgotten.
AtSignalCounted ==
    /\ InLoop /\ at = "signal"
    /\ insys' = ~insys
    /\ Resume(sig, "calls")
    /\ UNCHANGED <<pc, detach, status, program, pending, sig, counts>>
AtSignalUnresumed ==
    /\ InLoop /\ at = "signal"
    /\ told' = TRUE
    /\ UNCHANGED <<tracer, at, traced, program, pending, sig, end, counts>>

\* Any other stop: the signal is passed on, the SIGTRAP of an execve too.
AtSignal ==
    /\ InLoop /\ at = "signal"
    /\ Resume(sig, "calls")
    /\ UNCHANGED <<tracer, program, pending, sig, counts>>

\* WIFEXITED and WIFSIGNALED, as a shell has it.
AsShell(e) == IF e.how = "exited" THEN e.code ELSE 128 + e.code

\* ptrace_loop and wait_and_exit: waitpid reports the end of the tracee.
AtDeath ==
    /\ pc \in {"loop", "reap"} /\ at = "dead"
    /\ TracerOver(Exited(AsShell(end)))

TracerStep == \/ FirstStop \/ FirstDeath \/ AtEntry \/ AtExit \/ AtSignal \/ AtDeath

\* waitpid fails: a signal that the tracer handles interrupts it while there
\* is nothing to report (the tracer is a process of the guest, with the
\* handlers that had), or the tracee was reaped by another (another thread,
\* or the kernel where SIGCHLD is ignored).
WaitFails ==
    /\ pc # "over" /\ (at = "dead" \/ ~Stopped \/ told)
    /\ TracerOver(Exited(1))

\* A signal ends the tracer, whose pid is the one that others know the
\* program by.
TracerKilled ==
    /\ pc # "over"
    /\ TracerOver(Signaled("term"))

(***************************************************************************)
(* The tracee and the kernel                                               *)
(***************************************************************************)

\* The program makes a system call, the child its execve.
Makes(c) ==
    /\ call' = c /\ ptr' = [i \in DOMAIN c.args |-> [place |-> "caller", off |-> 0]]
    /\ at' = IF traced = "calls" THEN "entry" ELSE "kernel"
    /\ UNCHANGED <<tracer, told, traced, prog, scratch, again, pending, sig, end, seen, signals>>
MakesCall ==
    /\ at = "user" /\ pending = {} /\ ~again
    /\ \/ prog = "lroot" /\ Makes(FirstCall) /\ UNCHANGED calls
       \/ prog = "guest" /\ calls < MaxCalls /\ calls' = calls + 1
          /\ \E c \in TraceeCalls : Makes(c)

\* The call is made again, with the registers the tracer left.
MakesAgain ==
    /\ at = "user" /\ pending = {} /\ again
    /\ again' = FALSE
    /\ at' = IF traced = "calls" THEN "entry" ELSE "kernel"
    /\ UNCHANGED <<tracer, told, traced, prog, call, ptr, scratch, pending, sig, end, counts>>

Returns == at' = IF traced = "calls" THEN "exit" ELSE "user"

\* The kernel acts on the call.  A successful execve of a traced program
\* leaves it a SIGTRAP to take.
KernelActs ==
    /\ at = "kernel"
    /\ seen' = [call |-> call, texts |-> [i \in DOMAIN call.args |-> Text(i)],
                mine |-> traced = "calls"]
    /\ Returns
    /\ \/ call.sys \in Exec
          /\ prog' = "guest"
          /\ pending' = IF traced = "no" THEN pending ELSE pending \cup {"trap"}
       \/ prog' = (IF prog = "lroot" THEN "failing" ELSE prog) /\ UNCHANGED pending
    /\ UNCHANGED <<tracer, told, traced, call, ptr, scratch, again, sig, end, calls, signals>>

\* A signal interrupts the call, which is to be made again.
KernelInterrupted ==
    /\ at = "kernel" /\ pending # {} /\ call.sys \notin Exec
    /\ again' = TRUE
    /\ Returns
    /\ UNCHANGED <<tracer, told, traced, prog, call, ptr, scratch, pending, sig, end, counts>>

\* A signal is sent to the tracee; SIGKILL ends it in any stop.
SignalSent ==
    /\ at # "dead" /\ signals < MaxSignals
    /\ signals' = signals + 1
    /\ \/ /\ \E s \in Signals : pending' = pending \cup {s}
          /\ UNCHANGED <<at, told, end>>
       \/ at' = "dead" /\ end' = Signaled("kill") /\ told' = FALSE /\ UNCHANGED pending
    /\ UNCHANGED <<tracer, traced, program, sig, seen, calls>>

\* On its way back to the program the tracee takes a signal: it stops for it,
\* or, untraced, bears it.
TakesSignal ==
    /\ at = "user"
    /\ \E s \in pending :
         /\ pending' = pending \ {s} /\ sig' = s
         /\ IF traced # "no" THEN at' = "signal" /\ UNCHANGED end
            ELSE IF s \in {"term", "trap"} THEN at' = "dead" /\ end' = Signaled(s)
            ELSE UNCHANGED <<at, end>>
    /\ UNCHANGED <<tracer, told, traced, program, counts>>

\* The program exits; the child exits with 127 if its execve failed.
Exits ==
    /\ at = "user" /\ pending = {} /\ ~again /\ prog # "lroot"
    /\ at' = "dead"
    /\ \E n \in IF prog = "failing" THEN {127} ELSE Codes : end' = Exited(n)
    /\ UNCHANGED <<tracer, told, traced, program, pending, sig, counts>>

KernelStep ==
    \/ MakesCall \/ MakesAgain \/ KernelActs \/ KernelInterrupted
    \/ SignalSent \/ TakesSignal \/ Exits

Init ==
    /\ pc = "first" /\ insys = FALSE /\ detach = FALSE /\ status = Running
    /\ at = "user" /\ told = FALSE /\ traced = "signals" /\ prog = "lroot"
    /\ call = FirstCall /\ ptr = <<>> /\ scratch = NoScratch /\ again = FALSE
    /\ pending = {} /\ sig = "none" /\ end = Running
    /\ seen = [call |-> FirstCall, texts |-> <<>>, mine |-> FALSE]
    /\ calls = 0 /\ signals = 0

Next == TracerStep \/ WaitFails \/ TracerKilled \/ KernelStep

\* The tracer runs; what the tracee does is its own affair, except that it
\* takes its signals and that the child gets to its execve.
Spec ==
    /\ Init /\ [][Next]_vars
    /\ WF_vars(TracerStep)
    /\ WF_vars(prog # "guest" /\ (MakesCall \/ KernelActs \/ Exits))
    /\ WF_vars(TakesSignal)

(***************************************************************************)
(* Properties                                                              *)
(***************************************************************************)

\* The tracer's count of stops agrees with the kernel's, through signals,
\* interrupted calls and failed ones: it never takes an exit for an entry
\* (lib.rs:2721-2722, 2745-2768).
CountAgrees ==
    pc = "loop" /\ at # "dead" => (insys <=> at \in {"kernel", "exit"})

\* The tracer passes for the program it traces: while it follows its calls it
\* does not end before it, however it ends, so that a signal to the pid that
\* others know ends the program; success is reported only of a program that
\* was started and succeeded; and any other exit code is the program's, a
\* signal as 128 and its number, except 1.  Before its first stop, and once it
\* was let go, the program runs on without a tracer that a signal ends or
\* whose waitpid fails (lib.rs:2686-2706, 2708-2741, 2801-2806).
PassesForProgram ==
    [][pc # "over" /\ pc' = "over" =>
          /\ pc = "loop" /\ ~Hooked => at' = "dead"
          /\ status' = Exited(0) => prog = "guest"
          /\ status'.how = "exited" /\ status'.code # 1 =>
                at = "dead" /\ status'.code = AsShell(end)]_vars

\* Both paths of the call are to be translated: the second is written over
\* the first.
BothRewritten(c) == c.sys \in TwoPath /\ \A i \in {1, 2} : Translate(c.args[i]).path # c.args[i]

\* The paths that stay as they are: a link's target, and the second path of
\* renameat2, which is overlooked.
Skipped(c) == IF c.sys = "symlinkat" THEN {1} ELSE IF c.sys = "renameat2" THEN {2} ELSE {}

\* What the kernel reads of a call it was stopped at: every absolute path but
\* those is translated, once, also when the call is made again (lib.rs:2408-
\* 2455, 2582-2634); the first of two is lost if both are.
KernelSeesTranslation ==
    seen.mine =>
        \A i \in DOMAIN seen.texts :
            \/ BothRewritten(seen.call) /\ i = 1
            \/ seen.texts[i] = IF i \in Skipped(seen.call) THEN seen.call.args[i]
                               ELSE Translate(seen.call.args[i]).path

\* A static program that is run runs on to its first instruction: it does not
\* stay stopped ("Static / setuid fallback: auto-detects and uses ptrace for
\* binaries where LD_PRELOAD doesn't work", README.md:63-64).
FallbackRuns == Stopped ~> ~Stopped
=============================================================================
