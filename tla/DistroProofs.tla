---------------------------- MODULE DistroProofs ----------------------------
(***************************************************************************)
(* Theorems about Distro, for any number of processes, distributions and   *)
(* files, with every command breaking off wherever it may.                 *)
(***************************************************************************)
EXTENDS Distro, TLAPS

Steps    == {"check", "create", "download", "delete", "end"} \cup Unpacking
Outcomes == {"none", "failed", "already installed", "unknown", "unsupported",
             "installed", "ran", "not installed", "removed"}
Process  == [cmd : Commands \cup {"none"}, on : Names \cup {"none"}, at : Steps,
             todo : SUBSET Entries, file : Entries \cup {"none"}, out : Outcomes]
State    == {"absent", "whole"} \cup Procs

TypeOK ==
    /\ dirs \in SUBSET Names /\ tree \in [Names -> [Entries -> State]]
    /\ proc \in [Procs -> Process]
    /\ spoiled \in SUBSET Names /\ mixed \in SUBSET Names

\* A process has begun to change what it works on.
Working(p) == proc[p].at \notin {"check", "end"}

\* A process that is not at its end has a distribution and no outcome, and
\* is at a step of its command.
InStep ==
    \A p \in Procs :
        /\ proc[p].at # "end" => proc[p].on \in Names /\ proc[p].out = "none"
        /\ proc[p].at \in {"create", "download"} \cup Unpacking => proc[p].cmd = "install"
        /\ proc[p].at = "delete" => proc[p].cmd = "remove"
        /\ proc[p].at \in Unpacking \ {"extract"} => proc[p].file \in proc[p].todo

\* What is being removed while another command works on it is in mixed.
Met ==
    \A p, q \in Procs :
        (p # q /\ proc[p].on = proc[q].on /\ Working(p) /\ proc[q].at = "delete")
            => proc[p].on \in mixed

\* Nothing is in a directory that does not exist, and an installation has
\* one, unless a removal met it.
InDirs ==
    /\ \A d \in Names : Present(d) # {} => d \in dirs
    /\ \A p \in Procs : proc[p].at \in {"download"} \cup Unpacking
                            => proc[p].on \in dirs \cup mixed

\* A file that is there in part is being written by the process it is marked
\* with, unless one broke off.
Owned ==
    \A p \in Procs : \A d \in Names \ spoiled : \A e \in Entries :
        tree[d][e] = p => proc[p].on = d /\ proc[p].at = "write" /\ proc[p].file = e

\* A file an installation has done with is there, or another has removed it
\* and is about to create it.
Covered(d, e) ==
    \/ tree[d][e] # "absent"
    \/ \E q \in Procs : proc[q].on = d /\ proc[q].at = "recreate" /\ proc[q].file = e
Past(p, e) == /\ proc[p].at \in Unpacking
              /\ e \notin proc[p].todo \/ (proc[p].at = "write" /\ e = proc[p].file)
Unpacked ==
    \A p \in Procs : \A e \in Entries :
        (Past(p, e) /\ proc[p].on \notin spoiled \cup mixed) => Covered(proc[p].on, e)

\* A process is at distribution d and will not fail because another was
\* quicker to create its file.
Live(p, d) ==
    /\ proc[p].on = d
    /\ \/ proc[p].at = "delete"
       \/ /\ proc[p].at \in Unpacking
          /\ proc[p].at = "recreate" => tree[d][proc[p].file] = "absent"

\* A distribution is in between only while such a process is at it, unless
\* one broke off on it or two met there.
Settled ==
    \A d \in Names \ (spoiled \cup mixed) :
        Whole(d) \/ Present(d) = {} \/ \E p \in Procs : Live(p, d)

IInv == TypeOK /\ InStep /\ Met /\ InDirs /\ Owned /\ Unpacked /\ Settled

LEMMA ProcsApart ==
    ASSUME NEW p \in Procs
    PROVE  p # "absent" /\ p # "whole"
BY DistroAssumption

(***************************************************************************)
(* A process goes on, or comes to its end                                  *)
(***************************************************************************)

LEMMA GoesOn ==
    ASSUME TypeOK, NEW p \in Procs, NEW step \in Steps, NEW todo \in SUBSET Entries,
           NEW e \in Entries \cup {"none"}, Goes(p, step, todo, e)
    PROVE  /\ proc' \in [Procs -> Process]
           /\ \A q \in Procs \ {p} : proc'[q] = proc[q]
           /\ proc'[p].at = step /\ proc'[p].todo = todo /\ proc'[p].file = e
           /\ proc'[p].cmd = proc[p].cmd /\ proc'[p].on = proc[p].on
           /\ proc'[p].out = proc[p].out
<1>1. proc[p] \in Process /\ proc \in [Procs -> Process]
    BY DEF TypeOK
<1>2. PICK a : a = [proc[p] EXCEPT !.at = step, !.todo = todo, !.file = e]
    OBVIOUS
<1>3. a \in Process /\ a.at = step /\ a.todo = todo /\ a.file = e /\ a.cmd = proc[p].cmd
      /\ a.on = proc[p].on /\ a.out = proc[p].out
    BY <1>1, <1>2 DEF Process
<1>4. proc' = [proc EXCEPT ![p] = a]
    BY <1>1, <1>2 DEF Goes
<1>5. QED BY <1>1, <1>3, <1>4

LEMMA ComesToEnd ==
    ASSUME TypeOK, NEW p \in Procs, NEW out \in Outcomes, Ends(p, out)
    PROVE  /\ proc' \in [Procs -> Process]
           /\ \A q \in Procs \ {p} : proc'[q] = proc[q]
           /\ proc'[p].at = "end" /\ proc'[p].out = out
           /\ proc'[p].cmd = proc[p].cmd /\ proc'[p].on = proc[p].on
<1>1. proc[p] \in Process /\ proc \in [Procs -> Process]
    BY DEF TypeOK
<1>2. PICK a : a = [proc[p] EXCEPT !.at = "end", !.out = out]
    OBVIOUS
<1>3. a \in Process /\ a.at = "end" /\ a.out = out /\ a.cmd = proc[p].cmd
      /\ a.on = proc[p].on
    BY <1>1, <1>2 DEF Process, Steps
<1>4. proc' = [proc EXCEPT ![p] = a]
    BY <1>1, <1>2 DEF Ends
<1>5. QED BY <1>1, <1>3, <1>4

\* What a process leaves to its neighbours when it ends: it was not changing
\* anything, or it is noted that it broke off, or it has nothing more to do
\* that another will not.
LEMMA EndInv ==
    ASSUME IInv, NEW p \in Procs, NEW out \in Outcomes, Ends(p, out),
           UNCHANGED <<dirs, tree>>,
           spoiled \subseteq spoiled', spoiled' \in SUBSET Names,
           mixed \subseteq mixed', mixed' \in SUBSET Names,
           proc[p].at \in {"recreate", "write"} =>
               \/ proc[p].on \in spoiled'
               \/ proc[p].at = "recreate" /\
                     (tree[proc[p].on][proc[p].file] # "absent" \/ proc[p].on \in mixed'),
           Live(p, proc[p].on) =>
               \/ proc[p].on \in spoiled' \cup mixed'
               \/ Whole(proc[p].on) \/ Present(proc[p].on) = {}
               \/ \E q \in Procs \ {p} : Live(q, proc[p].on)
    PROVE  IInv'
<1> USE DEF IInv
<1>1. /\ proc' \in [Procs -> Process]
      /\ \A q \in Procs \ {p} : proc'[q] = proc[q]
      /\ proc'[p].at = "end" /\ proc'[p].out = out
      /\ proc'[p].cmd = proc[p].cmd /\ proc'[p].on = proc[p].on
    BY ComesToEnd
<1>2. TypeOK'
    BY <1>1 DEF TypeOK
<1>3. InStep'
    BY <1>1 DEF InStep, Unpacking
<1>4. Met'
    BY <1>1 DEF Met, Working
<1>5. InDirs'
    BY <1>1 DEF InDirs, Present, Unpacking
<1>6. Owned'
    BY <1>1 DEF Owned
<1>7. Unpacked'
    <2> SUFFICES ASSUME NEW q \in Procs, NEW e \in Entries, Past(q, e)',
                        proc'[q].on \notin spoiled' \cup mixed'
                 PROVE  Covered(proc[q].on, e)'
        BY DEF Unpacked
    <2>1. q # p /\ proc'[q] = proc[q]
        BY <1>1 DEF Past, Unpacking
    <2>2. Covered(proc[q].on, e)
        BY <2>1 DEF Unpacked, Past
    <2>3. CASE tree[proc[q].on][e] # "absent"
        BY <2>1, <2>3 DEF Covered
    <2>4. CASE tree[proc[q].on][e] = "absent"
        <3>1. PICK r \in Procs : /\ proc[r].on = proc[q].on /\ proc[r].at = "recreate"
                                 /\ proc[r].file = e
            BY <2>2, <2>4 DEF Covered
        <3>2. r # p
            BY <2>1, <2>4, <3>1
        <3>3. QED BY <1>1, <2>1, <3>1, <3>2 DEF Covered
    <2>5. QED BY <2>3, <2>4
<1>8. Settled'
    <2> SUFFICES ASSUME NEW d \in Names \ (spoiled' \cup mixed'), ~Whole(d), Present(d) # {}
                 PROVE  \E q \in Procs : Live(q, d)'
        BY DEF Settled, Whole, Present
    <2>1. \E q \in Procs \ {p} : Live(q, d)
        <3>1. PICK q \in Procs : Live(q, d)
            BY DEF Settled
        <3>2. q = p => proc[p].on = d
            BY <3>1 DEF Live
        <3>3. QED BY <3>1, <3>2
    <2>2. \A q \in Procs \ {p} : Live(q, d) => Live(q, d)'
        BY <1>1 DEF Live
    <2>3. QED BY <2>1, <2>2
<1>9. QED BY <1>2, <1>3, <1>4, <1>5, <1>6, <1>7, <1>8

\* A process that takes up its work, with nothing done yet: it takes note of
\* who is at work.
LEMMA AdvanceInv ==
    ASSUME IInv, NEW p \in Procs, NEW todo \in SUBSET Entries,
           NEW step \in {"create", "download", "extract", "delete"},
           Goes(p, step, todo, "none"), proc[p].at \in {"check", "create", "download"},
           proc[p].cmd = IF step = "delete" THEN "remove" ELSE "install",
           step = "extract" => todo = Entries,
           UNCHANGED <<tree, spoiled>>,
           dirs \subseteq dirs', dirs' \in SUBSET Names,
           step \in {"download", "extract"} => proc[p].on \in dirs' \cup mixed',
           mixed' = mixed \/ mixed' = mixed \cup {proc[p].on},
           IF proc[p].at = "check"
           THEN (\E q \in Others(p) : step = "delete" \/ proc[q].cmd = "remove")
                    => proc[p].on \in mixed'
           ELSE step # "delete"
    PROVE  IInv'
<1> USE DEF IInv
<1>1. step \in Steps /\ "none" \in Entries \cup {"none"}
    BY DEF Steps, Unpacking
<1>2. /\ proc' \in [Procs -> Process]
      /\ \A q \in Procs \ {p} : proc'[q] = proc[q]
      /\ proc'[p].at = step /\ proc'[p].todo = todo
      /\ proc'[p].cmd = proc[p].cmd /\ proc'[p].on = proc[p].on
      /\ proc'[p].out = proc[p].out
    BY <1>1, GoesOn
<1>3. proc[p].on \in Names /\ mixed \subseteq mixed' /\ mixed' \in SUBSET Names
    BY DEF InStep, TypeOK
<1>4. TypeOK'
    BY <1>2, <1>3 DEF TypeOK
<1>5. InStep'
    BY <1>2 DEF InStep, Unpacking
<1>6. Met'
    <2> SUFFICES ASSUME NEW q \in Procs, NEW r \in Procs, q # r,
                        proc'[q].on = proc'[r].on, Working(q)', proc'[r].at = "delete"
                 PROVE  proc'[q].on \in mixed'
        BY DEF Met
    <2>1. CASE q # p /\ r # p
        BY <1>2, <1>3, <2>1 DEF Met, Working
    <2>2. CASE q = p /\ proc[p].at = "check"
        <3>1. r \in Others(p) /\ proc[r].cmd = "remove"
            BY <1>2, <2>2 DEF Others, InStep
        <3>2. QED BY <1>2, <2>2, <3>1
    <2>3. CASE q = p /\ proc[p].at # "check"
        <3>1. Working(p) /\ proc[r] = proc'[r]
            BY <1>2, <2>3 DEF Working
        <3>2. QED BY <1>2, <1>3, <2>3, <3>1 DEF Met
    <2>4. CASE r = p
        <3>1. q \in Others(p) /\ step = "delete"
            BY <1>2, <2>4 DEF Others, Working
        <3>2. QED BY <1>2, <2>4, <3>1
    <2>5. QED BY <2>1, <2>2, <2>3, <2>4
<1>7. InDirs'
    <2>1. \A q \in Procs \ {p} : proc'[q].at \in {"download"} \cup Unpacking
                                    => proc'[q].on \in dirs' \cup mixed'
        BY <1>2, <1>3 DEF InDirs
    <2>2. proc'[p].at \in {"download"} \cup Unpacking => proc'[p].on \in dirs' \cup mixed'
        BY <1>2 DEF Unpacking
    <2>3. \A d \in Names : Present(d)' # {} => d \in dirs'
        BY DEF InDirs, Present
    <2>4. QED BY <2>1, <2>2, <2>3 DEF InDirs
<1>8. Owned'
    BY <1>2 DEF Owned
<1>9. \A q \in Procs : /\ proc'[q].at = "recreate" \/ proc[q].at = "recreate" => proc'[q] = proc[q]
                       /\ proc[q].at \in Unpacking \cup {"delete"} => proc'[q] = proc[q]
    BY <1>2 DEF Unpacking
<1>10. Unpacked'
    <2> SUFFICES ASSUME NEW q \in Procs, NEW e \in Entries, Past(q, e)',
                        proc'[q].on \notin spoiled \cup mixed'
                 PROVE  Covered(proc[q].on, e)'
        BY DEF Unpacked
    <2>1. q # p /\ proc'[q] = proc[q]
        BY <1>2 DEF Past, Unpacking
    <2>2. Covered(proc[q].on, e)
        BY <1>3, <2>1 DEF Unpacked, Past
    <2>3. QED BY <1>9, <2>1, <2>2 DEF Covered
<1>11. Settled'
    <2>1. \A q \in Procs, d \in Names : Live(q, d) => Live(q, d)'
        BY <1>9 DEF Live
    <2>2. \A d \in Names : /\ Whole(d) => Whole(d)'
                           /\ Present(d) = {} => Present(d)' = {}
        BY DEF Whole, Present
    <2>3. QED BY <1>3, <2>1, <2>2 DEF Settled
<1>12. QED BY <1>4, <1>5, <1>6, <1>7, <1>8, <1>10, <1>11

\* A step of the unpacking: it changes at most one file, of its own
\* distribution, leaves the process able to go on, and leaves nothing gone
\* that is not about to be created.
LEMMA UnpackInv ==
    ASSUME IInv, NEW p \in Procs, NEW todo \in SUBSET Entries, NEW step \in Unpacking,
           NEW f \in Entries \cup {"none"}, Goes(p, step, todo, f),
           step # "extract" => f \in todo,
           proc[p].at \in Unpacking, proc[p].cmd = "install",
           UNCHANGED <<spoiled, mixed>>,
           NEW d \in Names, d = proc[p].on, NEW e \in Entries, NEW v \in State,
           tree' \in [Names -> [Entries -> State]], tree'[d][e] = v,
           \A x \in Entries \ {e} : tree'[d][x] = tree[d][x],
           \A c \in Names \ {d} : tree'[c] = tree[c],
           dirs \subseteq dirs', dirs' \in SUBSET Names, v # "absent" => d \in dirs',
           v \in Procs => v = tree[d][e] \/ (v = p /\ step = "write" /\ f = e),
           proc[p].at = "write" => proc[p].file = e /\ v # p,
           step = "recreate" => f = e /\ v = "absent",
           \/ v # "absent" \/ (step = "recreate" /\ f = e)
           \/ v = tree[d][e] /\ proc[p].at # "recreate",
           proc[p].at = "recreate" => proc[p].file = e,
           todo = proc[p].todo \/ (todo = proc[p].todo \ {e} /\ proc[p].at = "write"),
           step = "write" => f = e /\ v # "absent"
    PROVE  IInv'
<1> USE DEF IInv
<1>1. /\ proc' \in [Procs -> Process]
      /\ \A q \in Procs \ {p} : proc'[q] = proc[q]
      /\ proc'[p].at = step /\ proc'[p].todo = todo /\ proc'[p].file = f
      /\ proc'[p].cmd = "install" /\ proc'[p].on = d
      /\ proc'[p].out = proc[p].out
    <2>1. step \in Steps
        BY DEF Steps
    <2>2. QED BY <2>1, GoesOn
<1>2. TypeOK'
    BY <1>1 DEF TypeOK
<1>3. InStep'
    <2>1. proc[p].out = "none"
        BY DEF InStep, Unpacking
    <2>2. QED BY <1>1, <2>1 DEF InStep, Unpacking
<1>4. Met'
    BY <1>1 DEF Met, Working, Unpacking
<1>5. InDirs'
    <2>1. \A q \in Procs : proc'[q].at \in {"download"} \cup Unpacking
                               => proc'[q].on \in dirs' \cup mixed
        BY <1>1 DEF InDirs
    <2>2. ASSUME NEW c \in Names, Present(c)' # {}
          PROVE  c \in dirs'
        <3>1. PICK x \in Entries : tree'[c][x] # "absent"
            BY <2>2 DEF Present
        <3>2. (c = d /\ x = e) \/ tree[c][x] # "absent"
            BY <3>1
        <3>3. tree[c][x] # "absent" => c \in dirs
            BY DEF InDirs, Present
        <3>4. QED BY <3>1, <3>2, <3>3
    <2>3. QED BY <2>1, <2>2 DEF InDirs
<1>6. Owned'
    <2> SUFFICES ASSUME NEW q \in Procs, NEW c \in Names \ spoiled, NEW x \in Entries,
                        tree'[c][x] = q
                 PROVE  proc'[q].on = c /\ proc'[q].at = "write" /\ proc'[q].file = x
        BY DEF Owned
    <2>1. CASE c = d /\ x = e /\ v = p /\ step = "write" /\ f = e
        BY <1>1, <2>1
    <2>2. CASE ~(c = d /\ x = e /\ v = p /\ step = "write" /\ f = e)
        <3>1. tree[c][x] = q
            BY <2>2
        <3>2. proc[q].on = c /\ proc[q].at = "write" /\ proc[q].file = x
            BY <3>1 DEF Owned
        <3>3. q # p
            BY <2>2, <3>2
        <3>4. QED BY <1>1, <3>2, <3>3
    <2>3. QED BY <2>1, <2>2
<1>7. ASSUME NEW c \in Names, NEW x \in Entries, Covered(c, x)
      PROVE  Covered(c, x)'
    <2>1. CASE c = d /\ x = e
        <3>1. CASE v # "absent"
            BY <2>1, <3>1 DEF Covered
        <3>2. CASE step = "recreate" /\ f = e
            BY <1>1, <2>1, <3>2 DEF Covered
        <3>3. CASE v = "absent" /\ v = tree[d][e] /\ proc[p].at # "recreate"
            <4>1. PICK q \in Procs : proc[q].on = d /\ proc[q].at = "recreate" /\ proc[q].file = e
                BY <1>7, <2>1, <3>3 DEF Covered
            <4>2. q # p
                BY <3>3, <4>1
            <4>3. QED BY <1>1, <2>1, <4>1, <4>2 DEF Covered
        <3>4. QED BY <3>1, <3>2, <3>3
    <2>2. CASE ~(c = d /\ x = e)
        <3>1. tree'[c][x] = tree[c][x]
            BY <2>2
        <3>2. CASE tree[c][x] # "absent"
            BY <3>1, <3>2 DEF Covered
        <3>3. CASE tree[c][x] = "absent"
            <4>1. PICK q \in Procs : proc[q].on = c /\ proc[q].at = "recreate" /\ proc[q].file = x
                BY <1>7, <3>3 DEF Covered
            <4>2. q # p
                BY <2>2, <4>1
            <4>3. QED BY <1>1, <4>1, <4>2 DEF Covered
        <3>4. QED BY <3>2, <3>3
    <2>3. QED BY <2>1, <2>2
<1>8. Unpacked'
    <2> SUFFICES ASSUME NEW q \in Procs, NEW x \in Entries, Past(q, x)',
                        proc'[q].on \notin spoiled \cup mixed
                 PROVE  Covered(proc[q].on, x)'
        <3>1. \A q \in Procs : proc'[q].on = proc[q].on
            BY <1>1
        <3>2. QED BY <3>1 DEF Unpacked, Covered
    <2>1. CASE Past(q, x)
        <3>1. proc'[q].on = proc[q].on /\ proc[q].on \in Names
            BY <1>1, <2>1 DEF Past, InStep, Unpacking
        <3>2. QED BY <1>7, <2>1, <3>1 DEF Unpacked
    <2>2. CASE ~Past(q, x)
        <3>1. q = p /\ x = e /\ step = "write" /\ v # "absent"
            BY <1>1, <2>2 DEF Past
        <3>2. QED BY <1>1, <3>1 DEF Covered
    <2>3. QED BY <2>1, <2>2
<1>9. Settled'
    <2> SUFFICES ASSUME NEW c \in Names \ (spoiled \cup mixed)
                 PROVE  Whole(c)' \/ Present(c)' = {} \/ \E q \in Procs : Live(q, c)'
        BY DEF Settled
    <2>1. CASE c = d
        <3>1. Live(p, d)'
            BY <1>1 DEF Live
        <3>2. QED BY <2>1, <3>1
    <2>2. CASE c # d
        <3>1. Whole(c) => Whole(c)'
            BY <2>2 DEF Whole
        <3>2. Present(c)' = Present(c)
            BY <2>2 DEF Present
        <3>3. \A q \in Procs : Live(q, c) => Live(q, c)'
            <4>1. \A q \in Procs : Live(q, c) => q # p
                BY <2>2 DEF Live
            <4>2. QED BY <1>1, <2>2, <4>1 DEF Live
        <3>4. QED BY <3>1, <3>2, <3>3 DEF Settled
    <2>3. QED BY <2>1, <2>2
<1>10. QED BY <1>2, <1>3, <1>4, <1>5, <1>6, <1>8, <1>9

(***************************************************************************)
(* The steps                                                               *)
(***************************************************************************)

LEMMA GiveInv ==
    ASSUME IInv, NEW p \in Procs, Give(p)
    PROVE  IInv'
<1> USE DEF IInv
<1>1. PICK cmd \in Commands, d \in Names :
         proc' = [proc EXCEPT ![p] = [Idle EXCEPT !.cmd = cmd, !.on = d, !.at = "check"]]
    BY DEF Give
<1>2. PICK a : a = [Idle EXCEPT !.cmd = cmd, !.on = d, !.at = "check"]
    OBVIOUS
<1>3. a \in Process /\ a.at = "check" /\ a.on = d /\ a.out = "none"
    BY <1>2 DEF Idle, Process, Steps, Outcomes
<1>4. /\ proc' \in [Procs -> Process] /\ proc'[p] = a
      /\ \A q \in Procs \ {p} : proc'[q] = proc[q]
    BY <1>1, <1>2, <1>3 DEF TypeOK
<1>5. proc[p].at = "end" /\ UNCHANGED <<dirs, tree, spoiled, mixed>>
    BY DEF Give
<1>6. TypeOK'
    BY <1>4, <1>5 DEF TypeOK
<1>7. InStep'
    BY <1>3, <1>4 DEF InStep, Unpacking
<1>8. Met'
    BY <1>3, <1>4, <1>5 DEF Met, Working
<1>9. InDirs'
    BY <1>3, <1>4, <1>5 DEF InDirs, Present, Unpacking
<1>10. Owned'
    BY <1>3, <1>4, <1>5 DEF Owned
<1>11. \A q \in Procs : proc'[q].at \in Unpacking \/ proc[q].at \in Unpacking \cup {"delete"}
                            => proc'[q] = proc[q]
    BY <1>3, <1>4, <1>5 DEF Unpacking
<1>12. Unpacked'
    <2>1. \A d1 \in Names, e \in Entries : Covered(d1, e) => Covered(d1, e)'
        BY <1>5, <1>11 DEF Covered, Unpacking
    <2>2. ASSUME NEW q \in Procs, NEW e \in Entries, Past(q, e)',
                 proc'[q].on \notin spoiled \cup mixed
          PROVE  Covered(proc[q].on, e)' /\ proc'[q].on = proc[q].on
        <3>1. proc'[q] = proc[q] /\ Past(q, e) /\ proc[q].on \in Names
            BY <1>11, <2>2 DEF Past, InStep, Unpacking
        <3>2. QED BY <2>1, <2>2, <3>1 DEF Unpacked
    <2>3. QED BY <1>5, <2>2 DEF Unpacked, Covered
<1>13. Settled'
    <2>1. \A q \in Procs, c \in Names : Live(q, c) => Live(q, c)'
        BY <1>5, <1>11 DEF Live
    <2>2. \A c \in Names : (Whole(c)' <=> Whole(c)) /\ Present(c)' = Present(c)
        BY <1>5 DEF Whole, Present
    <2>3. QED BY <1>5, <2>1, <2>2 DEF Settled
<1>14. QED BY <1>6, <1>7, <1>8, <1>9, <1>10, <1>12, <1>13

LEMMA BreaksOffInv ==
    ASSUME IInv, NEW p \in Procs, BreaksOff(p)
    PROVE  IInv'
<1>1. proc[p].on \in Names /\ Ends(p, "failed") /\ "failed" \in Outcomes
    BY DEF IInv, InStep, BreaksOff, Outcomes
<1>2. UNCHANGED <<dirs, tree, mixed>>
      /\ spoiled' = IF proc[p].at \in Unpacking \cup {"delete"} THEN spoiled \cup {proc[p].on}
                    ELSE spoiled
    BY DEF BreaksOff
<1>3. spoiled \subseteq spoiled' /\ spoiled' \in SUBSET Names /\ mixed' \in SUBSET Names
    BY <1>1, <1>2 DEF IInv, TypeOK
<1>4. proc[p].at \in Unpacking \cup {"delete"} => proc[p].on \in spoiled'
    BY <1>2
<1>5. /\ proc[p].at \in {"recreate", "write"} => proc[p].on \in spoiled'
      /\ Live(p, proc[p].on) => proc[p].on \in spoiled'
    BY <1>4 DEF Live, Unpacking
<1>6. QED BY <1>1, <1>2, <1>3, <1>5, EndInv

LEMMA InstallCheckInv ==
    ASSUME IInv, NEW p \in Procs, InstallCheck(p)
    PROVE  IInv'
<1> DEFINE d == proc[p].on
<1>1. proc[p].at = "check" /\ proc[p].cmd = "install" /\ d \in Names
    BY DEF InstallCheck, At, IInv, InStep
<1>2. UNCHANGED <<dirs, tree, spoiled>>
      /\ mixed' = IF \E q \in Others(p) : proc[q].cmd = "remove" THEN mixed \cup {d} ELSE mixed
    BY DEF InstallCheck
<1>3. mixed \subseteq mixed' /\ mixed' \in SUBSET Names /\ spoiled \in SUBSET Names
      /\ dirs \in SUBSET Names
    BY <1>1, <1>2 DEF IInv, TypeOK
<1>4. CASE Goes(p, "create", {}, "none")
    <2>1. {} \in SUBSET Entries /\ "create" \in {"create", "download", "extract", "delete"}
        OBVIOUS
    <2>2. (\E q \in Others(p) : "create" = "delete" \/ proc[q].cmd = "remove") => d \in mixed'
        BY <1>2
    <2>3. mixed' = mixed \/ mixed' = mixed \cup {d}
        BY <1>2
    <2>4. QED BY <1>1, <1>2, <1>3, <1>4, <2>1, <2>2, <2>3, AdvanceInv
<1>5. CASE Ends(p, "already installed") \/ Ends(p, "unknown")
    <2>1. ~Live(p, d)
        BY <1>1 DEF Live, Unpacking
    <2>2. QED BY <1>1, <1>2, <1>3, <1>5, <2>1, EndInv DEF Outcomes
<1>6. QED BY <1>4, <1>5 DEF InstallCheck

LEMMA RemoveCheckInv ==
    ASSUME IInv, NEW p \in Procs, RemoveCheck(p)
    PROVE  IInv'
<1> DEFINE d == proc[p].on
<1>1. proc[p].at = "check" /\ proc[p].cmd = "remove" /\ d \in Names
    BY DEF RemoveCheck, At, IInv, InStep
<1>2. UNCHANGED <<dirs, tree, spoiled>>
      /\ mixed' = IF Others(p) # {} THEN mixed \cup {d} ELSE mixed
    BY DEF RemoveCheck
<1>3. mixed \subseteq mixed' /\ mixed' \in SUBSET Names /\ spoiled \in SUBSET Names
      /\ dirs \in SUBSET Names
    BY <1>1, <1>2 DEF IInv, TypeOK
<1>4. CASE Goes(p, "delete", Present(d), "none")
    <2>1. Present(d) \in SUBSET Entries /\ "delete" \in {"create", "download", "extract", "delete"}
        BY DEF Present
    <2>2. (\E q \in Others(p) : "delete" = "delete" \/ proc[q].cmd = "remove") => d \in mixed'
        BY <1>2
    <2>3. mixed' = mixed \/ mixed' = mixed \cup {d}
        BY <1>2
    <2>4. QED BY <1>1, <1>2, <1>3, <1>4, <2>1, <2>2, <2>3, AdvanceInv
<1>5. CASE Ends(p, "not installed")
    <2>1. ~Live(p, d)
        BY <1>1 DEF Live, Unpacking
    <2>2. QED BY <1>1, <1>2, <1>3, <1>5, <2>1, EndInv DEF Outcomes
<1>6. QED BY <1>4, <1>5 DEF RemoveCheck

LEMMA InstallCreateInv ==
    ASSUME IInv, NEW p \in Procs, InstallCreate(p)
    PROVE  IInv'
<1>1. /\ proc[p].at = "create" /\ proc[p].cmd = "install" /\ proc[p].on \in Names
      /\ dirs' = dirs \cup {proc[p].on} /\ Goes(p, "download", {}, "none")
      /\ UNCHANGED <<tree, spoiled, mixed>>
    BY DEF InstallCreate, At, IInv, InStep
<1>2. dirs' \in SUBSET Names /\ proc[p].on \in dirs' /\ {} \in SUBSET Entries
    BY <1>1 DEF IInv, TypeOK
<1>3. QED BY <1>1, <1>2, AdvanceInv

LEMMA DownloadInv ==
    ASSUME IInv, NEW p \in Procs, Download(p)
    PROVE  IInv'
<1>1. proc[p].at = "download" /\ proc[p].cmd = "install" /\ proc[p].on \in Names
      /\ UNCHANGED <<dirs, tree, spoiled, mixed>>
    BY DEF Download, At, IInv, InStep
<1>2. /\ spoiled \in SUBSET Names /\ mixed \in SUBSET Names /\ dirs \in SUBSET Names
      /\ proc[p].on \in dirs \cup mixed
    BY <1>1 DEF IInv, TypeOK, InDirs
<1>3. ASSUME NEW out \in Outcomes, Ends(p, out)
      PROVE  IInv'
    <2>1. ~Live(p, proc[p].on)
        BY <1>1 DEF Live, Unpacking
    <2>2. QED BY <1>1, <1>2, <1>3, <2>1, EndInv
<1>4. CASE Goes(p, "extract", Entries, "none")
    <2>1. Entries \in SUBSET Entries
        OBVIOUS
    <2>2. QED BY <1>1, <1>2, <1>4, <2>1, AdvanceInv
<1>5. QED BY <1>3, <1>4 DEF Download, Outcomes

LEMMA ExtractInv ==
    ASSUME IInv, NEW p \in Procs, Extract(p)
    PROVE  IInv'
<1> USE DEF IInv
<1>1. PICK d \in Names : d = proc[p].on
    BY DEF Extract, At, InStep, Unpacking
<1>2. PICK e \in proc[p].todo :
         /\ Goes(p, IF tree[d][e] = "absent" THEN "write" ELSE "replace", proc[p].todo, e)
         /\ tree' = IF tree[d][e] = "absent" THEN [tree EXCEPT ![d][e] = p] ELSE tree
         /\ dirs' = dirs \cup {d}
    BY <1>1 DEF Extract
<1>3. /\ proc[p].at = "extract" /\ proc[p].at \in Unpacking /\ proc[p].cmd = "install"
      /\ UNCHANGED <<spoiled, mixed>>
    BY DEF Extract, At, InStep, Unpacking
<1>4. proc[p].todo \in SUBSET Entries /\ e \in Entries /\ dirs' \in SUBSET Names
      /\ dirs \subseteq dirs' /\ d \in dirs'
    BY <1>2 DEF TypeOK, Process
<1>5. CASE tree[d][e] = "absent"
    <2>1. Goes(p, "write", proc[p].todo, e) /\ "write" \in Unpacking
        BY <1>2, <1>5 DEF Unpacking
    <2>2. /\ tree' \in [Names -> [Entries -> State]] /\ tree'[d][e] = p
          /\ \A x \in Entries \ {e} : tree'[d][x] = tree[d][x]
          /\ \A c \in Names \ {d} : tree'[c] = tree[c]
        BY <1>2, <1>4, <1>5 DEF TypeOK, State
    <2>3. p # "absent" /\ p \in State
        BY ProcsApart DEF State
    <2>4. QED BY <1>1, <1>3, <1>4, <2>1, <2>2, <2>3, UnpackInv
<1>6. CASE tree[d][e] # "absent"
    <2>1. Goes(p, "replace", proc[p].todo, e) /\ "replace" \in Unpacking /\ tree' = tree
        BY <1>2, <1>6 DEF Unpacking
    <2>2. PICK v \in State : v = tree[d][e]
        BY <1>4 DEF TypeOK
    <2>3. /\ tree' \in [Names -> [Entries -> State]] /\ tree'[d][e] = v /\ v # "absent"
          /\ \A x \in Entries \ {e} : tree'[d][x] = tree[d][x]
          /\ \A c \in Names \ {d} : tree'[c] = tree[c]
        BY <1>6, <2>1, <2>2 DEF TypeOK
    <2>4. QED BY <1>1, <1>3, <1>4, <2>1, <2>2, <2>3, UnpackInv
<1>7. QED BY <1>5, <1>6

LEMMA ReplaceInv ==
    ASSUME IInv, NEW p \in Procs, Replace(p)
    PROVE  IInv'
<1> USE DEF IInv
<1>1. PICK d \in Names : d = proc[p].on
    BY DEF Replace, At, InStep, Unpacking
<1>2. PICK e \in Entries : e = proc[p].file /\ e \in proc[p].todo
    BY DEF Replace, At, InStep, TypeOK, Process, Unpacking
<1>3. /\ proc[p].at = "replace" /\ proc[p].at \in Unpacking /\ proc[p].cmd = "install"
      /\ Goes(p, "recreate", proc[p].todo, e) /\ "recreate" \in Unpacking
      /\ tree' = [tree EXCEPT ![d][e] = "absent"]
      /\ UNCHANGED <<dirs, spoiled, mixed>>
    BY <1>1, <1>2 DEF Replace, At, InStep, Unpacking
<1>4. proc[p].todo \in SUBSET Entries /\ dirs \in SUBSET Names /\ "absent" \in State
    BY DEF TypeOK, Process, State
<1>5. /\ tree' \in [Names -> [Entries -> State]] /\ tree'[d][e] = "absent"
      /\ \A x \in Entries \ {e} : tree'[d][x] = tree[d][x]
      /\ \A c \in Names \ {d} : tree'[c] = tree[c]
    BY <1>3, <1>4 DEF TypeOK
<1>6. "absent" \notin Procs
    BY ProcsApart
<1>7. QED BY <1>1, <1>2, <1>3, <1>4, <1>5, <1>6, UnpackInv

LEMMA RecreateInv ==
    ASSUME IInv, NEW p \in Procs, Recreate(p)
    PROVE  IInv'
<1> USE DEF IInv
<1>1. PICK d \in Names : d = proc[p].on
    BY DEF Recreate, At, InStep, Unpacking
<1>2. PICK e \in Entries : e = proc[p].file /\ e \in proc[p].todo
    BY DEF Recreate, At, InStep, TypeOK, Process, Unpacking
<1>3. /\ proc[p].at = "recreate" /\ proc[p].at \in Unpacking /\ proc[p].cmd = "install"
      /\ IF d \in dirs /\ tree[d][e] = "absent"
         THEN Goes(p, "write", proc[p].todo, e) /\ tree' = [tree EXCEPT ![d][e] = p]
         ELSE Ends(p, "failed") /\ UNCHANGED tree
      /\ UNCHANGED <<dirs, spoiled, mixed>> /\ "write" \in Unpacking
    BY <1>1, <1>2 DEF Recreate, At, InStep, Unpacking
<1>4. /\ proc[p].todo \in SUBSET Entries /\ dirs \in SUBSET Names
      /\ spoiled \in SUBSET Names /\ mixed \in SUBSET Names
    BY DEF TypeOK, Process
<1>5. CASE d \in dirs /\ tree[d][e] = "absent"
    <2>1. /\ tree' \in [Names -> [Entries -> State]] /\ tree'[d][e] = p
          /\ \A x \in Entries \ {e} : tree'[d][x] = tree[d][x]
          /\ \A c \in Names \ {d} : tree'[c] = tree[c]
        BY <1>3, <1>5 DEF TypeOK, State
    <2>2. p # "absent" /\ p \in State
        BY ProcsApart DEF State
    <2>3. QED BY <1>1, <1>2, <1>3, <1>4, <1>5, <2>1, <2>2, UnpackInv
<1>6. CASE ~(d \in dirs /\ tree[d][e] = "absent")
    <2>1. d \in mixed \/ tree[d][e] # "absent"
        BY <1>1, <1>3, <1>6 DEF InDirs
    <2>2. Live(p, d) => d \in mixed
        BY <1>2, <1>3, <2>1 DEF Live
    <2>3. "failed" \in Outcomes /\ Ends(p, "failed") /\ UNCHANGED tree
        BY <1>3, <1>6 DEF Outcomes
    <2>4. QED BY <1>1, <1>2, <1>3, <1>4, <2>1, <2>2, <2>3, EndInv
<1>7. QED BY <1>5, <1>6

LEMMA WriteInv ==
    ASSUME IInv, NEW p \in Procs, Write(p)
    PROVE  IInv'
<1> USE DEF IInv
<1>1. PICK d \in Names : d = proc[p].on
    BY DEF Write, At, InStep, Unpacking
<1>2. PICK e \in Entries : e = proc[p].file /\ e \in proc[p].todo
    BY DEF Write, At, InStep, TypeOK, Process, Unpacking
<1>3. /\ proc[p].at = "write" /\ proc[p].at \in Unpacking /\ proc[p].cmd = "install"
      /\ Goes(p, "extract", proc[p].todo \ {e}, "none") /\ "extract" \in Unpacking
      /\ tree' = [tree EXCEPT ![d][e] = IF tree[d][e] = p THEN "whole" ELSE tree[d][e]]
      /\ UNCHANGED <<dirs, spoiled, mixed>>
    BY <1>1, <1>2 DEF Write, At, InStep, Unpacking
<1>4. /\ proc[p].todo \ {e} \in SUBSET Entries /\ dirs \in SUBSET Names
    BY DEF TypeOK, Process
<1>5. PICK v \in State : v = IF tree[d][e] = p THEN "whole" ELSE tree[d][e]
    BY DEF TypeOK, State
<1>6. /\ tree' \in [Names -> [Entries -> State]] /\ tree'[d][e] = v
      /\ \A x \in Entries \ {e} : tree'[d][x] = tree[d][x]
      /\ \A c \in Names \ {d} : tree'[c] = tree[c]
    BY <1>3, <1>5 DEF TypeOK
<1>7. /\ v # p /\ (v \in Procs => v = tree[d][e])
      /\ (v = "absent" => tree[d][e] = "absent")
      /\ (v # "absent" => v = tree[d][e] \/ tree[d][e] = p)
    BY <1>5, ProcsApart
<1>8. v # "absent" => d \in dirs
    <2>1. v # "absent" => tree[d][e] # "absent"
        BY <1>7, ProcsApart
    <2>2. QED BY <2>1 DEF InDirs, Present
<1>9. v # "absent" \/ v = tree[d][e]
    BY <1>7
<1>10. QED BY <1>1, <1>2, <1>3, <1>4, <1>6, <1>7, <1>8, <1>9, UnpackInv

\* An installation that has nothing left to unpack leaves a whole, or others
\* that have a file in hand.
LEMMA InstallEndsWhole ==
    ASSUME IInv, NEW p \in Procs, InstallEnds(p), proc[p].on \notin spoiled \cup mixed
    PROVE  \/ Whole(proc[p].on)
           \/ \E q \in Procs \ {p} : InHand(q, proc[p].on) /\ Live(q, proc[p].on)
<1> USE DEF IInv
<1>1. PICK d \in Names : d = proc[p].on
    BY DEF InstallEnds, At, InStep, Unpacking
<1>2. proc[p].at = "extract" /\ proc[p].todo = {} /\ d \in dirs
    BY <1>1 DEF InstallEnds, At, InDirs, Unpacking
<1>3. \A e \in Entries : Covered(d, e)
    BY <1>1, <1>2 DEF Unpacked, Past, Unpacking
<1>4. SUFFICES ASSUME ~Whole(d)
               PROVE  \E q \in Procs \ {p} : InHand(q, d) /\ Live(q, d)
    BY <1>1
<1>5. PICK e \in Entries : tree[d][e] # "whole"
    BY <1>2, <1>4 DEF Whole
<1>6. CASE tree[d][e] = "absent"
    <2>1. PICK q \in Procs : proc[q].on = d /\ proc[q].at = "recreate" /\ proc[q].file = e
        BY <1>3, <1>6 DEF Covered
    <2>2. q # p /\ proc[q].cmd = "install"
        BY <1>2, <2>1 DEF InStep, Unpacking
    <2>3. QED BY <1>6, <2>1, <2>2 DEF InHand, Live, Unpacking
<1>7. CASE tree[d][e] # "absent"
    <2>1. PICK q \in Procs : tree[d][e] = q
        BY <1>5, <1>7 DEF TypeOK, State
    <2>2. proc[q].on = d /\ proc[q].at = "write"
        BY <1>1, <2>1 DEF Owned
    <2>3. q # p /\ proc[q].cmd = "install"
        BY <1>2, <2>2 DEF InStep, Unpacking
    <2>4. QED BY <2>2, <2>3 DEF InHand, Live, Unpacking
<1>8. QED BY <1>6, <1>7

LEMMA InstallEndsInv ==
    ASSUME IInv, NEW p \in Procs, InstallEnds(p)
    PROVE  IInv'
<1>1. /\ Ends(p, "installed") /\ "installed" \in Outcomes /\ proc[p].at = "extract"
      /\ UNCHANGED <<dirs, tree, spoiled, mixed>>
    BY DEF InstallEnds, At, Outcomes
<1>2. \/ proc[p].on \in spoiled \cup mixed \/ Whole(proc[p].on)
      \/ \E q \in Procs \ {p} : Live(q, proc[p].on)
    BY InstallEndsWhole
<1>3. spoiled \in SUBSET Names /\ mixed \in SUBSET Names
    BY DEF IInv, TypeOK
<1>4. QED BY <1>1, <1>2, <1>3, EndInv

LEMMA RunInv ==
    ASSUME IInv, NEW p \in Procs, Run(p)
    PROVE  IInv'
<1>1. PICK out \in Outcomes : Ends(p, out)
    BY DEF Run, Outcomes
<1>2. proc[p].at = "check" /\ UNCHANGED <<dirs, tree, spoiled, mixed>>
    BY DEF Run, At
<1>3. spoiled \in SUBSET Names /\ mixed \in SUBSET Names /\ ~Live(p, proc[p].on)
    BY <1>2 DEF IInv, TypeOK, Live, Unpacking
<1>4. QED BY <1>1, <1>2, <1>3, EndInv

\* What is deleted is nobody else's, or in mixed.
LEMMA DeleteInv ==
    ASSUME IInv, NEW p \in Procs, Delete(p)
    PROVE  IInv'
<1> USE DEF IInv
<1>1. PICK d \in Names : d = proc[p].on
    BY DEF Delete, At, InStep
<1>2. PICK e \in proc[p].todo :
         /\ Goes(p, "delete", proc[p].todo \ {e}, "none")
         /\ tree' = [tree EXCEPT ![d][e] = "absent"]
    BY <1>1 DEF Delete
<1>3. proc[p].at = "delete" /\ proc[p].cmd = "remove" /\ UNCHANGED <<dirs, spoiled, mixed>>
    BY DEF Delete, At, InStep
<1>4. proc[p].todo \in SUBSET Entries /\ e \in Entries
    BY <1>2 DEF TypeOK, Process
<1>5. /\ proc' \in [Procs -> Process]
      /\ \A q \in Procs \ {p} : proc'[q] = proc[q]
      /\ proc'[p].at = "delete"
      /\ proc'[p].on = d /\ proc'[p].cmd = "remove" /\ proc'[p].out = proc[p].out
    <2>1. "delete" \in Steps /\ proc[p].todo \ {e} \in SUBSET Entries
        BY <1>4 DEF Steps
    <2>2. QED BY <1>1, <1>2, <1>3, <2>1, GoesOn
<1>6. /\ tree' \in [Names -> [Entries -> State]] /\ tree'[d][e] = "absent"
      /\ \A x \in Entries \ {e} : tree'[d][x] = tree[d][x]
      /\ \A c \in Names \ {d} : tree'[c] = tree[c]
    <2>1. "absent" \in State
        BY DEF State
    <2>2. QED BY <1>2, <1>4, <2>1 DEF TypeOK
<1>7. TypeOK'
    BY <1>3, <1>5, <1>6 DEF TypeOK
<1>8. InStep'
    BY <1>1, <1>3, <1>5 DEF InStep, Unpacking
<1>9. Met'
    BY <1>1, <1>3, <1>5 DEF Met, Working
<1>10. InDirs'
    <2>1. \A c \in Names : Present(c)' \subseteq Present(c)
        BY <1>6 DEF Present
    <2>2. QED BY <1>3, <1>5, <2>1 DEF InDirs, Unpacking
<1>11. Owned'
    <2> SUFFICES ASSUME NEW q \in Procs, NEW c \in Names \ spoiled, NEW x \in Entries,
                        tree'[c][x] = q
                 PROVE  proc'[q].on = c /\ proc'[q].at = "write" /\ proc'[q].file = x
        BY <1>3 DEF Owned
    <2>1. tree[c][x] = q
        BY <1>6, ProcsApart
    <2>2. proc[q].on = c /\ proc[q].at = "write" /\ proc[q].file = x
        BY <2>1 DEF Owned
    <2>3. QED BY <1>3, <1>5, <2>2
<1>12. \A q \in Procs : proc[q].at \in Unpacking \/ proc'[q].at \in Unpacking
                            => proc'[q] = proc[q]
    BY <1>3, <1>5 DEF Unpacking
<1>13. Unpacked'
    <2>1. ASSUME NEW q \in Procs, NEW x \in Entries, Past(q, x)',
                 proc'[q].on \notin spoiled \cup mixed
          PROVE  Covered(proc[q].on, x)' /\ proc'[q].on = proc[q].on
        <3>1. proc'[q] = proc[q] /\ Past(q, x) /\ proc[q].on \in Names /\ Working(q)
            BY <1>12, <2>1 DEF Past, InStep, Working, Unpacking
        <3>2. proc[q].on # d
            BY <1>1, <1>3, <2>1, <3>1 DEF Met, Past, Unpacking
        <3>3. Covered(proc[q].on, x)
            BY <2>1, <3>1 DEF Unpacked
        <3>4. tree'[proc[q].on] = tree[proc[q].on]
            BY <1>6, <3>1, <3>2
        <3>5. QED BY <1>12, <3>1, <3>3, <3>4 DEF Covered, Unpacking
    <2>2. QED BY <1>3, <2>1 DEF Unpacked, Covered
<1>14. Settled'
    <2> SUFFICES ASSUME NEW c \in Names \ (spoiled \cup mixed)
                 PROVE  Whole(c)' \/ Present(c)' = {} \/ \E q \in Procs : Live(q, c)'
        BY <1>3 DEF Settled
    <2>1. CASE c = d
        <3>1. Live(p, d)'
            BY <1>5 DEF Live
        <3>2. QED BY <2>1, <3>1
    <2>2. CASE c # d
        <3>1. (Whole(c) => Whole(c)') /\ Present(c)' = Present(c)
            BY <1>3, <1>6, <2>2 DEF Whole, Present
        <3>2. \A q \in Procs : Live(q, c) => Live(q, c)'
            BY <1>1, <1>5, <1>6, <2>2 DEF Live
        <3>3. QED BY <3>1, <3>2 DEF Settled
    <2>3. QED BY <2>1, <2>2
<1>15. QED BY <1>7, <1>8, <1>9, <1>10, <1>11, <1>13, <1>14

\* A removal that succeeds leaves nothing, and nobody who counts on it.
LEMMA RemoveEndsInv ==
    ASSUME IInv, NEW p \in Procs, RemoveEnds(p)
    PROVE  IInv'
<1> USE DEF IInv
<1>1. PICK d \in Names : d = proc[p].on
    BY DEF RemoveEnds, At, InStep
<1>2. proc[p].at = "delete" /\ tree' = tree
    BY DEF RemoveEnds, At
<1>3. CASE d \in dirs /\ Present(d) = {}
    <2>1. dirs' = dirs \ {d} /\ Ends(p, "removed") /\ spoiled' = spoiled \ {d}
          /\ mixed' = IF Others(p) = {} THEN mixed \ {d} ELSE mixed
        BY <1>1, <1>3 DEF RemoveEnds
    <2>2. /\ proc' \in [Procs -> Process]
          /\ \A q \in Procs \ {p} : proc'[q] = proc[q]
          /\ proc'[p].at = "end" /\ proc'[p].on = d
        <3>1. "removed" \in Outcomes
            BY DEF Outcomes
        <3>2. QED BY <1>1, <2>1, <3>1, ComesToEnd
    <2>3. \A q \in Procs \ {p} : proc[q].on = d /\ Working(q) => d \in mixed /\ mixed' = mixed
        BY <1>1, <1>2, <2>1 DEF Met, Others, Working
    <2>4. TypeOK'
        BY <1>2, <2>1, <2>2 DEF TypeOK
    <2>5. InStep'
        BY <2>2 DEF InStep, Unpacking
    <2>6. Met'
        <3> SUFFICES ASSUME NEW q \in Procs \ {p}, NEW r \in Procs \ {p}, q # r,
                            proc[q].on = proc[r].on, Working(q), proc[r].at = "delete"
                     PROVE  proc[q].on \in mixed'
            BY <2>2 DEF Met, Working
        <3>1. QED BY <2>1, <2>3 DEF Met
    <2>7. Present(d)' = {} /\ \A c \in Names : Present(c)' = Present(c)
        BY <1>2, <1>3 DEF Present
    <2>8. InDirs'
        <3>1. ASSUME NEW q \in Procs, proc'[q].at \in {"download"} \cup Unpacking
              PROVE  proc'[q].on \in dirs' \cup mixed'
            <4>1. q # p /\ proc'[q] = proc[q] /\ Working(q)
                BY <2>2, <3>1 DEF Working, Unpacking
            <4>2. proc[q].on \in dirs \cup mixed
                BY <3>1, <4>1 DEF InDirs
            <4>3. QED BY <2>1, <2>3, <4>1, <4>2
        <3>2. \A c \in Names : Present(c)' # {} => c \in dirs'
            BY <2>1, <2>7 DEF InDirs
        <3>3. QED BY <3>1, <3>2 DEF InDirs
    <2>9. Owned'
        <3> SUFFICES ASSUME NEW q \in Procs, NEW c \in Names \ spoiled', NEW x \in Entries,
                            tree[c][x] = q
                     PROVE  proc'[q].on = c /\ proc'[q].at = "write" /\ proc'[q].file = x
            BY <1>2 DEF Owned
        <3>1. c # d
            BY <1>3, ProcsApart DEF Present
        <3>2. proc[q].on = c /\ proc[q].at = "write" /\ proc[q].file = x
            BY <2>1, <3>1 DEF Owned
        <3>3. QED BY <1>2, <2>2, <3>2
    <2>10. Unpacked'
        <3>1. ASSUME NEW q \in Procs, NEW x \in Entries, Past(q, x)',
                     proc'[q].on \notin spoiled' \cup mixed'
              PROVE  Covered(proc[q].on, x)' /\ proc'[q].on = proc[q].on
            <4>1. q # p /\ proc'[q] = proc[q] /\ Past(q, x) /\ Working(q)
                BY <2>2, <3>1 DEF Past, Working, Unpacking
            <4>2. proc[q].on # d /\ proc[q].on \notin spoiled \cup mixed
                BY <2>1, <2>3, <3>1, <4>1
            <4>3. Covered(proc[q].on, x)
                BY <4>1, <4>2 DEF Unpacked
            <4>4. Covered(proc[q].on, x)'
                <5>1. \A r \in Procs : proc[r].at = "recreate" => proc'[r] = proc[r]
                    BY <1>2, <2>2
                <5>2. QED BY <1>2, <4>1, <4>3, <5>1 DEF Covered
            <4>5. QED BY <4>1, <4>4
        <3>2. QED BY <3>1 DEF Unpacked, Covered
    <2>11. Settled'
        <3> SUFFICES ASSUME NEW c \in Names \ (spoiled' \cup mixed'), c # d
                     PROVE  Whole(c)' \/ Present(c)' = {} \/ \E q \in Procs : Live(q, c)'
            BY <2>7 DEF Settled
        <3>1. c \notin spoiled \cup mixed /\ (Whole(c) => Whole(c)')
            BY <1>2, <2>1 DEF Whole
        <3>2. \A q \in Procs : Live(q, c) => Live(q, c)'
            BY <1>1, <1>2, <2>2 DEF Live
        <3>3. QED BY <2>7, <3>1, <3>2 DEF Settled
    <2>12. QED BY <2>4, <2>5, <2>6, <2>8, <2>9, <2>10, <2>11
<1>4. CASE ~(d \in dirs /\ Present(d) = {})
    <2>1. Ends(p, "failed") /\ spoiled' = spoiled \cup {d} /\ UNCHANGED <<dirs, mixed>>
        BY <1>1, <1>4 DEF RemoveEnds
    <2>2. "failed" \in Outcomes
        BY DEF Outcomes
    <2>3. QED BY <1>1, <1>2, <2>1, <2>2, EndInv DEF TypeOK
<1>5. QED BY <1>3, <1>4

(***************************************************************************)
(* What follows                                                            *)
(***************************************************************************)

LEMMA InitInv == Init => IInv
<1> SUFFICES ASSUME Init PROVE IInv
    OBVIOUS
<1>1. Idle \in Process /\ Idle.at = "end" /\ Idle.out = "none"
    BY DEF Idle, Process, Steps, Outcomes
<1>2. \A p \in Procs : proc[p] = Idle
    BY DEF Init
<1>3. /\ tree \in [Names -> [Entries -> State]]
      /\ \A d \in Names, e \in Entries : tree[d][e] = "absent"
    BY DEF Init, State
<1>4. TypeOK
    BY <1>1, <1>3 DEF Init, TypeOK
<1>5. InStep /\ Met /\ Unpacked
    BY <1>1, <1>2 DEF InStep, Met, Unpacked, Past, Working, Unpacking
<1>6. \A d \in Names : Present(d) = {}
    BY <1>3 DEF Present
<1>7. InDirs /\ Owned /\ Settled
    BY <1>1, <1>2, <1>3, <1>6, ProcsApart DEF InDirs, Owned, Settled, Unpacking
<1>8. QED BY <1>4, <1>5, <1>7 DEF IInv

LEMMA NextInv == IInv /\ [Next]_vars => IInv'
<1>1. ASSUME IInv, Next PROVE IInv'
    BY <1>1, GiveInv, BreaksOffInv, InstallCheckInv, InstallCreateInv, DownloadInv,
       ExtractInv, ReplaceInv, RecreateInv, WriteInv, InstallEndsInv, RunInv,
       RemoveCheckInv, DeleteInv, RemoveEndsInv DEF Next
<1>2. ASSUME IInv, UNCHANGED vars PROVE IInv'
    BY <1>2 DEF IInv, TypeOK, InStep, Met, InDirs, Owned, Unpacked, Covered, Past, Settled,
                Live, Present, Whole, Working, vars
<1>3. QED BY <1>1, <1>2

\* Which step gives a process which outcome; nobody gives it to another.
LEMMA OutcomeOf ==
    ASSUME IInv, Next, NEW p \in Procs, proc'[p] # proc[p]
    PROVE  /\ proc'[p].out = "installed" /\ proc[p].at = "extract" => InstallEnds(p)
           /\ proc'[p].out = "already installed" =>
                 InstallCheck(p) /\ proc[p].on \in dirs /\ Present(proc[p].on) # {}
           /\ proc'[p].out = "ran" => Run(p) /\ proc[p].on \in dirs
<1> USE DEF IInv
<1>1. PICK r \in Procs :
         \/ Give(r) \/ BreaksOff(r)
         \/ InstallCheck(r) \/ InstallCreate(r) \/ Download(r)
         \/ Extract(r) \/ Replace(r) \/ Recreate(r) \/ Write(r) \/ InstallEnds(r)
         \/ Run(r) \/ RemoveCheck(r) \/ Delete(r) \/ RemoveEnds(r)
    BY DEF Next
<1>2. CASE Give(r)
    <2>1. PICK cmd \in Commands, d \in Names :
             proc' = [proc EXCEPT ![r] = [Idle EXCEPT !.cmd = cmd, !.on = d, !.at = "check"]]
        BY <1>2 DEF Give
    <2>2. proc'[p].out = "none"
        BY <2>1 DEF TypeOK, Idle
    <2>3. QED BY <2>2
<1>3. ASSUME NEW step, NEW todo, NEW e, Goes(r, step, todo, e), proc[r].at # "end"
      PROVE  proc'[p].out = "none"
    <2>1. p = r
        BY <1>3 DEF Goes, TypeOK
    <2>2. proc'[p].out = proc[p].out
        BY <1>3, <2>1 DEF Goes, TypeOK, Process
    <2>3. QED BY <1>3, <2>1, <2>2 DEF InStep
<1>4. ASSUME NEW out \in Outcomes, Ends(r, out)
      PROVE  p = r /\ proc'[p].out = out
    BY <1>4, ComesToEnd
<1>5. ASSUME NEW step, NEW todo, NEW e, NEW out \in {"failed", "unknown", "unsupported",
                                                   "not installed", "removed"},
             Goes(r, step, todo, e) \/ Ends(r, out), proc[r].at # "end"
      PROVE  proc'[p].out \in {"none", out}
    BY <1>3, <1>4, <1>5 DEF Outcomes
<1>5a. ASSUME NEW step, NEW todo, NEW e, NEW out \in {"failed", "not installed", "removed"},
              Goes(r, step, todo, e) \/ Ends(r, out), proc[r].at # "end"
       PROVE  proc'[p].out \notin {"installed", "already installed", "ran"}
    <2>1. proc'[p].out \in {"none", out}
        BY <1>5, <1>5a
    <2>2. QED BY <2>1
<1>6. CASE \/ BreaksOff(r) \/ InstallCreate(r) \/ Extract(r) \/ Replace(r) \/ Recreate(r)
           \/ Write(r) \/ RemoveCheck(r) \/ Delete(r) \/ RemoveEnds(r)
    <2>0. proc[r].at # "end"
        BY <1>6 DEF BreaksOff, InstallCreate, Extract, Replace, Recreate, Write,
                    RemoveCheck, Delete, RemoveEnds, At
    <2>1. SUFFICES \E step, todo, e : \E out \in {"failed", "not installed", "removed"} :
                      Goes(r, step, todo, e) \/ Ends(r, out)
        BY <1>5a, <2>0
    <2>2. CASE BreaksOff(r)
        BY <2>2, Zenon DEF BreaksOff
    <2>3. CASE InstallCreate(r)
        BY <2>3, Zenon DEF InstallCreate
    <2>4. CASE Extract(r)
        BY <2>4, Zenon DEF Extract
    <2>5. CASE Replace(r)
        BY <2>5, Zenon DEF Replace
    <2>6. CASE Recreate(r)
        <3>1. \/ Goes(r, "write", proc[r].todo, proc[r].file)
              \/ Ends(r, "failed")
            BY <2>6, Zenon DEF Recreate
        <3>2. QED BY <3>1, Zenon
    <2>7. CASE Write(r)
        BY <2>7, Zenon DEF Write
    <2>8. CASE RemoveCheck(r)
        <3>1. \/ Goes(r, "delete", Present(proc[r].on), "none")
              \/ Ends(r, "not installed")
            BY <2>8, Zenon DEF RemoveCheck
        <3>2. QED BY <3>1, Zenon
    <2>9. CASE Delete(r)
        BY <2>9, Zenon DEF Delete
    <2>10. CASE RemoveEnds(r)
        <3>1. Ends(r, "removed") \/ Ends(r, "failed")
            BY <2>10, Zenon DEF RemoveEnds
        <3>2. QED BY <3>1, Zenon
    <2>11. QED BY <1>6, <2>2, <2>3, <2>4, <2>5, <2>6, <2>7, <2>8, <2>9, <2>10
<1>7. CASE InstallCheck(r)
    <2>1. proc[r].at = "check"
        BY <1>7 DEF InstallCheck, At
    <2>2. CASE Goes(r, "create", {}, "none") \/ Ends(r, "unknown")
        <3>1. proc'[p].out \in {"none", "unknown"}
            BY <1>5, <2>1, <2>2
        <3>2. QED BY <3>1
    <2>3. CASE proc[r].on \in dirs /\ Present(proc[r].on) # {} /\ Ends(r, "already installed")
        BY <1>4, <1>7, <2>3 DEF Outcomes
    <2>4. QED BY <1>7, <2>2, <2>3 DEF InstallCheck
<1>8. CASE Download(r)
    <2>1. proc[r].at = "download"
        BY <1>8 DEF Download, At
    <2>2. CASE Ends(r, "installed")
        BY <1>4, <2>1, <2>2 DEF Outcomes
    <2>3. CASE Goes(r, "extract", Entries, "none") \/ Ends(r, "unsupported") \/ Ends(r, "failed")
        <3>1. proc'[p].out \in {"none", "unsupported", "failed"}
            BY <1>5, <2>1, <2>3
        <3>2. QED BY <3>1
    <2>4. QED BY <1>8, <2>2, <2>3 DEF Download
<1>9. CASE InstallEnds(r)
    BY <1>4, <1>9 DEF InstallEnds, Outcomes
<1>10. CASE Run(r)
    BY <1>4, <1>10 DEF Run, Outcomes
<1>11. QED BY <1>1, <1>2, <1>6, <1>7, <1>8, <1>9, <1>10

\* In every reachable state a file that an installation is done with is there
\* or about to be created by another, and a distribution is in between only
\* while somebody is at it who will not fail for the sake of another, or since
\* somebody broke off on it.
THEOREM DistroInvariant == Spec => []IInv
BY InitInv, NextInv, PTL DEF Spec

\* When all commands have ended, however many there were, whichever files they
\* replaced of each other's and wherever they broke off, a distribution is
\* whole or there is nothing in it, except where one broke off or a removal
\* met another (lroot-distro/src/main.rs:25-51, 108-119, 162-178).
THEOREM DistroAllOrNothing == Spec => []AllOrNothing
<1>1. IInv => AllOrNothing
    BY DEF IInv, Settled, Live, AllOrNothing, Unpacking
<1>2. QED BY <1>1, DistroInvariant, PTL

\* Success after unpacking is reported of a whole root file system, also when
\* installations of it run side by side, unless one of the others has a file
\* in hand at that moment (lroot-distro/src/main.rs:25-51, 143-178).
THEOREM DistroInstallsWhole == Spec => InstalledIsWhole
<1>1. ASSUME IInv, [Next]_vars, NEW p \in Procs,
             proc'[p].out = "installed", proc[p].at = "extract"
      PROVE  LET d == proc[p].on
             IN  \/ Whole(d)' \/ d \in spoiled \cup mixed
                 \/ \E q \in Procs \ {p} : InHand(q, d)
    <2>1. proc'[p] # proc[p]
        BY <1>1 DEF IInv, InStep, Unpacking
    <2>2. InstallEnds(p)
        BY <1>1, <2>1, OutcomeOf DEF vars
    <2>3. UNCHANGED <<dirs, tree>>
        BY <2>2 DEF InstallEnds
    <2>4. Whole(proc[p].on) => Whole(proc[p].on)'
        <3>1. proc'[p].on = proc[p].on
            BY <1>1, <2>2, ComesToEnd DEF InstallEnds, IInv, Outcomes
        <3>2. QED BY <2>3, <3>1 DEF Whole
    <2>5. QED BY <1>1, <2>2, <2>4, InstallEndsWhole
<1>2. IInv /\ [Next]_vars =>
        [\A p \in Procs :
            (proc'[p].out = "installed" /\ proc[p].at = "extract")
                => LET d == proc[p].on
                   IN  \/ Whole(d)' \/ d \in spoiled \cup mixed
                       \/ \E q \in Procs \ {p} : InHand(q, d)]_vars
    BY <1>1
<1>3. QED BY <1>2, DistroInvariant, PTL DEF Spec, InstalledIsWhole

\* What is refused as installed, or run, is whole, unless a command broke off
\* or is at work there (lroot-distro/src/main.rs:28-30, 77-83).
THEOREM DistroTakesWhole == Spec => TakenMeansWhole
<1>1. ASSUME IInv, [Next]_vars, NEW p \in Procs,
             proc'[p] # proc[p], proc'[p].out \in {"already installed", "ran"}
      PROVE  LET d == proc[p].on
             IN  \/ Whole(d) \/ d \in spoiled \cup mixed'
                 \/ Others(p) # {}
                 \/ proc[p].cmd = "run" /\ Present(d) = {}
    <2> DEFINE d == proc[p].on
    <2>1. (InstallCheck(p) /\ Present(d) # {}) \/ Run(p)
        BY <1>1, OutcomeOf DEF vars
    <2>2. proc[p].at = "check" /\ d \in Names /\ mixed \subseteq mixed'
        BY <1>1, <2>1 DEF InstallCheck, Run, At, IInv, InStep
    <2>3. Present(d) = {} => proc[p].cmd = "run"
        BY <2>1 DEF Run, At
    <2>4. ASSUME NEW q \in Procs, Live(q, d)
          PROVE  Others(p) # {}
        <3>1. q # p /\ proc[q].on = d /\ proc[q].at \notin {"check", "end"}
            BY <2>2, <2>4 DEF Live, Unpacking
        <3>2. QED BY <3>1 DEF Others
    <2>5. d \in spoiled \cup mixed \/ Whole(d) \/ Present(d) = {} \/ Others(p) # {}
        BY <1>1, <2>2, <2>4 DEF IInv, Settled
    <2>6. QED BY <2>2, <2>3, <2>5
<1>2. IInv /\ [Next]_vars =>
        [\A p \in Procs :
            (proc'[p] # proc[p] /\ proc'[p].out \in {"already installed", "ran"})
                => LET d == proc[p].on
                   IN  \/ Whole(d) \/ d \in spoiled \cup mixed'
                       \/ Others(p) # {}
                       \/ proc[p].cmd = "run" /\ Present(d) = {}]_vars
    BY <1>1
<1>3. QED BY <1>2, DistroInvariant, PTL DEF Spec, TakenMeansWhole
=============================================================================
