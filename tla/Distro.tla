------------------------------- MODULE Distro -------------------------------
(***************************************************************************)
(* lroot-distro: its commands work on the directory of a distribution with *)
(* no lock and no mark of completeness.  Several may run at a time, each   *)
(* may fail at any of its steps or be killed between two of them, and what *)
(* it leaves behind is what the next one finds.                            *)
(*                                                                         *)
(* The tar crate unpacks a file by creating it anew; one that is there is  *)
(* removed first, and if another is created in its place meanwhile, the    *)
(* unpacking fails.  A file is written after it was created, so it is      *)
(* there in part for a while, or for good if the process ends.             *)
(***************************************************************************)
EXTENDS Naturals

CONSTANTS
    Procs,       \* the lroot-distro processes there are at a time
    Commands,    \* the commands they are given: "install", "run", "remove"
    Names,       \* the distributions they are given
    Known,       \* those in DISTROS
    Xz,          \* those whose tarball is compressed with xz
    Entries,     \* the files each root file system consists of
    MaxCommands  \* bound: how many commands are given in all

ASSUME DistroAssumption ==
    /\ Xz \subseteq Known /\ Known \subseteq Names
    /\ {"absent", "whole"} \cap Procs = {}

VARIABLES
    dirs,    \* the distributions whose directory exists
    tree,    \* tree[d][e]: a file in it, "absent", "whole", or there in part,
             \* as far as a process has written it
    proc,    \* proc[p]: the command of process p, on which distribution, the
             \* step it has got to, the files left to do there, the one it is
             \* at, and how it ended
    given,   \* the number of commands given
    spoiled, \* history: the distributions of which an installation or a
             \* removal broke off since they were last removed
    mixed    \* history: those that were being removed while another command
             \* worked on them, since they were last removed by one alone

vars == <<dirs, tree, proc, given, spoiled, mixed>>

Idle == [cmd |-> "none", on |-> "none", at |-> "end", todo |-> {}, file |-> "none",
         out |-> "none"]
Present(d) == {e \in Entries : tree[d][e] # "absent"}

Init ==
    /\ dirs = {} /\ tree = [d \in Names |-> [e \in Entries |-> "absent"]]
    /\ proc = [p \in Procs |-> Idle]
    /\ given = 0 /\ spoiled = {} /\ mixed = {}

(***************************************************************************)
(* A process and its command                                               *)
(***************************************************************************)

At(p, cmd, step) == proc[p].cmd = cmd /\ proc[p].at = step

\* The processes that have begun to change what process p works on.
Others(p) == {q \in Procs \ {p} : /\ proc[q].on = proc[p].on
                                 /\ proc[q].at \notin {"check", "end"}}

Goes(p, step, todo, e) ==
    proc' = [proc EXCEPT ![p].at = step, ![p].todo = todo, ![p].file = e]
Ends(p, out) == proc' = [proc EXCEPT ![p].at = "end", ![p].out = out]

Give(p) ==
    /\ proc[p].at = "end" /\ given < MaxCommands
    /\ given' = given + 1
    /\ \E cmd \in Commands, d \in Names :
          proc' = [proc EXCEPT ![p] = [Idle EXCEPT !.cmd = cmd, !.on = d,
                                                   !.at = "check"]]
    /\ UNCHANGED <<dirs, tree, spoiled, mixed>>

Unpacking == {"extract", "replace", "recreate", "write"}

\* The process is killed, or an operation of its own fails and it exits.
BreaksOff(p) ==
    /\ proc[p].at # "end"
    /\ Ends(p, "failed")
    /\ spoiled' = IF proc[p].at \in Unpacking \cup {"delete"} THEN spoiled \cup {proc[p].on}
                  ELSE spoiled
    /\ UNCHANGED <<dirs, tree, given, mixed>>

(***************************************************************************)
(* install                                                                 *)
(***************************************************************************)

\* A mutant of InstallCheck: an empty directory counts as installed.
InstallCheckDirOnly(p) ==
    /\ At(p, "install", "check")
    /\ LET d == proc[p].on
       IN  /\ IF d \in dirs THEN Ends(p, "already installed")
              ELSE IF d \notin Known THEN Ends(p, "unknown")
              ELSE Goes(p, "create", {}, "none")
           /\ mixed' = IF \E q \in Others(p) : proc[q].cmd = "remove"
                       THEN mixed \cup {d} ELSE mixed
    /\ UNCHANGED <<dirs, tree, given, spoiled>>

InstallCheck(p) ==
    /\ At(p, "install", "check")
    /\ LET d == proc[p].on
       IN  /\ IF d \in dirs /\ Present(d) # {} THEN Ends(p, "already installed")
              ELSE IF d \notin Known THEN Ends(p, "unknown")
              ELSE Goes(p, "create", {}, "none")
           /\ mixed' = IF \E q \in Others(p) : proc[q].cmd = "remove"
                       THEN mixed \cup {d} ELSE mixed
    /\ UNCHANGED <<dirs, tree, given, spoiled>>

InstallCreate(p) ==
    /\ At(p, "install", "create")
    /\ dirs' = dirs \cup {proc[p].on}
    /\ Goes(p, "download", {}, "none")
    /\ UNCHANGED <<tree, given, spoiled, mixed>>

\* curl succeeds whatever the server answers: with the tarball, with a page of
\* another kind, which is no archive, or with nothing, which is one without
\* entries.
Download(p) ==
    /\ At(p, "install", "download")
    /\ \/ IF proc[p].on \in Xz THEN Ends(p, "unsupported")
          ELSE Goes(p, "extract", Entries, "none")
       \/ Ends(p, "failed")
       \/ Ends(p, "installed")
    /\ UNCHANGED <<dirs, tree, given, spoiled, mixed>>

\* unpack: the next file is created, the directories above it too if they are
\* gone; if it is there ...
Extract(p) ==
    /\ At(p, "install", "extract")
    /\ LET d == proc[p].on
       IN  \E e \in proc[p].todo :
             /\ Goes(p, IF tree[d][e] = "absent" THEN "write" ELSE "replace",
                     proc[p].todo, e)
             /\ tree' = IF tree[d][e] = "absent" THEN [tree EXCEPT ![d][e] = p] ELSE tree
             /\ dirs' = dirs \cup {d}
    /\ UNCHANGED <<given, spoiled, mixed>>

\* ... it is removed ...
Replace(p) ==
    /\ At(p, "install", "replace")
    /\ Goes(p, "recreate", proc[p].todo, proc[p].file)
    /\ tree' = [tree EXCEPT ![proc[p].on][proc[p].file] = "absent"]
    /\ UNCHANGED <<dirs, given, spoiled, mixed>>

\* ... and created, which fails if another was quicker.
Recreate(p) ==
    /\ At(p, "install", "recreate")
    /\ LET d == proc[p].on
           e == proc[p].file
       IN  IF d \in dirs /\ tree[d][e] = "absent"
           THEN Goes(p, "write", proc[p].todo, e) /\ tree' = [tree EXCEPT ![d][e] = p]
           ELSE Ends(p, "failed") /\ UNCHANGED tree
    /\ UNCHANGED <<dirs, given, spoiled, mixed>>

\* It is written to its end, under its name or, if another took that away,
\* under none.
Write(p) ==
    /\ At(p, "install", "write")
    /\ LET e == proc[p].file
       IN  /\ tree' = [tree EXCEPT ![proc[p].on][e] = IF @ = p THEN "whole" ELSE @]
           /\ Goes(p, "extract", proc[p].todo \ {e}, "none")
    /\ UNCHANGED <<dirs, given, spoiled, mixed>>

\* A mutant: success is reported although not everything was unpacked.
InstallEndsEarly(p) ==
    /\ At(p, "install", "extract")
    /\ Ends(p, "installed")
    /\ UNCHANGED <<dirs, tree, given, spoiled, mixed>>

InstallEnds(p) ==
    /\ At(p, "install", "extract") /\ proc[p].todo = {}
    /\ Ends(p, "installed")
    /\ UNCHANGED <<dirs, tree, given, spoiled, mixed>>

(***************************************************************************)
(* run and remove                                                          *)
(***************************************************************************)

\* lroot is started on whatever the directory holds.
Run(p) ==
    /\ At(p, "run", "check")
    /\ Ends(p, IF proc[p].on \in dirs THEN "ran" ELSE "not installed")
    /\ UNCHANGED <<dirs, tree, given, spoiled, mixed>>

RemoveCheck(p) ==
    /\ At(p, "remove", "check")
    /\ LET d == proc[p].on
       IN  /\ IF d \in dirs THEN Goes(p, "delete", Present(d), "none") ELSE Ends(p, "not installed")
           /\ mixed' = IF Others(p) # {} THEN mixed \cup {d} ELSE mixed
    /\ UNCHANGED <<dirs, tree, given, spoiled>>

\* remove_dir_all: what the directory held, one entry after another ...
Delete(p) ==
    /\ At(p, "remove", "delete")
    /\ \E e \in proc[p].todo :
          /\ Goes(p, "delete", proc[p].todo \ {e}, "none")
          /\ tree' = [tree EXCEPT ![proc[p].on][e] = "absent"]
    /\ UNCHANGED <<dirs, given, spoiled, mixed>>

\* ... and the directory itself, which must be empty.
RemoveEnds(p) ==
    /\ At(p, "remove", "delete") /\ proc[p].todo = {}
    /\ LET d == proc[p].on
       IN  IF d \in dirs /\ Present(d) = {}
           THEN /\ dirs' = dirs \ {d} /\ Ends(p, "removed")
                /\ spoiled' = spoiled \ {d}
                /\ mixed' = IF Others(p) = {} THEN mixed \ {d} ELSE mixed
           ELSE /\ Ends(p, "failed")
                /\ spoiled' = spoiled \cup {d}
                /\ UNCHANGED <<dirs, mixed>>
    /\ UNCHANGED <<tree, given>>

Next == \E p \in Procs :
    \/ Give(p) \/ BreaksOff(p)
    \/ InstallCheck(p) \/ InstallCreate(p) \/ Download(p)
    \/ Extract(p) \/ Replace(p) \/ Recreate(p) \/ Write(p) \/ InstallEnds(p)
    \/ Run(p) \/ RemoveCheck(p) \/ Delete(p) \/ RemoveEnds(p)

Spec == Init /\ [][Next]_vars

(***************************************************************************)
(* Properties                                                              *)
(***************************************************************************)

Whole(d) == d \in dirs /\ \A e \in Entries : tree[d][e] = "whole"

\* Process p has a file of distribution d in hand: it has removed it, or not
\* yet written it to its end.
InHand(p, d) == /\ proc[p].on = d /\ proc[p].cmd = "install"
                /\ proc[p].at \in {"recreate", "write"}

\* When an installation that unpacked its tarball reports success the whole
\* root file system is there, however many installations of it ran at the same
\* time, ended before it, failed or were refused, except that another one may
\* at that moment be replacing a file, that one may have broken off in it, and
\* that it may have been removed meanwhile.  (Of an empty answer of the server
\* success is reported, too; main.rs:25-51, 143-178.)
InstalledIsWhole ==
    [][\A p \in Procs :
          (proc'[p].out = "installed" /\ proc[p].at = "extract")
              => LET d == proc[p].on
                 IN  \/ Whole(d)' \/ d \in spoiled \cup mixed
                     \/ \E q \in Procs \ {p} : InHand(q, d)]_vars

\* When no command is under way, a distribution that no command broke off on
\* and that no two commands took apart is there as a whole, or there is
\* nothing in it to run: of installations that met, each replacing the files
\* of the others, the last one makes it whole, and those that fail because
\* another was quicker leave it so (main.rs:25-51, 108-119, 162-178).
AllOrNothing ==
    (\A p \in Procs : proc[p].at = "end") =>
        \A d \in Names \ (spoiled \cup mixed) : Whole(d) \/ Present(d) = {}

\* A distribution is taken for installed, by an installation that refuses or
\* by a run, only if it is whole, or a command broke off on it, or two met
\* there, or an installation or a removal is at it; a run also starts in an
\* empty one, which a failed download leaves (main.rs:28-30, 77-83).
TakenMeansWhole ==
    [][\A p \in Procs :
          (proc'[p] # proc[p] /\ proc'[p].out \in {"already installed", "ran"})
              => LET d == proc[p].on
                 IN  \/ Whole(d) \/ d \in spoiled \cup mixed'
                     \/ Others(p) # {}
                     \/ proc[p].cmd = "run" /\ Present(d) = {}]_vars
=============================================================================
