------------------------------ MODULE Launcher ------------------------------
(***************************************************************************)
(* lroot itself (runner/src/main.rs) from its first instruction to its     *)
(* exit: the signal handlers it installs, the guest process it starts and  *)
(* waits for, and the signals it passes on.                                *)
(*                                                                         *)
(* forward_signal runs between any two steps of main.  It reads CHILD_PID, *)
(* which is stored only after spawn has returned: what is caught earlier   *)
(* goes nowhere.  A signal from the terminal also reaches the guest.  Five  *)
(* signals are caught; any other that is fatal by default ends lroot at     *)
(* once, whatever its guest is doing.                                       *)
(*                                                                         *)
(* The command line is one that starts a guest: --help and bad arguments   *)
(* end lroot inside parse_args, before there is anything to wait for.      *)
(* (Definitions are called Main... where Sessions has the shorter name.)   *)
(***************************************************************************)
EXTENDS Naturals

CONSTANTS
    Codes,      \* the exit codes of a guest, 0 among them
    Fatal,      \* the signals sent: each ends a process that does not handle it
    MaxSignals  \* bound: the signals sent from outside

ASSUME LauncherAssumption == 0 \in Codes /\ Codes \subseteq 0..255 /\ MaxSignals \in Nat

VARIABLES
    pc,       \* main: "start", "setup", "spawned", "waiting", "reaped" or,
              \* when the process has ended, "over"
    caught,   \* the signal handlers are installed
    childPid, \* CHILD_PID holds the guest's pid
    child,    \* the guest: "none", "running", "zombie" or "gone" (reaped)
    heeds,    \* a signal ends the guest: it neither ignores nor handles them
    end,      \* how the guest ended: with a code or by a signal
    queued,   \* the signals the guest has yet to take
    result,   \* the exit code of lroot, or BySignal
    sent,     \* the number of signals sent from outside
    told,     \* history: it was sent one that it forwards while it waited
              \* for the guest
    felled    \* history: one that it does not catch ended it

mainVars == <<pc, caught, childPid, child, heeds, end, queued, result, sent, told,
              felled>>

Pending  == 1000
BySignal == 1001

MainInit ==
    /\ pc = "start" /\ caught = FALSE /\ childPid = FALSE
    /\ child = "none" /\ heeds \in BOOLEAN /\ end = Pending /\ queued = 0
    /\ result = Pending /\ sent = 0 /\ told = FALSE /\ felled = FALSE

guest   == <<child, heeds, end, queued>>
outside == <<sent, told, felled>>

(***************************************************************************)
(* main                                                                    *)
(***************************************************************************)

\* A mutant: no handlers.
InstallNothing ==
    /\ pc = "start" /\ pc' = "setup"
    /\ UNCHANGED <<caught, childPid, guest, result, outside>>

InstallHandlers ==
    /\ pc = "start" /\ pc' = "setup"
    /\ caught' = TRUE
    /\ UNCHANGED <<childPid, guest, result, outside>>

\* No intercept library is found, or spawn fails.
GiveUp ==
    /\ pc = "setup" /\ pc' = "over"
    /\ result' = 1
    /\ UNCHANGED <<caught, childPid, guest, outside>>

Spawn ==
    /\ pc = "setup" /\ pc' = "spawned"
    /\ child' = "running"
    /\ UNCHANGED <<caught, childPid, heeds, end, queued, result, outside>>

StoreChild ==
    /\ pc = "spawned" /\ pc' = "waiting"
    /\ childPid' = TRUE
    /\ UNCHANGED <<caught, guest, result, outside>>

Reaped(results) ==
    /\ pc = "waiting" /\ child = "zombie"
    /\ pc' = "reaped" /\ child' = "gone"
    /\ result' \in results
    /\ UNCHANGED <<caught, childPid, heeds, end, queued, outside>>

\* A mutant: a guest without an exit code counts as a success.
ReapAsSuccess == Reaped({1, IF end = BySignal THEN 0 ELSE end})

\* wait returns when the guest has ended, with its status or with an error;
\* a guest that a signal ended has no exit code, which makes it 1.
Reap == Reaped({1, IF end = BySignal THEN 1 ELSE end})

ExitMain ==
    /\ pc = "reaped" /\ pc' = "over"
    /\ UNCHANGED <<caught, childPid, guest, result, outside>>

(***************************************************************************)
(* Signals                                                                 *)
(***************************************************************************)

\* A mutant: CHILD_PID is never positive.
ForwardSignalToNobody(direct) ==
    /\ queued' = queued + direct
    /\ UNCHANGED <<pc, result>>

\* The handler; direct counts what the guest got from the terminal itself.
ForwardSignal(direct) ==
    /\ queued' = queued + direct
                 + IF childPid /\ child \in {"running", "zombie"} THEN 1 ELSE 0
    /\ UNCHANGED <<pc, result>>

\* What install_signal_handlers catches.
Caught == {"INT", "TERM", "HUP", "QUIT", "PIPE"}

\* lroot is sent a signal, alone or with the guest.
Signal ==
    /\ pc # "over" /\ sent < MaxSignals
    /\ sent' = sent + 1
    /\ \E s \in Fatal, direct \in IF child = "running" THEN {0, 1} ELSE {0} :
          /\ IF caught /\ s \in Caught THEN ForwardSignal(direct)
             ELSE /\ queued' = queued + direct
                  /\ result' = BySignal /\ pc' = "over"
          /\ told' = (told \/ (pc = "waiting" /\ s \in Caught))
          /\ felled' = (s \notin Caught)
    /\ UNCHANGED <<caught, childPid, child, heeds, end>>

(***************************************************************************)
(* The guest                                                               *)
(***************************************************************************)

TakeSignal ==
    /\ child = "running" /\ queued > 0
    /\ queued' = queued - 1
    /\ IF heeds THEN child' = "zombie" /\ end' = BySignal ELSE UNCHANGED <<child, end>>
    /\ UNCHANGED <<pc, caught, childPid, heeds, result, outside>>

\* The guest exits, or a signal of another's ends it.
GuestExits ==
    /\ child = "running"
    /\ child' = "zombie" /\ end' \in Codes \cup {BySignal}
    /\ UNCHANGED <<pc, caught, childPid, heeds, queued, result, outside>>

MainNext ==
    \/ InstallHandlers \/ GiveUp \/ Spawn \/ StoreChild \/ Reap \/ ExitMain
    \/ Signal \/ TakeSignal \/ GuestExits

\* lroot runs on and the kernel delivers what is sent; a guest may run for
\* ever.
MainSpec ==
    /\ MainInit /\ [][MainNext]_mainVars
    /\ WF_mainVars(InstallHandlers \/ Spawn \/ StoreChild \/ Reap \/ ExitMain)
    /\ WF_mainVars(TakeSignal)

(***************************************************************************)
(* Properties                                                              *)
(***************************************************************************)

\* lroot does not end before its guest, whichever of the five signals it
\* catches it is sent, at any point and in any number, and however the guest
\* ends.  One that it does not catch (SIGKILL, SIGUSR1, SIGALRM ...) does leave
\* the guest behind: the death signal is set on lroot, not on the guest
\* (main.rs:286-303, 447-468).
NotOutlived == pc = "over" => child \in {"none", "gone"} \/ felled

\* A success is the guest's own: neither a signal nor a failure of lroot's
\* is reported as one (main.rs:453-468).
FailureNeverHidden == pc = "over" /\ result = 0 => end = 0

\* A signal that lroot catches while it waits ends a guest that heeds it, even
\* if lroot itself is ended right after by one it does not catch, and otherwise
\* lroot too.  Of signals sent between spawn and the store of CHILD_PID this is
\* not so (main.rs:275-282, 302, 450-461).
StopsWhenTold == told /\ heeds ~> (pc = "over" /\ child # "running")
=============================================================================
