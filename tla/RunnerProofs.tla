---------------------------- MODULE RunnerProofs ----------------------------
(***************************************************************************)
(* Theorems about the two sides of the runner: of Sessions, for any set of *)
(* ptys, any number of ids and any shells, obedient or not; and, at the    *)
(* end, of Launcher, for any exit codes of a guest and any number of       *)
(* signals, at any point of main.                                          *)
(***************************************************************************)
EXTENDS Sessions, Launcher, TLAPS

TypeOK ==
    /\ app \in {"new", "started", "restarting", "dropping", "dropped", "exited"}
    /\ running \in BOOLEAN /\ nextId \in Nat
    /\ sessions \in [DOMAIN sessions -> Pty]
    /\ waiting \in Pty \cup {None}
    /\ fds \in SUBSET Pty /\ dups \in SUBSET Pty
    /\ shell \in [Pty -> {"none", "running", "zombie", "reaped"}]
    /\ obeys \in SUBSET Pty /\ termed \in SUBSET Pty
    /\ inherited \in [Pty -> SUBSET Pty]

\* No id of a session is given again.
Ids == DOMAIN sessions \subseteq {i \in Nat : i < nextId}

\* A pty is of one session, or of the one that is being closed.
Distinct ==
    /\ \A i, j \in DOMAIN sessions : sessions[i] = sessions[j] => i = j
    /\ waiting \notin Range(sessions)
    /\ waiting # None => app \in {"started", "restarting", "dropping"}

Children == app # "exited" => \A p \in Managed : shell[p] \in {"running", "zombie"}

IInv == TypeOK /\ Ids /\ Distinct /\ Children /\ MastersAccounted

(***************************************************************************)
(* The map of sessions                                                     *)
(***************************************************************************)

\* What create_session adds to the map.
LEMMA Added ==
    ASSUME TypeOK, Ids, NEW p \in Pty,
           sessions' = [i \in DOMAIN sessions \cup {nextId} |->
                            IF i = nextId THEN p ELSE sessions[i]]
    PROVE  /\ sessions' \in [DOMAIN sessions' -> Pty]
           /\ DOMAIN sessions' = DOMAIN sessions \cup {nextId}
           /\ nextId \notin DOMAIN sessions
           /\ sessions'[nextId] = p
           /\ \A i \in DOMAIN sessions : sessions'[i] = sessions[i]
           /\ Range(sessions') = Range(sessions) \cup {p}
<1>1. nextId \in Nat /\ nextId \notin DOMAIN sessions
    BY DEF TypeOK, Ids
<1>2. sessions \in [DOMAIN sessions -> Pty]
    BY DEF TypeOK
<1>3. DOMAIN sessions' = DOMAIN sessions \cup {nextId} /\ sessions'[nextId] = p
      /\ \A i \in DOMAIN sessions : sessions'[i] = sessions[i]
    BY <1>1
<1>4. sessions' \in [DOMAIN sessions' -> Pty]
    BY <1>2, <1>3
<1>5. Range(sessions') = Range(sessions) \cup {p}
    BY <1>3 DEF Range
<1>6. QED BY <1>1, <1>3, <1>4, <1>5

\* What close_session takes from it.
LEMMA Removed ==
    ASSUME TypeOK, Distinct, NEW i \in DOMAIN sessions,
           sessions' = Restrict(sessions, DOMAIN sessions \ {i})
    PROVE  /\ sessions' \in [DOMAIN sessions' -> Pty]
           /\ DOMAIN sessions' = DOMAIN sessions \ {i}
           /\ \A j \in DOMAIN sessions' : sessions'[j] = sessions[j]
           /\ sessions[i] \in Pty /\ sessions[i] # None
           /\ sessions[i] \notin Range(sessions')
           /\ Range(sessions) = Range(sessions') \cup {sessions[i]}
<1>1. sessions \in [DOMAIN sessions -> Pty]
    BY DEF TypeOK
<1>2. DOMAIN sessions' = DOMAIN sessions \ {i}
      /\ \A j \in DOMAIN sessions' : sessions'[j] = sessions[j]
    BY DEF Restrict
<1>3. sessions' \in [DOMAIN sessions' -> Pty]
    BY <1>1, <1>2 DEF Restrict
<1>4. sessions[i] \in Pty /\ sessions[i] # None
    BY <1>1, SessionsAssumption
<1>5. sessions[i] \notin Range(sessions')
    BY <1>2 DEF Distinct, Range
<1>6. Range(sessions) = Range(sessions') \cup {sessions[i]}
    BY <1>2 DEF Range
<1>7. QED BY <1>2, <1>3, <1>4, <1>5, <1>6

\* The ptys of the sessions are ptys.
LEMMA ManagedTyped ==
    ASSUME TypeOK
    PROVE  Managed \subseteq Pty /\ Range(sessions) \subseteq Pty
BY DEF TypeOK, Managed, Range

(***************************************************************************)
(* The library                                                             *)
(***************************************************************************)

\* Of the steps that leave the sessions alone and exit nothing.
LEMMA NothingManaged ==
    ASSUME IInv, TypeOK', app # "exited", app' # "exited",
           UNCHANGED <<nextId, sessions, waiting, fds, shell>>,
           waiting # None => app' \in {"started", "restarting", "dropping"}
    PROVE  IInv'
BY DEF IInv, Ids, Distinct, Children, MastersAccounted, Managed

LEMMA StartInv ==
    ASSUME IInv, Start
    PROVE  IInv'
<1>1. TypeOK'
    BY DEF IInv, TypeOK, Start, mgr, procs
<1>2. QED BY <1>1, NothingManaged DEF Start, mgr, procs

LEMMA CreateFailsInv ==
    ASSUME IInv, CreateFails
    PROVE  IInv'
<1> USE DEF IInv
<1>1. nextId' = nextId + 1 /\ UNCHANGED <<app, running, sessions, waiting, fds, dups, procs>>
    BY DEF CreateFails
<1>2. nextId \in Nat
    BY DEF TypeOK
<1>3. TypeOK'
    BY <1>1, <1>2 DEF TypeOK, procs
<1>4. Ids'
    BY <1>1, <1>2 DEF Ids
<1>5. Distinct' /\ Children' /\ MastersAccounted'
    BY <1>1 DEF Distinct, Children, MastersAccounted, Managed, procs
<1>6. QED BY <1>3, <1>4, <1>5

LEMMA CreateInv ==
    ASSUME IInv, Create
    PROVE  IInv'
<1> USE DEF IInv
<1>1. PICK p \in Pty : Forked(p, fds \cup dups)
    BY DEF Create
<1>2. app = "started" /\ waiting = None /\ shell[p] = "none"
    BY <1>1 DEF Forked, CanCreate
<1>3. sessions' = [i \in DOMAIN sessions \cup {nextId} |->
                       IF i = nextId THEN p ELSE sessions[i]]
    BY <1>1 DEF Forked
<1>4. nextId' = nextId + 1 /\ fds' = fds \cup {p}
      /\ shell' = [shell EXCEPT ![p] = "running"]
      /\ inherited' = [inherited EXCEPT ![p] = fds \cup dups]
      /\ UNCHANGED <<app, running, waiting, dups, obeys, termed>>
    BY <1>1 DEF Forked
<1>5. p \notin Managed /\ p \notin Range(sessions) /\ p # None
    BY <1>2, SessionsAssumption DEF Children, Managed
<1>6. /\ sessions' \in [DOMAIN sessions' -> Pty]
      /\ DOMAIN sessions' = DOMAIN sessions \cup {nextId}
      /\ nextId \notin DOMAIN sessions
      /\ sessions'[nextId] = p
      /\ \A i \in DOMAIN sessions : sessions'[i] = sessions[i]
      /\ Range(sessions') = Range(sessions) \cup {p}
    BY <1>3, Added
<1>7. TypeOK'
    BY <1>4, <1>6 DEF TypeOK
<1>8. Ids'
    BY <1>4, <1>6 DEF Ids, TypeOK
<1>9. Distinct'
    <2>1. \A i \in DOMAIN sessions : sessions[i] # p
        BY <1>5 DEF Range
    <2>2. \A i, j \in DOMAIN sessions' : sessions'[i] = sessions'[j] => i = j
        BY <1>6, <2>1 DEF Distinct
    <2>3. QED BY <1>2, <1>4, <1>5, <1>6, <2>2, SessionsAssumption DEF Distinct
<1>10. Managed' = Managed \cup {p}
    BY <1>4, <1>6 DEF Managed
<1>11. Children'
    BY <1>4, <1>10, ManagedTyped DEF Children, TypeOK
<1>12. MastersAccounted'
    BY <1>2, <1>4, <1>10 DEF MastersAccounted
<1>13. QED BY <1>7, <1>8, <1>9, <1>11, <1>12

LEMMA FdInv ==
    ASSUME IInv, GetFd \/ CloseFd
    PROVE  IInv'
<1> USE DEF IInv
<1>1. UNCHANGED <<app, running, mgr, fds, procs>>
    BY DEF GetFd, CloseFd
<1>2. dups' \in SUBSET Pty
    BY ManagedTyped DEF GetFd, CloseFd, TypeOK
<1>3. TypeOK'
    BY <1>1, <1>2 DEF TypeOK, mgr, procs
<1>4. Ids' /\ Distinct' /\ Children' /\ MastersAccounted'
    BY <1>1 DEF Ids, Distinct, Children, MastersAccounted, Managed, mgr, procs
<1>5. QED BY <1>3, <1>4

LEMMA BeginCloseInv ==
    ASSUME IInv, BeginClose
    PROVE  IInv'
<1> USE DEF IInv
<1>1. waiting = None /\ app \in {"started", "restarting", "dropping"}
    BY DEF BeginClose
<1>2. PICK i \in DOMAIN sessions :
         /\ waiting' = sessions[i]
         /\ sessions' = Restrict(sessions, DOMAIN sessions \ {i})
         /\ termed' = termed \cup {sessions[i]}
    BY DEF BeginClose
<1>3. UNCHANGED <<app, running, nextId, fds, dups, shell, obeys, inherited>>
    BY DEF BeginClose
<1>4. /\ sessions' \in [DOMAIN sessions' -> Pty]
      /\ DOMAIN sessions' = DOMAIN sessions \ {i}
      /\ \A j \in DOMAIN sessions' : sessions'[j] = sessions[j]
      /\ sessions[i] \in Pty /\ sessions[i] # None
      /\ sessions[i] \notin Range(sessions')
      /\ Range(sessions) = Range(sessions') \cup {sessions[i]}
    BY <1>2, Removed
<1>5. TypeOK'
    BY <1>2, <1>3, <1>4 DEF TypeOK
<1>6. Ids'
    BY <1>3, <1>4 DEF Ids
<1>7. Distinct'
    BY <1>1, <1>2, <1>3, <1>4 DEF Distinct
<1>8. Managed' = Managed
    BY <1>1, <1>2, <1>4 DEF Managed
<1>9. Children' /\ MastersAccounted'
    BY <1>3, <1>8 DEF Children, MastersAccounted
<1>10. QED BY <1>5, <1>6, <1>7, <1>9

LEMMA FinishCloseInv ==
    ASSUME IInv, FinishClose
    PROVE  IInv'
<1> USE DEF IInv
<1>1. waiting # None /\ waiting \in Pty /\ waiting' = None
      /\ shell' = [shell EXCEPT ![waiting] = "reaped"] /\ fds' = fds \ {waiting}
      /\ UNCHANGED <<app, running, nextId, sessions, dups, obeys, termed, inherited>>
    BY DEF FinishClose, TypeOK
<1>2. app \in {"started", "restarting", "dropping"} /\ waiting \notin Range(sessions)
    BY <1>1 DEF Distinct
<1>3. TypeOK'
    BY <1>1 DEF TypeOK
<1>4. Ids'
    BY <1>1 DEF Ids
<1>5. Distinct'
    BY <1>1, <1>2, ManagedTyped, SessionsAssumption DEF Distinct
<1>6. Managed' = Managed \ {waiting}
    BY <1>1, <1>2, ManagedTyped, SessionsAssumption DEF Managed
<1>7. Children'
    BY <1>1, <1>6, ManagedTyped DEF Children, TypeOK
<1>8. MastersAccounted'
    BY <1>1, <1>2, <1>6 DEF MastersAccounted
<1>9. QED BY <1>3, <1>4, <1>5, <1>7, <1>8

LEMMA DropAppInv ==
    ASSUME IInv, DropApp
    PROVE  IInv'
<1>1. TypeOK'
    BY DEF IInv, TypeOK, DropApp, mgr, procs
<1>2. QED BY <1>1, NothingManaged DEF DropApp, mgr, procs

LEMMA DropEndsInv ==
    ASSUME IInv, DropEnds
    PROVE  IInv'
<1> USE DEF IInv
<1>1. waiting = None /\ sessions = << >> /\ nextId' = 1
      /\ app \in {"restarting", "dropping"} /\ app' \in {"started", "dropped"}
      /\ UNCHANGED <<running, sessions, waiting, fds, dups, procs>>
    BY DEF DropEnds
<1>2. DOMAIN sessions = {}
    BY <1>1
<1>3. TypeOK'
    BY <1>1 DEF TypeOK, procs
<1>4. Ids'
    BY <1>1, <1>2 DEF Ids
<1>5. Distinct' /\ Children' /\ MastersAccounted'
    BY <1>1 DEF Distinct, Children, MastersAccounted, Managed, procs
<1>6. QED BY <1>3, <1>4, <1>5

LEMMA ShutdownInv ==
    ASSUME IInv, Shutdown
    PROVE  IInv'
<1>1. TypeOK'
    BY DEF IInv, TypeOK, Shutdown, mgr, procs
<1>2. QED BY <1>1, NothingManaged DEF IInv, Distinct, Shutdown, mgr, procs

\* Exiting closes every descriptor and leaves the shells.
LEMMA ExitInv ==
    ASSUME IInv, Exit
    PROVE  IInv'
<1> USE DEF IInv
<1>1. waiting = None /\ app' = "exited" /\ fds' = {} /\ dups' = {}
      /\ UNCHANGED <<running, mgr, procs>>
    BY DEF Exit
<1>2. TypeOK'
    BY <1>1 DEF TypeOK, mgr, procs
<1>3. Ids' /\ Distinct' /\ Children' /\ MastersAccounted'
    BY <1>1 DEF Ids, Distinct, Children, MastersAccounted, mgr
<1>4. QED BY <1>2, <1>3

(***************************************************************************)
(* The shells                                                              *)
(***************************************************************************)

\* A shell that ends is still there to be waited for.
LEMMA EndsInv ==
    ASSUME IInv, NEW p \in Pty, Ends(p)
    PROVE  IInv'
<1> USE DEF IInv
<1>1. shell' = [shell EXCEPT ![p] = "zombie"]
      /\ UNCHANGED <<app, running, mgr, fds, dups, obeys, termed, inherited>>
    BY DEF Ends
<1>2. TypeOK'
    BY <1>1 DEF TypeOK, mgr
<1>3. Ids' /\ Distinct' /\ MastersAccounted'
    BY <1>1 DEF Ids, Distinct, MastersAccounted, Managed, mgr
<1>4. Managed' = Managed
    BY <1>1 DEF Managed, mgr
<1>5. Children'
    BY <1>1, <1>4, ManagedTyped DEF Children, TypeOK
<1>6. QED BY <1>2, <1>3, <1>5

(***************************************************************************)
(* What follows                                                            *)
(***************************************************************************)

LEMMA InitInv == Init => IInv
<1> SUFFICES ASSUME Init PROVE IInv
    OBVIOUS
<1>1. sessions = << >> /\ DOMAIN sessions = {} /\ Range(sessions) = {}
    BY DEF Init, Range
<1>2. TypeOK
    BY <1>1 DEF Init, TypeOK
<1>3. Ids /\ Distinct
    BY <1>1 DEF Init, Ids, Distinct
<1>4. Managed = {}
    BY <1>1 DEF Init, Managed
<1>5. Children /\ MastersAccounted
    BY <1>4 DEF Init, Children, MastersAccounted
<1>6. QED BY <1>2, <1>3, <1>5 DEF IInv

LEMMA NextInv == IInv /\ [Next]_vars => IInv'
<1>1. ASSUME IInv, Next PROVE IInv'
    <2>1. CASE ShellExits \/ \E p \in Pty : Terminated(p) \/ HungUp(p)
        BY <1>1, <2>1, EndsInv DEF ShellExits, Terminated, HungUp
    <2>2. QED
        BY <1>1, <2>1, StartInv, CreateInv, CreateFailsInv, FdInv, BeginCloseInv,
           FinishCloseInv, DropAppInv, DropEndsInv, ShutdownInv, ExitInv DEF Next
<1>2. ASSUME IInv, UNCHANGED vars PROVE IInv'
    BY <1>2 DEF IInv, TypeOK, Ids, Distinct, Children, MastersAccounted, Managed,
                vars, mgr, procs
<1>3. QED BY <1>1, <1>2

\* In every reachable state each pty is of one session at most, each session
\* has a child that is the process's to wait for, and the masters that are
\* open are those of the sessions.
THEOREM SessionsInvariant == Spec => []IInv
BY InitInv, NextInv, PTL DEF Spec

\* close_session, and Drop through it, signals and waits for its own child
\* alone (pty.rs:167-175): the session leaves the map before the shell is
\* reaped, so that nothing comes back to a pid that is free again.
THEOREM SessionsSignalTheirOwn == Spec => []OwnChildOnly
<1>1. IInv => OwnChildOnly
    BY DEF IInv, Distinct, Children, OwnChildOnly
<1>2. QED BY <1>1, SessionsInvariant, PTL

\* No master is lost or closed too early, whichever call fails, whenever the
\* Manager is dropped or replaced (pty.rs:88-95, 119-127, 167-175).
THEOREM SessionsKeepMasters == Spec => []MastersAccounted
<1>1. IInv => MastersAccounted
    BY DEF IInv
<1>2. QED BY <1>1, SessionsInvariant, PTL

(***************************************************************************)
(* Launcher                                                                *)
(***************************************************************************)

Phases  == {"start", "setup", "spawned", "waiting", "reaped", "over"}
Endings == Codes \cup {Pending, BySignal}

LauncherTyped ==
    /\ pc \in Phases /\ caught \in BOOLEAN /\ childPid \in BOOLEAN
    /\ child \in {"none", "running", "zombie", "gone"} /\ heeds \in BOOLEAN
    /\ end \in Endings /\ queued \in Nat
    /\ result \in Endings \cup {1}
    /\ sent \in Nat /\ told \in BOOLEAN /\ felled \in BOOLEAN

\* Where main is says what there is of a guest; from the handlers on, no
\* signal moves main.
Stages ==
    /\ pc \in {"start", "setup"} => child = "none"
    /\ pc \in {"spawned", "waiting"} => child \in {"running", "zombie"}
    /\ pc = "reaped" => child = "gone"
    /\ pc = "over" => child \in {"none", "gone"} \/ felled
    /\ felled => pc = "over" /\ result = BySignal
    /\ caught \/ pc \in {"start", "over"}
    /\ childPid => pc \in {"waiting", "reaped", "over"}

\* The result of lroot and the end of its guest, once there are any.
Results ==
    /\ end = Pending <=> child \in {"none", "running"}
    /\ pc \in {"start", "setup", "spawned", "waiting"} => result = Pending
    /\ pc \in {"reaped", "over"} => result \in {1, BySignal, end}
    /\ result = 0 => child = "gone" /\ end = 0

LauncherInv == LauncherTyped /\ Stages /\ Results

\* No exit code is one of the two marks that stand for the absence of one.
LEMMA CodesApart ==
    /\ \A c \in Codes : c \in Nat /\ c # Pending /\ c # BySignal
    /\ Pending \in Nat /\ BySignal \in Nat
    /\ Pending # BySignal /\ Pending # 1 /\ BySignal # 1
    /\ Pending # 0 /\ BySignal # 0
BY LauncherAssumption DEF Pending, BySignal

LEMMA LauncherInit ==
    ASSUME MainInit
    PROVE  LauncherInv
<1>1. LauncherTyped
    BY CodesApart DEF MainInit, LauncherTyped, Phases, Endings
<1>2. Stages
    BY DEF MainInit, Stages
<1>3. Results
    BY CodesApart DEF MainInit, Results
<1>4. QED BY <1>1, <1>2, <1>3 DEF LauncherInv

LEMMA LauncherNext ==
    ASSUME LauncherInv, [MainNext]_mainVars
    PROVE  LauncherInv'
<1> USE CodesApart DEF LauncherInv, LauncherTyped, Stages, Results, Phases, Endings,
                       guest, outside
<1>1. CASE InstallHandlers
    BY <1>1 DEF InstallHandlers
<1>2. CASE GiveUp
    BY <1>2 DEF GiveUp
<1>3. CASE Spawn
    BY <1>3 DEF Spawn
<1>4. CASE StoreChild
    BY <1>4 DEF StoreChild
<1>5. CASE Reap
    BY <1>5 DEF Reap, Reaped
<1>6. CASE ExitMain
    BY <1>6 DEF ExitMain
<1>7. CASE Signal
    <2>1. PICK s \in Fatal, direct \in {0, 1} :
             /\ IF caught /\ s \in Caught THEN ForwardSignal(direct)
                ELSE queued' = queued + direct /\ result' = BySignal /\ pc' = "over"
             /\ told' \in BOOLEAN /\ felled' = (s \notin Caught)
        BY <1>7 DEF Signal
    <2>2. UNCHANGED <<caught, childPid, child, heeds, end>>
          /\ sent' = sent + 1 /\ pc # "over"
        BY <1>7 DEF Signal
    <2>3. CASE caught /\ s \in Caught
        <3>1. queued' \in Nat /\ pc' = pc /\ result' = result
            BY <2>1, <2>3 DEF ForwardSignal
        <3>2. felled' = FALSE
            BY <2>1, <2>3
        <3>3. QED BY <2>1, <2>2, <3>1, <3>2
    <2>4. CASE ~(caught /\ s \in Caught)
        <3>1. queued' \in Nat /\ pc' = "over" /\ result' = BySignal
            BY <2>1, <2>4
        <3>2. caught => felled'
            BY <2>1, <2>4
        <3>3. QED BY <2>1, <2>2, <3>1, <3>2
    <2>5. QED BY <2>3, <2>4
<1>8. CASE TakeSignal
    BY <1>8 DEF TakeSignal
<1>9. CASE GuestExits
    BY <1>9 DEF GuestExits
<1>10. CASE UNCHANGED mainVars
    BY <1>10 DEF mainVars
<1>11. QED
    BY <1>1, <1>2, <1>3, <1>4, <1>5, <1>6, <1>7, <1>8, <1>9, <1>10 DEF MainNext

\* Every state of lroot is one the inductive invariant describes.
THEOREM LauncherInvariant == MainSpec => []LauncherInv
<1>1. MainInit => LauncherInv
    BY LauncherInit
<1>2. LauncherInv /\ [MainNext]_mainVars => LauncherInv'
    BY LauncherNext
<1>3. QED BY <1>1, <1>2, PTL DEF MainSpec

\* lroot is never over while its guest is there, however many signals it is
\* sent and whenever they are, unless one that it does not catch ended it
\* (main.rs:286-303, 458-468).  That the others end it only before the handlers
\* are installed, when there is no guest yet, carries the proof.
THEOREM LauncherOutlives == MainSpec => []NotOutlived
<1>1. LauncherInv => NotOutlived
    BY DEF LauncherInv, Stages, NotOutlived
<1>2. QED BY <1>1, LauncherInvariant, PTL

\* lroot reports success only of a guest that reported it (main.rs:453-468).
THEOREM LauncherReports == MainSpec => []FailureNeverHidden
<1>1. LauncherInv => FailureNeverHidden
    BY DEF LauncherInv, Results, FailureNeverHidden
<1>2. QED BY <1>1, LauncherInvariant, PTL
=============================================================================
