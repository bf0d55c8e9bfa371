------------------------------ MODULE Sessions ------------------------------
(***************************************************************************)
(* The terminal sessions of the library (App, pty::Manager): a session is  *)
(* the master side of a pty and a shell on its slave side.                 *)
(*                                                                         *)
(* openpty and dup do not mark their descriptors close-on-exec, so a shell *)
(* keeps every master that was open when it was forked.  The pty is not    *)
(* its controlling terminal; a shell ends when it reads the end of its     *)
(* input, which it does (it is hung up) once the last copy of its own      *)
(* master is closed.  close_session sends SIGTERM and waits for the shell  *)
(* before it lets go of the master, and an interactive shell may ignore    *)
(* SIGTERM.                                                                *)
(***************************************************************************)
EXTENDS Naturals, Functions

CONSTANTS
    Pty,    \* the ptys there are, each for one session and its shell
    None,   \* no pty
    MaxId   \* bound: the last id a Manager gives

ASSUME SessionsAssumption == None \notin Pty /\ MaxId \in Nat

VARIABLES
    app,       \* "new", "started", "restarting" or "dropping" (a Manager is
               \* being dropped), "dropped", or "exited" (the process)
    running,   \* App::running
    nextId,    \* Manager::next_id
    sessions,  \* Manager::sessions, from ids to ptys
    waiting,   \* the pty of the session close_session waits for, or None
    fds,       \* the masters that are open in the process for a session
    dups,      \* the masters that a client holds from get_session_fd
    shell,     \* shell[p]: "none", "running", "zombie" or "reaped"
    obeys,     \* the shells that do not ignore SIGTERM
    termed,    \* the shells that were sent SIGTERM
    inherited  \* inherited[p]: the masters the shell of p was forked with

mgr   == <<nextId, sessions, waiting>>
procs == <<shell, obeys, termed, inherited>>
vars  == <<app, running, mgr, fds, dups, procs>>

Alive == {p \in Pty : shell[p] = "running"}

\* Some process has the master of p open.
Held(p) == p \in fds \/ p \in dups \/ \E s \in Alive : p \in inherited[s]

Init ==
    /\ app = "new" /\ running = TRUE
    /\ nextId = 1 /\ sessions = << >> /\ waiting = None
    /\ fds = {} /\ dups = {}
    /\ shell = [p \in Pty |-> "none"]
    /\ obeys \in SUBSET Pty /\ termed = {}
    /\ inherited = [p \in Pty |-> {}]

(***************************************************************************)
(* The library                                                             *)
(***************************************************************************)

\* App::start.  Assigning the new Manager drops the one before it.
Start ==
    /\ app \in {"new", "started"} /\ waiting = None
    /\ app' = IF app = "new" THEN "started" ELSE "restarting"
    /\ UNCHANGED <<running, mgr, fds, dups, procs>>

\* create_session is called: the id is taken before anything can fail.
CanCreate(p) ==
    /\ app = "started" /\ waiting = None
    /\ nextId <= MaxId
    /\ shell[p] = "none" /\ ~Held(p)

\* A mutant: the master stays open when fork fails.
CreateFailsOpen ==
    \E p \in Pty :
        /\ CanCreate(p)
        /\ nextId' = nextId + 1
        /\ fds' = fds \cup {p}
        /\ UNCHANGED <<app, running, sessions, waiting, dups, procs>>

\* openpty or fork fails; what was opened is closed again.
CreateFails ==
    /\ \E p \in Pty : CanCreate(p)
    /\ nextId' = nextId + 1
    /\ UNCHANGED <<app, running, sessions, waiting, fds, dups, procs>>

Forked(p, masters) ==
    /\ CanCreate(p)
    /\ nextId' = nextId + 1
    /\ sessions' = [i \in DOMAIN sessions \cup {nextId} |->
                        IF i = nextId THEN p ELSE sessions[i]]
    /\ fds' = fds \cup {p}
    /\ shell' = [shell EXCEPT ![p] = "running"]
    /\ inherited' = [inherited EXCEPT ![p] = masters]
    /\ UNCHANGED <<app, running, waiting, dups, obeys, termed>>

\* A mutant: the child does not close its own master.
CreateKeepingMaster == \E p \in Pty : Forked(p, fds \cup dups \cup {p})

\* The child closes its own master and no other.
Create == \E p \in Pty : Forked(p, fds \cup dups)

\* get_session_fd, and the client closing what it got.
GetFd ==
    /\ app = "started" /\ waiting = None
    /\ \E p \in Range(sessions) : dups' = dups \cup {p}
    /\ UNCHANGED <<app, running, mgr, fds, procs>>
CloseFd ==
    /\ \E p \in dups : dups' = dups \ {p}
    /\ UNCHANGED <<app, running, mgr, fds, procs>>

\* Mutants of BeginClose: the session stays in the map; no signal is sent.
BeginCloseKeeping ==
    /\ waiting = None /\ app \in {"started", "restarting", "dropping"}
    /\ \E i \in DOMAIN sessions :
          /\ waiting' = sessions[i]
          /\ termed' = termed \cup {sessions[i]}
    /\ UNCHANGED <<app, running, nextId, sessions, fds, dups, shell, obeys, inherited>>
BeginCloseQuietly ==
    /\ waiting = None /\ app \in {"started", "restarting", "dropping"}
    /\ \E i \in DOMAIN sessions :
          /\ waiting' = sessions[i]
          /\ sessions' = Restrict(sessions, DOMAIN sessions \ {i})
    /\ UNCHANGED <<app, running, nextId, fds, dups, procs>>

\* close_session, called by the owner of the Manager or by its Drop: the
\* session leaves the map and its shell is sent SIGTERM ...
BeginClose ==
    /\ waiting = None /\ app \in {"started", "restarting", "dropping"}
    /\ \E i \in DOMAIN sessions :
          /\ waiting' = sessions[i]
          /\ sessions' = Restrict(sessions, DOMAIN sessions \ {i})
          /\ termed' = termed \cup {sessions[i]}
    /\ UNCHANGED <<app, running, nextId, fds, dups, shell, obeys, inherited>>

\* ... waitpid returns, and dropping the Session closes the master.
FinishClose ==
    /\ waiting # None /\ shell[waiting] = "zombie"
    /\ shell' = [shell EXCEPT ![waiting] = "reaped"]
    /\ fds' = fds \ {waiting}
    /\ waiting' = None
    /\ UNCHANGED <<app, running, nextId, sessions, dups, obeys, termed, inherited>>

\* The owner drops the App, and with it the Manager.
DropApp ==
    /\ app = "started" /\ waiting = None
    /\ app' = "dropping"
    /\ UNCHANGED <<running, mgr, fds, dups, procs>>

\* Drop has closed every session; start goes on with the new Manager.
DropEnds ==
    /\ app \in {"restarting", "dropping"} /\ waiting = None
    /\ sessions = << >>
    /\ app' = IF app = "restarting" THEN "started" ELSE "dropped"
    /\ nextId' = 1
    /\ UNCHANGED <<running, sessions, waiting, fds, dups, procs>>

Shutdown ==
    /\ app \in {"new", "started"} /\ waiting = None
    /\ running' = FALSE
    /\ UNCHANGED <<app, mgr, fds, dups, procs>>

\* App::run exits the process without dropping the App.
Exit ==
    /\ app \in {"new", "started"} /\ waiting = None
    /\ ~running
    /\ app' = "exited"
    /\ fds' = {} /\ dups' = {}
    /\ UNCHANGED <<running, mgr, procs>>

(***************************************************************************)
(* The shells                                                              *)
(***************************************************************************)

Ends(p) ==
    /\ shell[p] = "running"
    /\ shell' = [shell EXCEPT ![p] = "zombie"]
    /\ UNCHANGED <<app, running, mgr, fds, dups, obeys, termed, inherited>>

ShellExits == \E p \in Pty : Ends(p)
Terminated(p) == p \in termed \cap obeys /\ Ends(p)
HungUp(p) == ~Held(p) /\ Ends(p)

Next ==
    \/ Start \/ Create \/ CreateFails \/ GetFd \/ CloseFd
    \/ BeginClose \/ FinishClose \/ DropApp \/ DropEnds \/ Shutdown \/ Exit
    \/ ShellExits \/ \E p \in Pty : Terminated(p) \/ HungUp(p)

\* The library's thread goes on once it can, and the kernel delivers its
\* signals; no client call, and no shell's own exit, is ever certain.
Spec ==
    /\ Init /\ [][Next]_vars
    /\ WF_vars(FinishClose)
    /\ \A p \in Pty : WF_vars(Terminated(p)) /\ WF_vars(HungUp(p))

(***************************************************************************)
(* Properties                                                              *)
(***************************************************************************)

Managed == Range(sessions) \cup ({waiting} \ {None})

\* close_session signals and waits for a child of the process's own that
\* nobody has reaped: its pid cannot have gone to another process
\* (pty.rs:170-171).
OwnChildOnly ==
    /\ \A i, j \in DOMAIN sessions : sessions[i] = sessions[j] => i = j
    /\ app # "exited" => \A p \in Managed : shell[p] \in {"running", "zombie"}

\* The process has exactly the masters of its sessions open, whatever fails
\* and whenever a session is closed (pty.rs:88-95, 119-127, 167-175).
MastersAccounted == fds = IF app = "exited" THEN {} ELSE Managed

\* Closing a session whose shell obeys SIGTERM comes to an end, also if the
\* shells of later sessions hold its terminal open.  A shell that ignores it, as
\* interactive shells do, and every shell is started with -i (pty.rs:79), keeps
\* close_session waiting: its master is closed only afterwards (pty.rs:168-171).
CloseReturns ==
    \A p \in Pty : waiting = p /\ p \in obeys ~> waiting # p

\* run exits without closing a session (lib.rs:42-49): the shells, which hold
\* one another's masters, are all hung up in the end.
NobodyLeftBehind == app = "exited" ~> Alive = {}
=============================================================================
