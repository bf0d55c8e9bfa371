------------------------------- MODULE Config -------------------------------
(***************************************************************************)
(* The configuration of the library in one program: three once-cells, each *)
(* filled from the environment by the first hook that needs it.  Threads,  *)
(* signal handlers that interrupt a thread inside a hook, changes of the   *)
(* environment, fork and execve come between its steps.                    *)
(***************************************************************************)
EXTENDS Naturals, FiniteSets, SequencesExt

CONSTANTS
    Threads,    \* the threads a program may have
    Values,     \* what a variable of the environment may hold, or Unset
    Unset,
    Needs,      \* the cells a hook reads, in order, for each kind of hook
    MaxNested,  \* bound: how many calls of hooks a thread is in at once
    MaxEvents   \* bound: how often a signal is caught in a hook, the
                \* environment is changed, a thread forks and a program is
                \* executed, in all

Cells == UNION {ToSet(n) : n \in Needs}

ASSUME ConfigAssumption ==
    /\ Unset \in Values /\ MaxNested \in Nat \ {0} /\ MaxEvents \in Nat
    /\ \A n \in Needs : n \in Seq(STRING)

VARIABLES
    env,     \* env[c]: the variable that cell c is filled from
    cell,    \* cell[c]: "empty", "running" (being filled, by a thread) or
             \* "full", and its value
    frames,  \* frames[t]: the calls of hooks thread t is in, the innermost
             \* last: the cells it has yet to read, how far it is with the
             \* first of them, and what it has read
    alive,   \* the threads there are
    events,
    early,   \* history: the cells whose variable was changed after the
             \* program began and before they were full
    first,   \* history: the environment the program began with
    seen     \* history: what the program's hooks have read, as <<cell, value>>

vars == <<env, cell, frames, alive, events, early, first, seen>>

Empty == [state |-> "empty", by |-> {}, value |-> Unset]

Top(t) == frames[t][Len(frames[t])]
In(t, step) == t \in alive /\ frames[t] # <<>> /\ Top(t).step = step
Wants(t) == Head(Top(t).needs)
Becomes(t, f) == frames' = [frames EXCEPT ![t][Len(frames[t])] = f]

(***************************************************************************)
(* A hook                                                                  *)
(***************************************************************************)

\* The program calls a hook; or a signal handler does so, at any point of
\* another call of its thread.
Call(t) ==
    /\ t \in alive /\ Len(frames[t]) < MaxNested
    /\ IF frames[t] = <<>> THEN UNCHANGED events ELSE events < MaxEvents /\ events' = events + 1
    /\ \E n \in Needs :
          frames' = [frames EXCEPT ![t] = Append(@, [needs |-> n, step |-> "get", read |-> Unset])]
    /\ UNCHANGED <<env, cell, alive, early, first, seen>>

\* get_or_init of a cell that is full.
Get(t) ==
    /\ In(t, "get") /\ Top(t).needs # <<>>
    /\ cell[Wants(t)].state = "full"
    /\ seen' = seen \cup {<<Wants(t), cell[Wants(t)].value>>}
    /\ Becomes(t, [Top(t) EXCEPT !.needs = Tail(@)])
    /\ UNCHANGED <<env, cell, alive, events, early, first>>

\* get_or_init of an empty cell.  While a cell is being filled every other
\* call that wants it waits.
Begin(t) ==
    /\ In(t, "get") /\ Top(t).needs # <<>>
    /\ cell[Wants(t)].state = "empty"
    /\ cell' = [cell EXCEPT ![Wants(t)] = [state |-> "running", by |-> {t}, value |-> Unset]]
    /\ Becomes(t, [Top(t) EXCEPT !.step = "init"])
    /\ UNCHANGED <<env, alive, events, early, first, seen>>

\* getenv
Read(t) ==
    /\ In(t, "init")
    /\ Becomes(t, [Top(t) EXCEPT !.step = "fill", !.read = env[Wants(t)]])
    /\ UNCHANGED <<env, cell, alive, events, early, first, seen>>

\* Mutants of Fill: those who wait are not let go; an unset variable leaves
\* the cell empty, to be tried again.
FillQuietly(t) ==
    /\ In(t, "fill")
    /\ cell' = [cell EXCEPT ![Wants(t)].value = Top(t).read]
    /\ seen' = seen \cup {<<Wants(t), Top(t).read>>}
    /\ Becomes(t, [Top(t) EXCEPT !.step = "get", !.needs = Tail(@)])
    /\ UNCHANGED <<env, alive, events, early, first>>
FillIfSet(t) ==
    /\ In(t, "fill")
    /\ cell' = [cell EXCEPT ![Wants(t)] =
                   IF Top(t).read = Unset THEN Empty
                   ELSE [state |-> "full", by |-> {}, value |-> Top(t).read]]
    /\ seen' = seen \cup {<<Wants(t), Top(t).read>>}
    /\ Becomes(t, [Top(t) EXCEPT !.step = "get", !.needs = Tail(@)])
    /\ UNCHANGED <<env, alive, events, early, first>>

Fill(t) ==
    /\ In(t, "fill")
    /\ cell' = [cell EXCEPT ![Wants(t)] = [state |-> "full", by |-> {}, value |-> Top(t).read]]
    /\ seen' = seen \cup {<<Wants(t), Top(t).read>>}
    /\ Becomes(t, [Top(t) EXCEPT !.step = "get", !.needs = Tail(@)])
    /\ UNCHANGED <<env, alive, events, early, first>>

\* A path that needs no translation leaves translate before it comes to the
\* binds; a call that has read what it needs returns.
Return(t) ==
    /\ In(t, "get") /\ Top(t).needs \in {<<>>, <<"BINDS">>}
    /\ frames' = [frames EXCEPT ![t] = SubSeq(@, 1, Len(@) - 1)]
    /\ UNCHANGED <<env, cell, alive, events, early, first, seen>>

Step(t) == Get(t) \/ Begin(t) \/ Read(t) \/ Fill(t) \/ Return(t)

(***************************************************************************)
(* The program                                                             *)
(***************************************************************************)

Event(t) == t \in alive /\ frames[t] = <<>> /\ events < MaxEvents /\ events' = events + 1

\* setenv, unsetenv, clearenv
Setenv(t) ==
    /\ Event(t)
    /\ \E c \in Cells, v \in Values :
          /\ env' = [env EXCEPT ![c] = v]
          /\ early' = IF cell[c].state = "full" THEN early ELSE early \cup {c}
    /\ UNCHANGED <<cell, frames, alive, first, seen>>

\* In the child there is the thread that forked, with the cells as they are.
Fork(t) ==
    /\ Event(t)
    /\ alive' = {t}
    /\ frames' = [u \in Threads |-> <<>>]
    /\ UNCHANGED <<env, cell, early, first, seen>>

\* A new program with the environment as it is.
Exec(t) ==
    /\ Event(t)
    /\ cell' = [c \in Cells |-> Empty]
    /\ alive' = Threads
    /\ frames' = [u \in Threads |-> <<>>]
    /\ early' = {} /\ first' = env /\ seen' = {}
    /\ UNCHANGED env

Init ==
    /\ env \in [Cells -> Values]
    /\ cell = [c \in Cells |-> Empty]
    /\ frames = [t \in Threads |-> <<>>]
    /\ alive = Threads /\ events = 0 /\ early = {} /\ first = env /\ seen = {}

Next == \E t \in Threads : Call(t) \/ Step(t) \/ Setenv(t) \/ Fork(t) \/ Exec(t)

\* Every thread runs: a call that can go on does.
Spec == Init /\ [][Next]_vars /\ \A t \in Threads : WF_vars(Step(t))

(***************************************************************************)
(* Properties                                                              *)
(***************************************************************************)

\* Thread t fills cell c in a call that another of its own has interrupted.
Interrupted(t, c) ==
    \E k \in 1..Len(frames[t]) - 1 :
        frames[t][k].step \in {"init", "fill"} /\ Head(frames[t][k].needs) = c

\* The call waits for a thread that is gone, or for one that a signal handler
\* keeps from going on, its own or another's, which waits in its turn.
Blocked(t) ==
    In(t, "get") /\ Top(t).needs # <<>> /\ cell[Wants(t)].state = "running"
Waits ==
    LET waits[n \in 0..Cardinality(Threads), t \in Threads] ==
            /\ Blocked(t)
            /\ LET by == cell[Wants(t)].by
               IN  \/ by \cap alive = {}
                   \/ \E u \in by : /\ Interrupted(u, Wants(t))
                                    /\ u = t \/ (n > 0 /\ waits[n - 1, u])
    IN  {t \in Threads : waits[Cardinality(Threads), t]}

\* Every call of a hook comes to an end, except one that waits for a thread
\* that fork has left behind in the parent, or for one that is held up by a
\* signal handler that waits itself (lib.rs:62-91, 105-120).
CallsEnd ==
    \A t \in Threads :
        (t \in alive /\ frames[t] # <<>>)
            ~> (t \notin alive \/ frames[t] = <<>> \/ t \in Waits)

\* A program has one configuration from its first hook to its last: the one
\* it began with, unless it changed that before it was needed; then, too, all
\* its hooks agree (lib.rs:50-53).
OneConfig ==
    \A s \in seen :
        /\ s[1] \notin early => s[2] = first[s[1]]
        /\ \A r \in seen : r[1] = s[1] => r[2] = s[2]
=============================================================================
