------------------------------ MODULE MCTracer ------------------------------
(* A static program of the guest that calls each kind of system call once   *)
(* or twice, under up to two signals.                                        *)
EXTENDS Tracer

MCFragment == {"/", "r", "p", "a", "l", "n", "x"}
MCRootfs   == <<"/", "r">>
MCHostDirs == {<<"/", "p">>}
MCNoBinds  == << >>
MCFdDir    == <<"/", "r", "/", "a">>

Call(sys, args, where) == [sys |-> sys, args |-> args, at |-> where]

MCFirstCall == Call("execve", << <<"/", "r", "/", "x">> >>, "cwd")

PathsOnce ==
    { Call("openat", << <<"/", "a">> >>, "cwd"), Call("openat", << <<"a">> >>, "fd"),
      Call("unlinkat", << <<"a">> >>, "cwd"), Call("newfstatat", << <<"/", "p">> >>, "cwd"),
      Call("chdir", << <<"/">> >>, "cwd"),
      Call("symlinkat", << <<"/", "a">>, <<"/", "l">> >>, "cwd"),
      Call("getpid", << >>, "cwd") }

PathsTwice ==
    { Call("renameat2", << <<"/", "a">>, <<"/", "x">> >>, "cwd"),
      Call("linkat", << <<"a">>, <<"/", "l">> >>, "cwd"),
      Call("renameat", << <<"/", "a">>, <<"/", "p">> >>, "cwd"),
      Call("linkat", << <<"/", "a">>, <<"/", "x", "l">> >>, "cwd") }

Execs ==
    { Call("execve", << <<"/", "x">> >>, "cwd"), Call("execve", << <<"/", "n">> >>, "cwd"),
      Call("execveat", << <<"x">> >>, "fd") }

MCCalls   == PathsOnce \cup PathsTwice \cup Execs
MCStatics == { <<"/", "x">> }
=============================================================================
