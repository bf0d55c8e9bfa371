------------------------------ MODULE MCHooks ------------------------------
(***************************************************************************)
(* Instances of Hooks.  The rootfs is /r; the host has a file /f, a        *)
(* directory /d and a directory /h of its own, and /h is bound to /b where *)
(* there are binds.                                                        *)
(***************************************************************************)
EXTENDS Hooks

R(p) == <<"/", "r">> \o p
F    == <<"/", "f">>
D    == <<"/", "d">>
DF   == <<"/", "d", "/", "f">>
L    == <<"/", "l">>
LF   == <<"/", "l", "/", "d", "f">>
BF   == <<"/", "b", "/", "f">>
HF   == <<"/", "h", "/", "f">>
PS   == <<"/", "proc", "/", "s">>
PN   == <<"/", "proc", "/", "n">>

MCFragment == {"/", "r", "d", "f", "l", "b", "h", "proc", "s", "n"}
MCSlash    == "/"
MCRootfs   == TrimSlashes(<<"/", "r", "/">>)
MCHostDirs == {<<"/", "proc">>}
MCMapped   == {}
MCNoBinds  == <<>>
MCBinds    == << [src |-> <<"/", "h">>, dst |-> <<"/", "b">>] >>
MCFakes    == {PS}

MCNames == {<<"/", "r">>, R(D), R(F), R(DF), R(L), F, D, DF, L, <<"/", "h">>, HF, PS, PN}
MCInitFS ==
    [p \in MCNames |->
        CASE p \in {<<"/", "r">>, R(D), D, <<"/", "h">>} -> Dir
          [] p = R(F) -> File("guest")
          [] p = HF   -> File("bound")
          [] p \in {F, DF} -> File("host")
          [] p \in {PS, PN} -> File("proc")
          [] OTHER -> Absent]
MCFileId == {"guest", "bound", "host", "proc", "new"}
MCInitCwd == <<"/", "r">>

Call(h, o, a) == [hook |-> h, op |-> o, args |-> a, at |-> "cwd"]
CallAt(h, o, a) == [hook |-> h, op |-> o, args |-> a, at |-> "fd"]

\* Two threads that rename, look up and move about; LF is as long as the
\* buffer once it is translated.
RaceCalls == {
    Call("rename", "rename", <<F, DF>>),
    Call("rename", "rename", <<DF, <<"f">>>>),
    Call("stat", "lookup", <<LF>>),
    Call("stat", "lookup", <<<<"f">>>>),
    Call("chdir", "chdir", <<D>>)}

\* A handler that looks only at host directories and relative paths.
QuietCalls == {
    Call("open", "open", <<PN>>),
    Call("stat", "lookup", <<<<"f">>>>)}
LoudCalls == {Call("stat", "lookup", <<D>>)}
NoCalls == {}

\* One of every way a hook treats its paths: relative and absolute, through
\* a descriptor, through a link, into /proc and a bound directory and back
\* in host form.
AllKindsCalls == {
    Call("open", "create", <<DF>>),
    Call("open", "open", <<PS>>),
    Call("openat", "open", <<PN>>),
    CallAt("openat", "open", <<<<"f">>>>),
    CallAt("mkdirat", "mkdir", <<F>>),
    Call("stat", "lookup", <<L>>),
    Call("stat", "lookup", <<BF>>),
    Call("lstat", "nofollow", <<L>>),
    Call("unlink", "remove", <<F>>),
    CallAt("unlinkat", "remove", <<<<"f">>>>),
    Call("link", "link", <<F, DF>>),
    Call("rename", "rename", <<BF, F>>),
    CallAt("renameat", "rename", <<<<"f">>, L>>),
    Call("symlink", "symlink", <<<<"f">>, L>>),
    Call("symlink", "symlink", <<R(DF), <<"l">>>>),
    Call("readlink", "readlink", <<L>>),
    CallAt("readlinkat", "readlink", <<<<"l">>>>),
    Call("chdir", "chdir", <<<<"/">>>>),
    Call("chdir", "chdir", <<D>>),
    Call("opendir", "opendir", <<D>>)}

\* What a handler may come between.
RenameCalls == {Call("rename", "rename", <<F, DF>>)}
=============================================================================
