------------------------------ MODULE RootView ------------------------------
(***************************************************************************)
(* What lroot promises a guest program: every call acts, in one step, on   *)
(* the objects the guest means by its paths "in a different root"          *)
(* (README.md:3-5).  A guest path is absolute or starts in a directory of  *)
(* the guest's; the host path behind it is the rootfs followed by it,      *)
(* except in a bound directory and in /proc, /sys and /dev.  Paths are     *)
(* compared component by component.                                        *)
(***************************************************************************)
EXTENDS HostKernel

CONSTANTS
    Calls,      \* the calls the guest may make
    FakeFiles,  \* the files of /proc whose contents lroot makes up
    InitFS,     \* the file system at the start
    InitCwd     \* the host path of the working directory at the start

VARIABLES
    fs,     \* the host's file system
    cwd,    \* the directory the guest works in, by its host path
    dir,    \* the directory behind the guest's descriptor, or <<>>
    last    \* the last call and what it returned

view == <<fs, cwd, dir, last>>

NoCall == [hook |-> "none", op |-> "none", args |-> <<>>, at |-> "cwd"]

(***************************************************************************)
(* Guest paths                                                             *)
(***************************************************************************)

\* getcwd is not hooked and answers with a host path, so a path inside the
\* rootfs stands for the guest path below it.
GuestName(p) ==
    IF Rootfs # <<>> /\ Under(Rootfs, p)
    THEN IF p = Rootfs THEN <<Slash>> ELSE Drop(p, Len(Rootfs))
    ELSE p

\* The host path behind an absolute guest path.
HostOf(g) ==
    IF FirstBind(g) = 0 /\ \E d \in HostDirs : Under(d, g)
    THEN g
    ELSE Clean(Image(g))

\* The host path behind an absolute path the guest writes.
HostBehind(p) == HostOf(GuestName(Clean(p)))

\* The guest path of a directory the guest got into.
GuestOf(h) ==
    IF \E i \in 1..Len(Binds) : Under(Binds[i].src, h)
    THEN LET b == Binds[CHOOSE i \in 1..Len(Binds) : Under(Binds[i].src, h)]
         IN  b.dst \o Drop(h, Len(b.src))
    ELSE GuestName(h)

\* The host path the guest means by p, relative paths starting in d.
Meant(d, p) ==
    CASE p = <<>>      -> p
      [] IsAbsolute(p) -> HostBehind(p)
      [] OTHER         -> HostOf(Resolve(GuestOf(d), p))

(***************************************************************************)
(* The guest's calls                                                       *)
(***************************************************************************)

Init ==
    /\ fs = InitFS
    /\ cwd = InitCwd
    /\ dir = <<>>
    /\ last = [call |-> NoCall, ret |-> Result("none")]

\* Opening a file of /proc that lroot makes up never reaches the host's.
OpenFake(c) ==
    /\ c.op \in {"open", "create"}
    /\ c.args[1] \in FakeFiles
    /\ last' = [call |-> c, ret |-> Result("fake")]
    /\ UNCHANGED <<fs, cwd, dir>>

\* The target of a link reads back as a guest path.
Act(c) ==
    /\ ~(c.op \in {"open", "create"} /\ c.args[1] \in FakeFiles)
    /\ c.at = "fd" => dir # <<>>
    /\ LET base == IF c.at = "fd" THEN dir ELSE cwd
           w    == [i \in DOMAIN c.args |-> Meant(base, c.args[i])]
           ans  == Perform(c.op, fs, c.args, w, HostBehind)
       IN  /\ fs'   = ans.fs
           /\ cwd'  = IF c.op = "chdir" /\ ans.ret.kind = "ok" THEN ans.dir ELSE cwd
           /\ dir'  = IF c.op = "opendir" /\ ans.ret.kind = "ok" THEN ans.dir ELSE dir
           /\ last' = [call |-> c,
                       ret  |-> IF c.op = "readlink" /\ ans.ret.kind = "link"
                                THEN Link(GuestName(ans.ret.text))
                                ELSE ans.ret]

Next == \E c \in Calls : OpenFake(c) \/ Act(c)

Spec == Init /\ [][Next]_view
=============================================================================
