----------------------------- MODULE HostKernel -----------------------------
(***************************************************************************)
(* The file system calls of the host kernel, as far as the hooks use them: *)
(* code outside the repository, modelled from the system calls lib.rs      *)
(* issues.  A file system is a function from the host paths in Names to    *)
(* nodes.  Every parent directory of a path of Names exists, directories   *)
(* are neither renamed nor removed, and a chain of symbolic links is       *)
(* followed for one link (longer ones fail with ELOOP).                    *)
(***************************************************************************)
EXTENDS PathTranslation

CONSTANTS
    Names,   \* the host paths the file system may hold
    FileId,  \* the identities of files
    NewFile  \* the identity of a file the guest creates

ASSUME KernelAssumption == NewFile \in FileId

Absent  == [kind |-> "none"]
Dir     == [kind |-> "dir"]
File(i) == [kind |-> "file", id |-> i]
Link(t) == [kind |-> "link", text |-> t]

Node == {Absent, Dir} \cup [kind : {"file"}, id : FileId]
                      \cup [kind : {"link"}, text : Path]

\* A trailing slash names the directory before it.
Clean(p) == IF Len(p) > 1 /\ Last(p) = Slash THEN Front(p) ELSE p

\* The root, as Parent names it, is the empty path.
Join(d, p) == IF d # <<>> /\ Last(d) = Slash THEN d \o p ELSE d \o <<Slash>> \o p

\* The absolute path a system call means by p when it starts in directory d.
Resolve(d, p) ==
    IF p = <<>> THEN p
    ELSE Clean(IF IsAbsolute(p) THEN p ELSE Join(d, p))

\* The directory a path lies in: what precedes its last slash.
Parent(p) ==
    LET lastSlash == {i \in 1..Len(p) : /\ p[i] = Slash
                                       /\ \A j \in (i + 1)..Len(p) : p[j] # Slash}
    IN  IF lastSlash = {} THEN <<>> ELSE SubSeq(p, 1, (CHOOSE i \in lastSlash : TRUE) - 1)

At(fs, p) == IF p \in Names THEN fs[p] ELSE Absent

\* Where a path leads when its last component is a symbolic link.  Text maps
\* the text of an absolute link to the host path it stands for: itself, for
\* the kernel.
Follow(fs, p, Text(_)) ==
    IF At(fs, p).kind # "link" THEN p
    ELSE LET t == At(fs, p).text
         IN  Resolve(Parent(p), IF IsAbsolute(t) THEN Text(t) ELSE t)

\* What a call returns: a node, or a result without one.
Result(r) == [kind |-> r]

\* An answer: the file system after the call, what it returns, and the
\* directory it obtains for its caller (<<>> if none).
Answer(fs, ret) == [fs |-> fs, ret |-> ret, dir |-> <<>>]

(***************************************************************************)
(* The calls; w holds the host paths of their path arguments.              *)
(***************************************************************************)

\* open without O_CREAT, fstatat, faccessat, fchmodat, getxattr, ...
Lookup(fs, w, Text(_)) ==
    LET n == At(fs, Follow(fs, w[1], Text))
    IN  Answer(fs, IF n.kind = "link" THEN Result("ELOOP") ELSE n)

\* The same calls with AT_SYMLINK_NOFOLLOW, and the l* attribute calls.
LookupNoFollow(fs, w) == Answer(fs, Result(At(fs, w[1]).kind))

\* open with O_CREAT
Create(fs, w, Text(_)) ==
    LET p == Follow(fs, w[1], Text)
    IN  IF p \in Names /\ fs[p] = Absent
        THEN Answer([fs EXCEPT ![p] = File(NewFile)], File(NewFile))
        ELSE Lookup(fs, w, Text)

Mkdir(fs, w) ==
    CASE w[1] \notin Names     -> Answer(fs, Result("ENOENT"))
      [] At(fs, w[1]) # Absent -> Answer(fs, Result("EEXIST"))
      [] OTHER -> Answer([fs EXCEPT ![w[1]] = Dir], Result("ok"))

Unlink(fs, w) ==
    CASE At(fs, w[1]).kind = "none" -> Answer(fs, Result("ENOENT"))
      [] At(fs, w[1]).kind = "dir"  -> Answer(fs, Result("EISDIR"))
      [] OTHER -> Answer([fs EXCEPT ![w[1]] = Absent], Result("ok"))

\* Two names of one file are left alone, as POSIX asks.
Rename(fs, w) ==
    IF At(fs, w[1]).kind = "none" \/ w[2] \notin Names THEN Answer(fs, Result("ENOENT"))
    ELSE IF "dir" \in {At(fs, w[1]).kind, At(fs, w[2]).kind} THEN Answer(fs, Result("EISDIR"))
    ELSE IF At(fs, w[1]) = At(fs, w[2]) THEN Answer(fs, Result("ok"))
    ELSE Answer([fs EXCEPT ![w[1]] = Absent, ![w[2]] = fs[w[1]]], Result("ok"))

HardLink(fs, w) ==
    IF At(fs, w[1]).kind = "none" \/ w[2] \notin Names THEN Answer(fs, Result("ENOENT"))
    ELSE IF At(fs, w[2]).kind # "none" THEN Answer(fs, Result("EEXIST"))
    ELSE IF At(fs, w[1]).kind = "dir"  THEN Answer(fs, Result("EPERM"))
    ELSE Answer([fs EXCEPT ![w[2]] = fs[w[1]]], Result("ok"))

SymLink(fs, text, w) ==
    CASE w[2] \notin Names -> Answer(fs, Result("ENOENT"))
      [] At(fs, w[2]) # Absent -> Answer(fs, Result("EEXIST"))
      [] OTHER -> Answer([fs EXCEPT ![w[2]] = Link(text)], Result("ok"))

ReadLink(fs, w) ==
    CASE At(fs, w[1]).kind = "none" -> Answer(fs, Result("ENOENT"))
      [] At(fs, w[1]).kind = "link" -> Answer(fs, At(fs, w[1]))
      [] OTHER -> Answer(fs, Result("EINVAL"))

\* chdir, and open of a directory
OpenDir(fs, w, Text(_)) ==
    LET p == Follow(fs, w[1], Text)
    IN  IF At(fs, p) = Dir
        THEN [fs |-> fs, ret |-> Result("ok"), dir |-> p]
        ELSE Answer(fs, Result(IF At(fs, p) = Absent THEN "ENOENT" ELSE "ENOTDIR"))

KernelCalls == {"open", "lookup", "nofollow", "create", "mkdir", "remove",
                "rename", "link", "symlink", "readlink", "chdir", "opendir"}

Perform(sys, fs, raw, w, Text(_)) ==
    CASE sys \in {"open", "lookup"} -> Lookup(fs, w, Text)
      [] sys = "nofollow" -> LookupNoFollow(fs, w)
      [] sys = "create"   -> Create(fs, w, Text)
      [] sys = "mkdir"    -> Mkdir(fs, w)
      [] sys = "remove"   -> Unlink(fs, w)
      [] sys = "rename"   -> Rename(fs, w)
      [] sys = "link"     -> HardLink(fs, w)
      [] sys = "symlink"  -> SymLink(fs, raw[1], w)
      [] sys = "readlink" -> ReadLink(fs, w)
      [] sys \in {"chdir", "opendir"} -> OpenDir(fs, w, Text)
=============================================================================
