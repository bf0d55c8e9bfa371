-------------------------- MODULE PathTranslation --------------------------
(***************************************************************************)
(* The pure part of libintercept: how a path given to a hooked libc        *)
(* function is rewritten (translate, save_path), how the target of a       *)
(* symbolic link is rewritten on the way back (do_readlink), and the       *)
(* second translator the repository holds, the runner's PathTranslator.    *)
(*                                                                         *)
(* A path is a sequence of fragments.  A fragment stands for the bytes it  *)
(* is made of: Slash is one byte, "proc" or "x" is a run of bytes without  *)
(* a slash.  The code compares BYTE prefixes, so <<"/","proc","x">> (the   *)
(* path /procx) has <<"/","proc">> as a prefix, as it has in the code.     *)
(***************************************************************************)
EXTENDS Naturals, Sequences, FiniteSets, SequencesExt

CONSTANTS
    Fragment,   \* the fragments paths are made of
    Slash,      \* the separator
    Rootfs,     \* LITTLE_ROOTFS without its trailing slashes
    Binds,      \* LITTLE_BINDS, in order: records [src, dst]
    HostDirs,   \* the byte prefixes /proc, /sys and /dev
    Mapped,     \* the prefixes of the runner's own mapping table (/usr, /bin, ...)
    BufLen      \* the size of TL_BUF and of save_path's buffer (4096)

Path == Seq(Fragment)

ASSUME PathAssumption ==
    /\ Slash \in Fragment
    /\ Rootfs \in Path
    /\ Binds \in Seq([src : Path, dst : Path])
    /\ HostDirs \subseteq Path
    /\ Mapped \subseteq Path
    /\ BufLen \in Nat \ {0}

\* The mapped prefixes begin with a slash, and none of them lies in a
\* directory of the host's, nor a directory of the host's in it.
ASSUME MappedAssumption ==
    \A m \in Mapped :
        /\ m # <<>> /\ m[1] = Slash
        /\ \A d \in HostDirs : ~IsPrefix(d, m) /\ ~IsPrefix(m, d)

(***************************************************************************)
(* Paths                                                                   *)
(***************************************************************************)

IsAbsolute(p) == p # <<>> /\ p[1] = Slash

\* The bytes of p after its first n.
Drop(p, n) == SubSeq(p, n + 1, Len(p))

\* p is d or lies below it: the prefix ends where a component of p ends.
Under(d, p) ==
    /\ IsPrefix(d, p)
    /\ Len(p) > Len(d) => p[Len(d) + 1] = Slash

\* What rootfs_bytes makes of the environment variable.
TrimSlashes(s) ==
    LET keep == {i \in 1..Len(s) : \E j \in i..Len(s) : s[j] # Slash}
    IN  SubSeq(s, 1, Cardinality(keep))

(***************************************************************************)
(* translate                                                               *)
(***************************************************************************)

\* A mutant of PassesThrough: the check for the rootfs prefix is forgotten.
PassesHostDirsOnly(p) == \E d \in HostDirs : IsPrefix(d, p)

\* The paths translate returns as they are.  An empty Rootfs is a prefix of
\* every path, so a process without LITTLE_ROOTFS translates nothing.
PassesThrough(p) ==
    \/ IsPrefix(Rootfs, p)
    \/ \E d \in HostDirs : IsPrefix(d, p)

\* The binds are tried in order and the first match wins; 0 when none does.
FirstBind(p) ==
    LET first == {i \in 1..Len(Binds) :
                     /\ Under(Binds[i].dst, p)
                     /\ \A j \in 1..(i - 1) : ~Under(Binds[j].dst, p)}
    IN  IF first = {} THEN 0 ELSE CHOOSE i \in first : TRUE

\* A mutant of Image: what follows the bind's destination is not copied.
ImageWithoutSuffix(p) ==
    LET b == FirstBind(p)
    IN  IF b # 0 THEN Binds[b].src ELSE Rootfs \o p

\* The text translate wants to write into TL_BUF.
Image(p) ==
    LET b == FirstBind(p)
    IN  IF b # 0 THEN Binds[b].src \o Drop(p, Len(Binds[b].dst))
                 ELSE Rootfs \o p

\* Mutants of Translate: no room is left for the NUL; the binds are not
\* looked at.
TranslateOffByOne(p) ==
    IF IsAbsolute(p) /\ ~PassesThrough(p) /\ Len(Image(p)) <= BufLen
    THEN [place |-> "tlbuf",  path |-> Image(p)]
    ELSE [place |-> "caller", path |-> p]
TranslateWithoutBinds(p) ==
    IF IsAbsolute(p) /\ ~PassesThrough(p) /\ Len(Rootfs \o p) < BufLen
    THEN [place |-> "tlbuf",  path |-> Rootfs \o p]
    ELSE [place |-> "caller", path |-> p]

\* A pointer: into the caller's memory or into the thread's TL_BUF, and the
\* text it points to.  A text that does not fit is not written: the caller's
\* own pointer comes back and the call goes to the untranslated path.
Translate(p) ==
    IF /\ IsAbsolute(p)
       /\ ~PassesThrough(p)
       /\ Len(Image(p)) < BufLen
    THEN [place |-> "tlbuf",  path |-> Image(p)]
    ELSE [place |-> "caller", path |-> p]

\* A mutant of SavePath: the result of translate is handed on, not copied.
SavePathInPlace(p) == Translate(p)

\* save_path: copy what translate returned unless it does not fit.
SavePath(p) ==
    LET t == Translate(p)
    IN  IF Len(t.path) < BufLen THEN [place |-> "saved", path |-> t.path] ELSE t

(***************************************************************************)
(* do_readlink                                                             *)
(***************************************************************************)

\* A mutant of StripRootfs: the slash after the rootfs goes with it.
StripRootfsAndSlash(text) ==
    IF Rootfs # <<>> /\ IsPrefix(Rootfs, text)
    THEN IF text = Rootfs THEN <<Slash>> ELSE Drop(text, Len(Rootfs) + 1)
    ELSE text

\* The link target the guest is given for the target text the kernel holds.
StripRootfs(text) ==
    IF Rootfs # <<>> /\ IsPrefix(Rootfs, text)
    THEN IF text = Rootfs THEN <<Slash>> ELSE Drop(text, Len(Rootfs))
    ELSE text

(***************************************************************************)
(* PathTranslator, the translator of the runner's library                  *)
(***************************************************************************)

\* A mutant of TableTranslate: the rest of the path is lost.
TableTranslateTop(p) ==
    IF \E m \in Mapped : Under(m, p)
    THEN Rootfs \o (CHOOSE m \in Mapped : Under(m, p))
    ELSE p

\* The mapped prefixes are different single components, so at most one of
\* them matches and the order of the hash map does not matter.
TableTranslate(p) ==
    IF \/ \E d \in HostDirs : IsPrefix(d \o <<Slash>>, p)
       \/ IsPrefix(Rootfs, p)
       \/ ~\E m \in Mapped : Under(m, p)
    THEN p
    ELSE LET m == CHOOSE m \in Mapped : Under(m, p)
         IN  Rootfs \o m \o Drop(p, Len(m))

(***************************************************************************)
(* What translation promises                                               *)
(***************************************************************************)

\* Binds that lead to paths that are themselves never rewritten, as binds of
\* host directories and of directories of the rootfs do, or that are never
\* reached because what is below their destination is never rewritten.
BindsSettled ==
    \A i \in 1..Len(Binds) : PassesThrough(Binds[i].src) \/ PassesThrough(Binds[i].dst)

\* Translating twice is translating once: the path a hook produces, handed
\* to another hook (execvp calls execve with a translated path), stays put.
Idempotent(p) == Translate(Translate(p).path).path = Translate(p).path

\* Rewriting on the way out undoes rewriting on the way in, except for what
\* a bind sent elsewhere: do_readlink does not look at the binds.
RoundTrip(p) ==
    (Translate(p).place = "tlbuf" /\ FirstBind(p) = 0)
        => StripRootfs(Translate(p).path) = p

\* On the way from p to what q names below it, another place begins: the
\* rootfs, a directory of the host's or the destination of a bind.
Mounts == {Rootfs} \cup HostDirs \cup {Binds[i].dst : i \in 1..Len(Binds)}
Crosses(p, q) == \E m \in Mounts : Len(m) > Len(p) /\ IsPrefix(m, p \o q)

\* A name below a directory is translated to that name below the
\* directory's translation, as long as it fits the buffer.
Descends(p, q) ==
    (/\ IsAbsolute(p) /\ IsAbsolute(q) /\ ~Crosses(p, q)
     /\ Len(Image(p \o q)) < BufLen)
        => Translate(p \o q).path = Translate(p).path \o q

\* What save_path returns never points into TL_BUF, not even in its
\* fallback, so that no later translate can change it.
SavedIsPrivate(p) == SavePath(p).place # "tlbuf"

\* The runner's table, which knows no binds, and the hooks agree on every
\* path of the table that no bind sends elsewhere.
TableAgrees(p) ==
    (/\ \E m \in Mapped : Under(m, p)
     /\ FirstBind(p) = 0
     /\ Len(Image(p)) < BufLen)
        => TableTranslate(p) = Translate(p).path
=============================================================================
