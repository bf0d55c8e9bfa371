----------------------------- MODULE ProcFiles -----------------------------
(***************************************************************************)
(* The files of /proc in which the library hides the rootfs: self/maps,    *)
(* self/cmdline, self/mountinfo and self/mounts.  What the kernel says is   *)
(* read to its end and rewritten by one scanner per file.                  *)
(***************************************************************************)
EXTENDS PathTranslation

CONSTANTS
    Blanks,   \* the separators of fields and lines: blank, tab, newline
    Fields    \* how many fields precede the path in a line of maps, 5

ASSUME ProcAssumption ==
    /\ Blanks \subseteq Fragment \ {Slash}
    /\ Fields \in Nat

\* A mutant of Shown: nothing is put in the place of the rootfs itself.
ShownBare(p) == IF Rootfs = <<>> \/ ~Under(Rootfs, p) THEN p ELSE Drop(p, Len(Rootfs))

\* A path, as a line of maps or an argument of cmdline shows it.
Shown(p) ==
    IF Rootfs = <<>> \/ ~Under(Rootfs, p) THEN p
    ELSE IF p = Rootfs THEN <<Slash>> ELSE Drop(p, Len(Rootfs))

\* fake_proc_cmdline: each argument that is a path.
Cmdline(args) ==
    [k \in DOMAIN args |-> IF IsAbsolute(args[k]) THEN Shown(args[k]) ELSE args[k]]

BlankAt(s, i) == i \in DOMAIN s /\ s[i] \in Blanks

\* How many fields of a line end before position i.
FieldsBefore(line, i) ==
    Cardinality({j \in 1..i - 1 : ~BlankAt(line, j) /\ BlankAt(line, j + 1)})

\* A field begins at i.
FieldStart(line, i) == i = 1 \/ BlankAt(line, i - 1)

\* A mutant of PathStart: one field too few is skipped.
PathStartEarly(line) ==
    {i \in DOMAIN line : /\ line[i] = Slash /\ FieldStart(line, i)
                         /\ FieldsBefore(line, i) >= Fields - 1}

\* Where a path may begin in a line of maps: a slash at the start of a field
\* that is preceded by enough others.
PathStart(line) ==
    {i \in DOMAIN line : /\ line[i] = Slash /\ FieldStart(line, i)
                         /\ FieldsBefore(line, i) >= Fields}

\* fake_proc_maps, for one line: the path ends where a blank follows it.
MapsLine(line) ==
    IF PathStart(line) = {} THEN line
    ELSE LET i == CHOOSE i \in PathStart(line) : \A j \in PathStart(line) : i <= j
             e == CHOOSE e \in i..Len(line) : /\ e = Len(line) \/ BlankAt(line, e + 1)
                                              /\ \A j \in i..e : ~BlankAt(line, j)
         IN  SubSeq(line, 1, i - 1) \o Shown(SubSeq(line, i, e)) \o Drop(line, e)

\* A field ends before i.
FieldEnd(raw, i) == i > Len(raw) \/ BlankAt(raw, i)

\* Mutant of RootfsAt: the rootfs is found anywhere.
RootfsAnywhere(raw, i) == IsPrefix(Rootfs, Drop(raw, i - 1))

\* The field that starts at i is the rootfs or a path below it.
RootfsAt(raw, i) ==
    LET after == i + Len(Rootfs)
    IN  /\ FieldStart(raw, i) /\ IsPrefix(Rootfs, Drop(raw, i - 1))
        /\ FieldEnd(raw, after) \/ raw[after] = Slash

\* fake_proc_mountinfo, from each byte on: the rootfs is taken away.
MountinfoFrom(raw) ==
    LET from[i \in 1..Len(raw) + 1] ==
            IF i > Len(raw) THEN <<>>
            ELSE IF RootfsAt(raw, i)
            THEN (IF FieldEnd(raw, i + Len(Rootfs)) THEN <<Slash>> ELSE <<>>)
                     \o from[i + Len(Rootfs)]
            ELSE <<raw[i]>> \o from[i + 1]
    IN  from
Mountinfo(raw) == IF Rootfs = <<>> THEN raw ELSE MountinfoFrom(raw)[1]

(***************************************************************************)
(* What the made-up files promise                                          *)
(***************************************************************************)

Blankless(s) == \A i \in DOMAIN s : ~BlankAt(s, i)

\* Mountinfo shows each field on its own, and leaves the blanks alone.
ShowsEachField(raw) ==
    /\ Blankless(raw) => Mountinfo(raw) = Shown(raw)
    /\ \A i \in DOMAIN raw : BlankAt(raw, i) =>
          Mountinfo(raw) = Mountinfo(SubSeq(raw, 1, i - 1)) \o <<raw[i]>>
                               \o Mountinfo(Drop(raw, i))

\* What may precede the path in a line of maps, and what may follow it.
LineStart(fields) ==
    /\ FieldStart(fields, Len(fields) + 1)
    /\ FieldsBefore(fields, Len(fields) + 1) >= Fields
    /\ ~\E i \in DOMAIN fields : /\ fields[i] = Slash /\ FieldStart(fields, i)
                                /\ FieldsBefore(fields, i) >= Fields
LineEnd(rest) == FieldEnd(rest, 1)

\* In a line of maps the fields before the path stay, and so does what
\* follows the path's first field.
ShowsOnlyThePath(fields, p, rest) ==
    LineStart(fields) /\ LineEnd(rest) /\ Blankless(p) /\ IsAbsolute(p) =>
        MapsLine(fields \o p \o rest) = fields \o Shown(p) \o rest

\* What a file of /proc shows of a path under the rootfs leads back to it by
\* the hooks: unless a bind or a directory of the host's has that name, or
\* there is no room.
ShownLeadsBack(p) ==
    (/\ Under(Rootfs, p)
     /\ ~PassesThrough(Shown(p)) /\ FirstBind(Shown(p)) = 0
     /\ Len(Image(Shown(p))) < BufLen)
        => Translate(Shown(p)).path = (IF p = Rootfs THEN p \o <<Slash>> ELSE p)

\* readlink and the files of /proc show a path alike, except one beside the
\* rootfs whose name begins with the rootfs's.
ReadersAgree(fields, p) ==
    LineStart(fields) /\ IsAbsolute(p) /\ Blankless(p) /\ (IsPrefix(Rootfs, p) => Under(Rootfs, p)) =>
        Cardinality({StripRootfs(p), Cmdline(<<p>>)[1], Mountinfo(p),
                     Drop(MapsLine(fields \o p), Len(fields))}) = 1
=============================================================================
