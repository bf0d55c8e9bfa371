-------------------------------- MODULE Exec --------------------------------
(***************************************************************************)
(* How programs are started: the first one by lroot itself, the others by  *)
(* the hooks of execve, execvp and execveat in the program before.         *)
(*                                                                         *)
(* A hook follows links, looks at the file it has come to, and tries one   *)
(* way of starting it after another: under ptrace, with the rootfs's       *)
(* dynamic loader, by the plain system call.  Between these steps other    *)
(* processes may change the file system.                                   *)
(***************************************************************************)
EXTENDS HostKernel

CONSTANTS
    Programs,    \* Programs[i]: what the file i holds, if it can be started
    Commands,    \* the commands lroot may be given
    ExecCalls,   \* the calls a program may make
    InitFS,      \* the host's file system
    Cwd,         \* the directory lroot and its guest work in
    SearchDirs,  \* the directories of PATH as lroot sets it
    Libraries,   \* the variants of the library that are installed
    Generic,     \* the variant libintercept.so was built as, <<>> without one
    Turns,       \* how many links are followed, 16
    KernelTurns, \* how many links the kernel follows, 40
    Relinks,     \* what other processes do: records [at, node]
    MaxRelinks   \* bound: how often they do

Program == [kind   : {"elf", "script"},
            native : BOOLEAN,        \* the kernel can start it: it is for the host's
                                     \* machine, or for the 32-bit one of its kind
            class  : {32, 64},
            interp : Path,           \* PT_INTERP, or what follows #!
            setuid : BOOLEAN,
            xbit   : BOOLEAN,        \* it may be executed
            multi  : Path]           \* its own name if it asks for the name
                                     \* it is called by, as busybox does

NoFile == "no file"
MaybeFile == FileId \cup {NoFile}

ASSUME ExecAssumption ==
    /\ Programs \in [DOMAIN Programs -> Program]
    /\ DOMAIN Programs \subseteq FileId /\ NoFile \notin FileId
    /\ InitFS \in [Names -> Node] /\ <<>> \notin Names
    /\ Cwd \in Path /\ SearchDirs \in Seq(Path)
    /\ Turns \in Nat /\ KernelTurns \in Nat /\ MaxRelinks \in Nat
    /\ \A r \in Relinks : r.at \in Names /\ r.node \in Node
    /\ \A c \in Commands \cup ExecCalls : c.path \in Path /\ c.argv \in Seq(Path) \ {<<>>}
    /\ \A c \in Commands : c.argv[1] = c.path
    /\ \A c \in ExecCalls : c.fn \in {"execve", "execvp", "execveat"}

VARIABLES
    fs,       \* the host's file system
    image,    \* the program that runs
    pc,       \* "idle" and "launch" (lroot), "run" (the program), the next step
              \* of a hook ("search", "links", "probe", "decide", "ptrace",
              \* "loader", "kernel") or "over"
    call,     \* the call under way
    ptr,      \* tpath: where it points and the text there
    turn,     \* the links followed
    argv,     \* the argument vector as it stands
    info,     \* the ELF file read_elf_info has read, or NoFile
    forkless, \* fork has failed in this call
    out,      \* what came of the call: "none" yet, "started", "failed" (it has
              \* returned) or "gone" (its process has ended)
    from,     \* history: the environment of the program that made it
    began,    \* history: the file system there was when it began
    changes,  \* history: how often another process changed a name in it
    relinks   \* how often another process has done so

frame   == <<ptr, turn, argv, info>>
history == <<from, began, changes>>
vars == <<fs, image, pc, call, frame, forkless, out, history, relinks>>

Spoilt  == <<>>
NoPtr   == [place |-> "caller", path |-> <<>>]
NoCall  == [fn |-> "none", path |-> <<>>, argv |-> <<>>, env |-> {}, null |-> FALSE]
NoImage == [file |-> NoFile, loader |-> NoFile, argv |-> <<>>, env |-> {},
            lib |-> <<>>, via |-> "none", exe |-> <<>>]

(***************************************************************************)
(* The kernel                                                              *)
(***************************************************************************)

\* translate, and a path as the kernel sees it from a directory.
Translated == [p \in Path |-> Translate(p)]
Resolved   == [d \in Path |-> [p \in Path |-> Resolve(d, p)]]

\* What a link is replaced by; in the guest's view its text is a guest path.
Hop(f, guest) ==
    [p \in Path |->
        LET n == At(f, p)
        IN  IF n.kind # "link" THEN p
            ELSE Resolved[Parent(p)][IF guest /\ IsAbsolute(n.text)
                                     THEN Translated[n.text].path ELSE n.text]]

\* The host paths a walk from p passes through.
Walk(f, p, guest) ==
    LET at[n \in 0..KernelTurns] == IF n = 0 THEN p ELSE Hop(f, guest)[at[n - 1]]
    IN  at

\* The file a path leads to.
FileOf == [n \in Node |-> IF n.kind = "file" THEN n.id ELSE NoFile]
NodeAt(f) == [p \in Path |-> At(f, p)]
FileAt(f, p, guest) ==
    FileOf[NodeAt(f)[Walk(f, Resolved[Cwd][p], guest)[KernelTurns]]]

ElfFile(i) == i \in DOMAIN Programs /\ Programs[i].kind = "elf"
Startable(i) == ElfFile(i) /\ Programs[i].native /\ Programs[i].xbit

\* A program started by execve: the file that runs, the loader in front of it
\* and the arguments the program finds.
Refused == [file |-> NoFile, loader |-> NoFile, argv |-> <<>>]
StartElf(f, args) ==
    [i \in MaybeFile |->
        IF ~Startable(i) THEN Refused
        ELSE IF Programs[i].interp = <<>> THEN [file |-> i, loader |-> NoFile, argv |-> args]
        ELSE IF Startable(FileAt(f, Programs[i].interp, FALSE))
             THEN [file |-> i, loader |-> FileAt(f, Programs[i].interp, FALSE), argv |-> args]
             ELSE Refused]
StartFile(f, p, args) ==
    [i \in MaybeFile |->
        IF i \in DOMAIN Programs /\ Programs[i].kind = "script"
        THEN IF Programs[i].xbit
             THEN StartElf(f, <<Programs[i].interp, p>> \o Tail(args))
                      [FileAt(f, Programs[i].interp, FALSE)]
             ELSE Refused
        ELSE StartElf(f, args)[i]]
Start(f, p, args) == StartFile(f, p, args)[FileAt(f, p, FALSE)]

\* A dynamic loader that is run with a program as its first argument: it
\* opens the program by its path and gives it that path for a name.
RunLoader(f, l, p, rest) ==
    LET i == FileAt(f, p, FALSE)
    IN  IF ElfFile(i) /\ Programs[i].native
        THEN [file |-> i, loader |-> l, argv |-> <<p>> \o rest]
        ELSE Refused

(***************************************************************************)
(* The library in a program                                                *)
(***************************************************************************)

\* variant_name: the class of the ELF file and the kind of its C library.
Variant(i) == << Programs[i].class,
                 IF \E k \in DOMAIN Programs[i].interp : Programs[i].interp[k] = "musl"
                 THEN "musl" ELSE "glibc" >>
DefaultVariant == <<64, "glibc">>

Fits(lib, i) == lib = Variant(i)

\* machine == host_arch(): a program is for the machine that the library in
\* the caller was built for.  On a 64-bit host this is no 32-bit one, although
\* the kernel starts those, too; in a 32-bit program, no 64-bit one.
OfHostArch(i) == Programs[i].native /\ Programs[i].class = image.lib[1]

\* The dynamic loader preloads the library: not into a static program, nor
\* one that runs with another user's rights, nor into one of another class
\* or C library.
Hooked(im) ==
    /\ im.file # NoFile /\ im.via # "ptrace"
    /\ Programs[im.file].interp # <<>>
    /\ Programs[im.file].setuid => im.via = "loader"
    /\ "LD_PRELOAD" \in im.env
    /\ Fits(im.lib, im.file)

\* rootfs_bytes is empty in a program without LITTLE_ROOTFS.
Rooted == "LITTLE_ROOTFS" \in image.env
TranslateIn(p) == IF Rooted THEN Translated[p] ELSE [place |-> "caller", path |-> p]

\* The environment a call passes on; a NULL one is none at all, but counts
\* as having LD_PRELOAD.
NullEnv(c)    == c.null \/ c.fn = "execvp"
PassedEnv(c)  == IF NullEnv(c) THEN {} ELSE c.env
HasPreload(c) == NullEnv(c) \/ "LD_PRELOAD" \in c.env

\* The headers of the file a path leads to on the host, if it is an ELF one.
ReadElfInfo(f, p) ==
    LET i == FileAt(f, p, FALSE) IN IF ElfFile(i) THEN i ELSE NoFile

(***************************************************************************)
(* Outcomes                                                                *)
(***************************************************************************)

\* The frame of the hook is gone with its locals.
Leaves(result) ==
    /\ out' = result
    /\ ptr' = NoPtr /\ turn' = 0 /\ argv' = <<>> /\ info' = NoFile

\* The call has replaced the program by s, as start says.
Becomes(s, via) ==
    /\ image' = [file |-> s.file, loader |-> s.loader, argv |-> s.argv,
                 env |-> PassedEnv(call), lib |-> image.lib, via |-> via,
                 exe |-> ptr.path]
    /\ pc' = "run"
    /\ Leaves("started")

\* The call returns -1.
Fails ==
    /\ pc' = "run"
    /\ Leaves("failed")
    /\ UNCHANGED image

\* The process has come to its end instead of returning from the call.
Ends ==
    /\ pc' = "over"
    /\ image' = NoImage
    /\ Leaves("gone")

(***************************************************************************)
(* lroot                                                                   *)
(***************************************************************************)

\* A name without a slash is looked for in the directories of PATH.
Bare(p) == \A k \in DOMAIN p : p[k] # Slash

\* The first of some of the directories of PATH, 0 if there are none.
FirstDir == [hits \in SUBSET DOMAIN SearchDirs |->
               IF hits = {} THEN 0 ELSE CHOOSE k \in hits : \A j \in hits : k <= j]

\* What follows the last slash of a path.
Base(p) == IF Bare(p) THEN p ELSE Drop(p, Len(Parent(p)) + 1)

\* resolve_rootfs: the links of the rootfs, followed by lroot itself.  With a
\* slash at its end a name is none of a link.
LaunchHop(f) ==
    [p \in Path |->
        LET n == NodeAt(f)[Resolved[Cwd][p]]
        IN  IF n.kind # "link" \/ Clean(p) # p THEN p
            ELSE IF IsAbsolute(n.text) THEN Rootfs \o n.text
            ELSE IF Bare(p)            THEN n.text
            ELSE Join(Parent(p), n.text)]
ResolveRootfs(f, p) ==
    LET at[n \in 0..Turns] == IF n = 0 THEN p ELSE LaunchHop(f)[at[n - 1]]
    IN  at[Turns]

Prog(c) == IF IsAbsolute(c.path) THEN Rootfs \o c.path ELSE c.path

\* elf_interp, which reads the same of a file as read_elf_info.
ElfInterp(f, p) == ReadElfInfo(f, p)

\* A mutant of Library: the variant is not chosen by the program.
LibraryDefault(i) == IF DefaultVariant \in Libraries THEN DefaultVariant ELSE Generic

\* variant_name and find_intercept: the library for the program, or the one
\* without a variant in its name.
Library(i) ==
    LET v == IF i = NoFile THEN DefaultVariant ELSE Variant(i)
    IN  IF v \in Libraries THEN v ELSE Generic

\* The rootfs's dynamic loader is run if the host lacks the program's.
LaunchLoader(f, i) ==
    IF /\ ElfFile(i)
       /\ Programs[i].interp # <<>>
       /\ FileAt(f, Programs[i].interp, FALSE) = NoFile
    THEN FileAt(f, Rootfs \o Programs[i].interp, FALSE)
    ELSE NoFile

\* The arguments after the loader and the program.
LaunchArgs(c) ==
    (IF ResolveRootfs(fs, Prog(c)) # Prog(c) THEN <<Base(Clean(Prog(c)))>> ELSE <<>>) \o Tail(c.argv)

\* Command::new(prog): the first directory of PATH where it can be started.
Spawned(f, p, args) ==
    IF ~Bare(p) THEN Start(f, p, args)
    ELSE [k \in Nat |-> IF k = 0 THEN Refused ELSE Start(f, Join(SearchDirs[k], p), args)]
             [FirstDir[{k \in DOMAIN SearchDirs :
                           Start(f, Join(SearchDirs[k], p), args) # Refused}]]

\* lroot is given its command.
Take ==
    /\ pc = "idle"
    /\ \E c \in Commands :
          call' = [fn |-> "lroot", path |-> c.path, argv |-> c.argv, null |-> FALSE,
                   env |-> {"LD_PRELOAD", "LITTLE_ROOTFS", "PATH"} \cup c.options]
    /\ pc' = "launch" /\ began' = fs /\ changes' = 0
    /\ UNCHANGED <<fs, image, frame, forkless, out, from, relinks>>

\* main: find the program and the library, start one with the other.
Launch ==
    /\ pc = "launch"
    /\ \E p \in {Prog(call)} : \E r \in {ResolveRootfs(fs, p)} : \E i \in {ElfInterp(fs, r)} :
       \E l \in {LaunchLoader(fs, i)} :
       \E s \in {IF l = NoFile        THEN Spawned(fs, p, <<p>> \o Tail(call.argv))
                 ELSE IF Startable(l) THEN RunLoader(fs, l, r, LaunchArgs(call))
                 ELSE Refused} :
          IF Library(i) = <<>> \/ s = Refused THEN Ends
          ELSE /\ image' = [file |-> s.file, loader |-> s.loader, argv |-> s.argv,
                            env |-> call.env, lib |-> Library(i),
                            via |-> IF l # NoFile THEN "loader" ELSE "kernel",
                            exe |-> IF l # NoFile THEN r ELSE p]
               /\ pc' = "run"
               /\ Leaves("started")
    /\ UNCHANGED <<fs, call, forkless, history, relinks>>

(***************************************************************************)
(* The hooks: entry                                                        *)
(***************************************************************************)

\* A program with the library in it makes a call.
Call ==
    /\ pc = "run" /\ Hooked(image)
    /\ \E c \in ExecCalls : call' = c
    /\ pc' = "search" /\ from' = image.env /\ began' = fs /\ changes' = 0
    /\ out' = "none" /\ forkless' = FALSE
    /\ turn' = 0 /\ argv' = call'.argv /\ info' = NoFile
    /\ ptr' = [place |-> "caller", path |-> call'.path]
    /\ UNCHANGED <<fs, image, relinks>>

\* execve on path p: the links are followed from its translation on.  In a
\* path that is in TL_BUF already, by execvp's translation, a second one
\* overwrites what it reads.
Enter(p) ==
    \E t \in {TranslateIn(p.path)} :
        /\ ptr' = IF p.place = "tlbuf" /\ t.place = "tlbuf" THEN [t EXCEPT !.path = Spoilt]
                  ELSE [place |-> t.place, path |-> t.path]
        /\ pc' = "links"
        /\ UNCHANGED <<image, turn, argv, info, out>>

\* execve, and execveat with an absolute path.
EnterExec ==
    /\ pc = "search"
    /\ call.fn = "execve" \/ (call.fn = "execveat" /\ IsAbsolute(call.path))
    /\ Enter(ptr)
    /\ UNCHANGED <<fs, call, forkless, history, relinks>>

\* execveat with any other path, and execvp without PATH: the call is passed
\* on as it is.
EnterRaw ==
    /\ pc = "search"
    /\ \/ call.fn = "execveat" /\ ~IsAbsolute(call.path)
       \/ call.fn = "execvp" /\ Bare(call.path) /\ "PATH" \notin image.env
    /\ pc' = "kernel"
    /\ UNCHANGED <<fs, image, call, frame, forkless, out, history, relinks>>

\* execvp of a path.
EnterPath ==
    /\ pc = "search" /\ call.fn = "execvp" /\ ~Bare(call.path)
    /\ Enter(TranslateIn(call.path))
    /\ UNCHANGED <<fs, call, forkless, history, relinks>>

\* faccessat of a candidate, on the host.
MayExecute(p) ==
    LET n == NodeAt(fs)[Walk(fs, Resolved[Cwd][p], FALSE)[KernelTurns]]
    IN  n.kind = "dir" \/ (n.kind = "file" /\ n.id \in DOMAIN Programs /\ Programs[n.id].xbit)

\* execvp of a name: the first candidate that may be executed.
EnterName ==
    /\ pc = "search" /\ call.fn = "execvp" /\ Bare(call.path) /\ "PATH" \in image.env
    /\ \E k \in {FirstDir[{j \in DOMAIN SearchDirs :
                             MayExecute(Join(SearchDirs[j], call.path))}]} :
          IF k = 0 THEN Fails
          ELSE Enter([place |-> "caller", path |-> Join(SearchDirs[k], call.path)])
    /\ UNCHANGED <<fs, call, forkless, history, relinks>>

(***************************************************************************)
(* The hooks: links                                                        *)
(***************************************************************************)

\* Another turn of the loop, or its end, takes the loop's buffer away: a text
\* in it may still be there when it is read again, or not.
LoseBuffer ==
    /\ pc = "links" /\ ptr.place = "buf"
    /\ \E text \in {ptr.path, Spoilt} : ptr' = [place |-> "lost", path |-> text]
    /\ UNCHANGED <<fs, image, pc, call, turn, argv, info, forkless, out, history, relinks>>

\* The link readlinkat finds; relative ones are left to the kernel.
Linked ==
    LET n == NodeAt(fs)[Resolved[Cwd][ptr.path]] IN n.kind = "link" /\ IsAbsolute(n.text)

\* Mutants of FollowLink: the turns are not counted; there is one too many;
\* the target is taken as a host path.
FollowLinkUncounted ==
    /\ pc = "links" /\ ptr.place # "buf" /\ turn < Turns /\ Linked
    /\ ptr' = TranslateIn(NodeAt(fs)[Resolved[Cwd][ptr.path]].text)
    /\ UNCHANGED <<fs, image, pc, call, turn, argv, info, forkless, out, history, relinks>>
FollowLinkOnceMore ==
    /\ pc = "links" /\ ptr.place # "buf" /\ turn <= Turns /\ Linked
    /\ turn' = turn + 1
    /\ ptr' = TranslateIn(NodeAt(fs)[Resolved[Cwd][ptr.path]].text)
    /\ UNCHANGED <<fs, image, pc, call, argv, info, forkless, out, history, relinks>>
FollowLinkOnHost ==
    /\ pc = "links" /\ ptr.place # "buf" /\ turn < Turns /\ Linked
    /\ turn' = turn + 1
    /\ ptr' = [place |-> "tlbuf", path |-> NodeAt(fs)[Resolved[Cwd][ptr.path]].text]
    /\ UNCHANGED <<fs, image, pc, call, argv, info, forkless, out, history, relinks>>

\* A turn of the loop.  A target that needs no translation stays in the
\* turn's own buffer, and tpath points there.
FollowLink ==
    /\ pc = "links" /\ ptr.place # "buf" /\ turn < Turns /\ Linked
    /\ turn' = turn + 1
    /\ \E t \in {TranslateIn(NodeAt(fs)[Resolved[Cwd][ptr.path]].text)} :
          ptr' = IF t.place = "tlbuf" THEN t ELSE [place |-> "buf", path |-> t.path]
    /\ UNCHANGED <<fs, image, pc, call, argv, info, forkless, out, history, relinks>>

StopFollowing ==
    /\ pc = "links" /\ ptr.place # "buf" /\ (turn = Turns \/ ~Linked)
    /\ pc' = "probe"
    /\ UNCHANGED <<fs, image, call, frame, forkless, out, history, relinks>>

(***************************************************************************)
(* The hooks: the way the program is started                               *)
(***************************************************************************)

\* The path execve was given: execvp translates the one it was given.
Orig == IF call.fn = "execvp" /\ ~Bare(call.path) THEN TranslateIn(call.path).path
                                                  ELSE call.path

\* inject_applet: the name that was asked for goes in front of the arguments
\* if the file that was found has another.
WithApplet ==
    IF Base(Orig) = Base(ptr.path) THEN argv ELSE <<Base(Orig)>> \o argv

\* A mutant of Probe: the applet's name is not passed on.
ProbePlain ==
    /\ pc = "probe"
    /\ info' = ReadElfInfo(fs, ptr.path)
    /\ pc' = "decide"
    /\ UNCHANGED <<fs, image, call, ptr, turn, argv, forkless, out, history, relinks>>

\* inject_applet and read_elf_info.
Probe ==
    /\ pc = "probe"
    /\ argv' = WithApplet
    /\ info' = ReadElfInfo(fs, ptr.path)
    /\ pc' = "decide"
    /\ UNCHANGED <<fs, image, call, ptr, turn, forkless, out, history, relinks>>

\* has_setuid_bit looks at the file anew.
SetuidNow ==
    LET i == FileAt(fs, ptr.path, FALSE) IN i \in DOMAIN Programs /\ Programs[i].setuid

\* The way when ptrace is not tried, or fork has failed.
AfterPtrace ==
    IF call.fn # "execveat" /\ Programs[info].interp # <<>> THEN "loader" ELSE "kernel"

\* A mutant of Decide: a static program is started like any other.
DecideStaticPlain ==
    /\ pc = "decide"
    /\ pc' = IF info = NoFile \/ ~OfHostArch(info) THEN "kernel"
             ELSE IF SetuidNow \/ ~HasPreload(call) THEN "ptrace"
             ELSE AfterPtrace
    /\ UNCHANGED <<fs, image, call, frame, forkless, out, history, relinks>>

\* A program for another machine than the library's goes to the kernel,
\* whatever it is, and whether the kernel can start it or not: find_qemu gives
\* up before it looks for a QEMU, since nothing ever sets QEMU_PATH.
Decide ==
    /\ pc = "decide"
    /\ pc' = IF info = NoFile \/ ~OfHostArch(info) THEN "kernel"
             ELSE IF SetuidNow \/ Programs[info].interp = <<>> \/ ~HasPreload(call)
                  THEN "ptrace"
             ELSE AfterPtrace
    /\ UNCHANGED <<fs, image, call, frame, forkless, out, history, relinks>>

\* ptrace_fallback_execve does not return once it has forked: the child runs
\* the program, and its end is the caller's.
Ptrace ==
    /\ pc = "ptrace"
    /\ \E s \in {Start(fs, ptr.path, argv)} :
          IF s = Refused THEN Ends ELSE Becomes(s, "ptrace")
    /\ UNCHANGED <<fs, call, forkless, history, relinks>>

ForkFails ==
    /\ pc = "ptrace"
    /\ forkless' = TRUE
    /\ pc' = AfterPtrace
    /\ UNCHANGED <<fs, image, call, ptr, turn, argv, info, out, history, relinks>>

\* Mutants of Loader: argv[0] is passed on; the rootfs's loader is not used.
LoaderAllArgs ==
    /\ pc = "loader"
    /\ \E l \in {FileAt(fs, Rootfs \o Programs[info].interp, FALSE)} :
       \E s \in {RunLoader(fs, l, ptr.path, argv)} :
          IF ~Rooted \/ ~Startable(l)
           THEN pc' = "kernel" /\ UNCHANGED <<image, frame, out>>
           ELSE IF s = Refused THEN Ends ELSE Becomes(s, "loader")
    /\ UNCHANGED <<fs, call, forkless, history, relinks>>
LoaderUnused ==
    /\ pc = "loader"
    /\ pc' = "kernel"
    /\ UNCHANGED <<fs, image, call, frame, forkless, out, history, relinks>>

\* try_rootfs_interp: the rootfs's loader with the program and what follows
\* argv[0].  The loader finds out for itself what it is to load.
Loader ==
    /\ pc = "loader"
    /\ \E l \in {FileAt(fs, Rootfs \o Programs[info].interp, FALSE)} :
       \E s \in {RunLoader(fs, l, ptr.path, Tail(argv))} :
          IF ~Rooted \/ ~Startable(l)
           THEN pc' = "kernel" /\ UNCHANGED <<image, frame, out>>
           ELSE IF s = Refused THEN Ends ELSE Becomes(s, "loader")
    /\ UNCHANGED <<fs, call, forkless, history, relinks>>

\* raw_execve, raw_execveat
Kernel ==
    /\ pc = "kernel"
    /\ \E s \in {Start(fs, ptr.path, argv)} :
          IF s = Refused THEN Fails ELSE Becomes(s, "kernel")
    /\ UNCHANGED <<fs, call, forkless, history, relinks>>

(***************************************************************************)
(* The specification                                                       *)
(***************************************************************************)

InCall == pc \notin {"idle", "run", "over"}

\* Another process changes a name while a call is under way.
Relink ==
    /\ InCall /\ relinks < MaxRelinks
    /\ relinks' = relinks + 1 /\ changes' = changes + 1
    /\ \E r \in Relinks :
          /\ fs[r.at] # r.node
          /\ fs' = [fs EXCEPT ![r.at] = r.node]
    /\ UNCHANGED <<image, pc, call, frame, forkless, out, from, began>>

Init ==
    /\ fs = InitFS /\ image = NoImage /\ pc = "idle"
    /\ call = NoCall /\ ptr = NoPtr /\ turn = 0 /\ argv = <<>> /\ info = NoFile
    /\ forkless = FALSE /\ out = "none" /\ from = {}
    /\ began = InitFS /\ changes = 0 /\ relinks = 0

Advance ==
    \/ Launch \/ EnterExec \/ EnterRaw \/ EnterPath \/ EnterName
    \/ LoseBuffer \/ FollowLink \/ StopFollowing
    \/ Probe \/ Decide \/ Ptrace \/ ForkFails \/ Loader \/ Kernel

Next == Take \/ Call \/ Advance \/ Relink

\* A call that has begun goes on; no program need ever make one.
Spec == Init /\ [][Next]_vars /\ WF_vars(Advance)

(***************************************************************************)
(* What a call means                                                       *)
(***************************************************************************)

\* The directories of PATH in which the guest has a program of a name.
Hits(f, p) == {k \in DOMAIN SearchDirs :
                 FileAt(f, Translated[Join(SearchDirs[k], p)].path, TRUE) \in
                     {i \in DOMAIN Programs : Programs[i].xbit}}

\* The path a call starts from in file system f; a name is looked for in PATH.
StartsAt(f, c) ==
    IF c.fn \in {"lroot", "execvp"} /\ Bare(c.path)
    THEN [k \in Nat |-> IF k = 0 THEN <<>>
                        ELSE Resolved[Cwd][Translated[Join(SearchDirs[k], c.path)].path]]
             [FirstDir[Hits(f, c.path)]]
    ELSE Resolved[Cwd][Translated[c.path].path]

\* What the guest comes to on its way, links leading where they do in its own
\* root, and the file it means.
Way(f, c) ==
    LET on == Walk(f, StartsAt(f, c), TRUE)
    IN  [n \in 0..KernelTurns |-> NodeAt(f)[on[n]]]
Meant(f, c) == FileOf[Way(f, c)[KernelTurns]]

\* The absolute links on the way, by how many links come before them.
AbsLinks(way) ==
    {n \in 0..KernelTurns - 1 : way[n].kind = "link" /\ IsAbsolute(way[n].text)}

\* The links the hooks can follow: no relative one comes before an absolute
\* one, there are not too many, and each is rewritten (one that is not is
\* left behind in a buffer that is gone).
LinksFollowed(way) ==
    /\ way[KernelTurns].kind # "link"
    /\ \A n \in AbsLinks(way) :
           /\ n < Turns
           /\ 0..n \subseteq AbsLinks(way)
           /\ Translated[way[n].text].place = "tlbuf"

\* A candidate of a search that the host and the guest find alike.
FoundAlike(f, p) ==
    /\ FileAt(f, p, FALSE) = FileAt(f, Translated[p].path, TRUE)
    /\ NodeAt(f)[Walk(f, Resolved[Cwd][p], FALSE)[KernelTurns]].kind # "dir"

\* The kernel starts program i, and so does the rootfs's loader.
Loads(f, i) ==
    /\ Startable(i)
    /\ Programs[i].interp # <<>> =>
          \E l \in {FileAt(f, Programs[i].interp, FALSE)} : Startable(l)

\* What lroot takes on of a path, and of a link on its way: it puts the rootfs
\* in front, whatever a bind sends elsewhere, and follows no link with a slash
\* at its end.
LaunchesAlike(p) ==
    /\ p # <<>> /\ Last(p) # Slash
    /\ IsAbsolute(p) => Translated[p].path = Rootfs \o p

\* Of a path, it leaves absolute links to the host if that has the program's
\* loader.  A name it looks for on the host, in its own directory, too, and it
\* passes over a program that cannot be started.
OrdinaryLaunch(f, c, way, i) ==
    IF Bare(c.path)
    THEN /\ ElfInterp(f, ResolveRootfs(f, c.path)) = NoFile
         /\ Loads(f, i)
         /\ \A k \in DOMAIN SearchDirs : FoundAlike(f, Join(SearchDirs[k], c.path))
    ELSE /\ way[KernelTurns].kind # "link" /\ \A n \in AbsLinks(way) : n < Turns
         /\ LaunchLoader(f, i) = NoFile => AbsLinks(way) = {}
         /\ LaunchesAlike(c.path)
         /\ \A n \in 0..KernelTurns : way[n].kind = "link" => LaunchesAlike(way[n].text)

\* The calls the code takes on.  execvp looks for a name on the host and
\* translates a path twice; execveat follows no absolute link of a relative
\* path; and a script's interpreter is the host's.
Ordinary(f, c) ==
    \E way \in {Way(f, c)} : \E i \in {FileOf[way[KernelTurns]]} :
        /\ IF c.fn = "lroot" THEN OrdinaryLaunch(f, c, way, i) ELSE LinksFollowed(way)
        /\ c.fn = "execveat" /\ ~IsAbsolute(c.path) => AbsLinks(way) = {}
        /\ c.fn = "execvp" /\ Bare(c.path) =>
              /\ "PATH" \in from
              /\ \A k \in DOMAIN SearchDirs : FoundAlike(f, Join(SearchDirs[k], c.path))
        /\ c.fn = "execvp" => Translated[Translated[c.path].path].place = "caller"
        /\ ~Bare(c.path) /\ IsAbsolute(c.path) => Len(Image(c.path)) < BufLen
        /\ i \in DOMAIN Programs => Programs[i].kind = "elf"

\* A name becomes an absolute link: it may have been looked at already, and
\* the kernel follows such a link on the host.
AbsLinkMade ==
    \E n \in Names : /\ fs[n].kind = "link" /\ IsAbsolute(fs[n].text)
                     /\ ~(began[n].kind = "link" /\ IsAbsolute(began[n].text))

\* What others do to a call the code takes on: after a second change, or with
\* a candidate of PATH that is one no more, a hook's way may be one there was
\* at no moment.
OrdinaryThroughout ==
    /\ call.fn = "lroot" \/ "LITTLE_ROOTFS" \in from
    /\ changes <= 1 /\ ~AbsLinkMade /\ StartsAt(began, call) = StartsAt(fs, call)
    /\ \A f \in {began, fs} : Ordinary(f, call)

\* A program that can be started in f whichever way the call takes; lroot
\* needs a library for it.
CanStart(f, c) ==
    \E i \in {Meant(f, c)} :
        /\ Loads(f, i)
        /\ c.fn = "lroot" => Library(IF Bare(c.path) THEN NoFile ELSE i) # <<>>

(***************************************************************************)
(* Properties                                                              *)
(***************************************************************************)

Outs == {"none", "started", "failed", "gone"}
TypeOK ==
    /\ fs \in [Names -> Node]
    /\ image.file \in MaybeFile /\ image.loader \in MaybeFile
    /\ image.argv \in Seq(Path) /\ image.exe \in Path
    /\ pc \in {"idle", "launch", "run", "search", "links", "probe", "decide",
               "ptrace", "loader", "kernel", "over"}
    /\ ptr \in [place : {"caller", "tlbuf", "buf", "lost"}, path : Path]
    /\ turn \in 0..Turns /\ argv \in Seq(Path) /\ info \in MaybeFile
    /\ forkless \in BOOLEAN /\ out \in Outs
    /\ began \in [Names -> Node] /\ changes \in Nat /\ relinks \in 0..MaxRelinks
    /\ pc \in {"ptrace", "loader"} => info # NoFile

\* The program that runs after a call is the one the guest meant by its path
\* before or after what another process changed meanwhile, links followed in
\* the guest's own root ("Follow busybox-style symlinks inside the rootfs.",
\* lib.rs:1911; resolve_rootfs, main.rs:314-334).
RunsMeant ==
    out = "started" /\ OrdinaryThroughout =>
        \E f \in {began, fs} : image.file = Meant(f, call)

\* The interpreter of the program a call means is the file it was when the
\* call began.  Where one link is on a program's way and on its interpreter's,
\* a change of it may leave the hook with a program that had an interpreter
\* only before, though there was one that could be started at every moment.
InterpreterStays ==
    \A f \in {began, fs} : \E i \in {Meant(f, call)} :
        Startable(i) => FileAt(began, Programs[i].interp, FALSE) =
                        FileAt(fs, Programs[i].interp, FALSE)

\* A call fails, or ends its caller, only if at some moment of it there was
\* no program to start.
FailsOnlyForCause ==
    out \in {"failed", "gone"} /\ OrdinaryThroughout /\ InterpreterStays =>
        \E f \in {began, fs} : ~CanStart(f, call)

\* What a program takes its arguments for: one that goes by the name it is
\* called by takes the next one if that name is its own.
Taken(i, args) ==
    IF Programs[i].multi = <<>>                    THEN Tail(args)
    ELSE IF Base(args[1]) # Programs[i].multi      THEN <<Base(args[1])>> \o Tail(args)
    ELSE IF Len(args) > 1 THEN <<Base(args[2])>> \o Tail(Tail(args)) ELSE <<>>

\* Where names do no harm.  A call by another name than the file's is one of
\* a program that reads its name, by a way that takes one name away again; and
\* where such a program gets its path for a name, that was the name given.  One
\* that lroot finds by that name elsewhere gets it twice.
NamesFit ==
    LET asked == Base(IF call.fn = "execvp" THEN Translated[call.path].path ELSE call.path)
        named == Programs[image.file].multi # <<>> /\ image.via = "loader"
    IN  /\ asked # Base(image.exe) => named /\ Base(image.exe) = Programs[image.file].multi
        /\ named => Base(call.argv[1]) = asked
        /\ call.fn = "lroot" /\ image.via = "loader" /\ asked = Base(image.exe) =>
              image.exe = Prog(call)

\* The arguments arrive: no way of starting a program loses, doubles or
\* shifts one (lib.rs:1838-1890, 485-499).
ArgsArrive ==
    out = "started" /\ OrdinaryThroughout /\ NamesFit =>
        Taken(image.file, image.argv) = Taken(image.file, call.argv)

\* A program is never started behind the back of lroot: the library is loaded
\* into it or it is traced, static or setuid as it may be, if the environment
\* was passed on, fork worked, nobody changed the file meanwhile, it is that
\* file and not the interpreter a script names, and it is for the machine and
\* the C library that the library in the caller was built for.  (A program of
\* the other class runs unwatched: the hook takes it for one of another
\* architecture, lib.rs:1938, 2118, and a loader of its class cannot load the
\* library.)
Watched ==
    (/\ out = "started" /\ changes = 0 /\ ~forkless
     /\ {"LD_PRELOAD", "LITTLE_ROOTFS"} \subseteq image.env
     /\ call.fn = "execveat" => IsAbsolute(call.path)
     /\ IF call.fn = "lroot"
        THEN /\ ~Bare(call.path) /\ OrdinaryThroughout
             /\ Variant(image.file) \in Libraries
             /\ Programs[image.file].interp # <<>> /\ ~Programs[image.file].setuid
        ELSE /\ image.file = FileAt(fs, image.exe, FALSE)
             /\ OfHostArch(image.file)
             /\ Programs[image.file].interp # <<>> => Fits(image.lib, image.file))
    => Hooked(image) \/ image.via = "ptrace"

\* A program of the rootfs that execve starts with the library in it runs
\* with the rootfs's own dynamic loader, if it needs one and there is one, and
\* if it is for the machine of the caller's library.  (One of the other class
\* gets the host's loader; lib.rs:1938.)
OwnLoader ==
    (/\ out = "started" /\ changes = 0
     /\ call.fn = "execve" /\ image.via # "ptrace" /\ OrdinaryThroughout
     /\ OfHostArch(image.file)
     /\ Programs[image.file].interp # <<>>
     /\ Startable(FileAt(fs, Rootfs \o Programs[image.file].interp, FALSE)))
    => image.loader = FileAt(fs, Rootfs \o Programs[image.file].interp, FALSE)

\* Every call returns, starts a program or ends its caller, links in a circle
\* included.
CallEnds == InCall ~> ~InCall

\* "QEMU: auto-runs non-native ELF binaries through a specified QEMU
\* user-mode binary when enabled." (README.md:54-55)
ForeignRuns ==
    out = "failed" /\ "LITTLE_QEMU" \in from /\ OrdinaryThroughout =>
        \A f \in {began, fs} : ~(ElfFile(Meant(f, call)) /\ ~Programs[Meant(f, call)].native)
=============================================================================
