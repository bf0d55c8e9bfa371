------------------------------- MODULE Hooks -------------------------------
(***************************************************************************)
(* The path hooks of libintercept (open, stat, rename, readlink, ... and   *)
(* their *at forms) as the threads of one guest process run them.          *)
(*                                                                         *)
(* A hook prepares the path arguments of its system call one by one and    *)
(* then issues the call.  translate writes its result into TL_BUF, one     *)
(* buffer per thread, and returns a pointer to it; the kernel reads the    *)
(* text a pointer leads to only when the call is issued.  Between any two  *)
(* of these steps another thread may run, and a signal handler of the same *)
(* thread may run hooks of its own: an activation above the interrupted    *)
(* one.                                                                    *)
(***************************************************************************)
EXTENDS HostKernel

CONSTANTS
    Threads,      \* the threads of the guest process
    Calls,        \* the calls the guest program may make
    HandlerCalls, \* the calls its signal handlers may make
    MaxDepth,     \* bound: a call and the handlers nested above it
    FakeFiles,    \* the files try_proc_fake_open knows
    InitFS,       \* the host's file system when the process starts
    InitCwd       \* the working directory the process starts in

AllCalls == Calls \cup HandlerCalls

VARIABLES
    tlbuf,  \* tlbuf[t]: the text in the TL_BUF of thread t
    depth,  \* depth[t]: the number of hook activations on t's stack
    act,    \* act[t][d]: the activation at depth d of thread t
    fs,     \* the host's file system
    cwd,    \* the process's working directory, a host path
    dir,    \* the directory behind the process's descriptor, or <<>>
    last    \* the last finished call and what it returned

vars == <<tlbuf, depth, act, fs, cwd, dir, last>>

(***************************************************************************)
(* The hooks, in the order of lib.rs: which there are, how each prepares   *)
(* its path arguments and which system call it issues.                     *)
(***************************************************************************)

OpenHooks     == {"open", "fopen"}
Open64Hooks   == {"open64"}
FreopenHooks  == {"freopen"}
StatHooks     == {"stat", "stat64", "statx", "access", "faccessat",
                  "listxattr", "getxattr"}
LstatHooks    == {"lstat", "lstat64", "llistxattr", "lgetxattr"}
EntryHooks    == {"mkdir", "rmdir", "unlink"}
RenameHooks   == {"rename"}
SymlinkHooks  == {"symlink"}
ReadlinkHooks == {"readlink", "__readlink_chk"}
DirHooks      == {"chdir", "opendir"}
MetaHooks     == {"chmod", "chown", "utimes", "utimensat"}
OpenatHooks   == {"openat"}
FstatatHooks  == {"fstatat"}
ReadlinkatHooks   == {"readlinkat"}
EntryatHooks      == {"mkdirat", "unlinkat"}
TwoPathatHooks    == {"renameat", "renameat2", "linkat"}
SymlinkatHooks    == {"symlinkat"}
LinkHooks         == {"link"}
MoreMetaHooks     == {"truncate", "fchmodat", "fchownat", "statfs"}
LchownHooks       == {"lchown"}

OpeningHooks == OpenHooks \cup Open64Hooks \cup FreopenHooks \cup OpenatHooks
NamingHooks  == StatHooks \cup LstatHooks \cup EntryHooks \cup RenameHooks \cup SymlinkHooks
                \cup ReadlinkHooks \cup DirHooks \cup MetaHooks \cup FstatatHooks
                \cup ReadlinkatHooks \cup EntryatHooks \cup TwoPathatHooks \cup SymlinkatHooks
                \cup LinkHooks \cup MoreMetaHooks \cup LchownHooks

TwoPathHooks == RenameHooks \cup LinkHooks \cup TwoPathatHooks

\* The hooks that look for a made-up file of /proc before they translate;
\* openat does so for any absolute path.  readlink's own answer for
\* /proc/self/root is the one the kernel gives and is not told apart.
FakingHooks == OpenHooks \cup OpenatHooks

\* Mutants of Modes: the first path of a two-path hook is not saved; the *at
\* hooks translate only what is relative to the working directory, as
\* readlinkat does; chdir and opendir do not translate.
ModesUnsaved(c) ==
    CASE c.hook \in TwoPathHooks -> <<"translate", "translate">>
      [] c.hook \in SymlinkHooks \cup SymlinkatHooks -> <<"raw", "translate">>
      [] OTHER -> <<"translate">>
ModesOnlyCwd(c) ==
    CASE c.hook \in TwoPathHooks ->
            IF c.at = "fd" THEN <<"raw", "raw">> ELSE <<"save", "translate">>
      [] c.hook \in SymlinkHooks \cup SymlinkatHooks -> <<"raw", "translate">>
      [] OTHER -> IF c.at = "fd" THEN <<"raw">> ELSE <<"translate">>
ModesRawDir(c) ==
    CASE c.hook \in TwoPathHooks -> <<"save", "translate">>
      [] c.hook \in SymlinkHooks \cup SymlinkatHooks -> <<"raw", "translate">>
      [] c.hook \in DirHooks -> <<"raw">>
      [] OTHER -> <<"translate">>

\* How the arguments of a call are prepared: "save" (save_path), "translate"
\* (translate, match_non_abs) or "raw" (passed as it is).  The first path of
\* a two-path hook is saved because the second translation overwrites
\* TL_BUF; a link's target is stored as it is; readlinkat translates only
\* paths relative to the working directory.
Modes(c) ==
    CASE c.hook \in TwoPathHooks -> <<"save", "translate">>
      [] c.hook \in SymlinkHooks \cup SymlinkatHooks -> <<"raw", "translate">>
      [] c.hook \in ReadlinkatHooks /\ c.at = "fd" -> <<"raw">>
      [] OTHER -> <<"translate">>

\* The system call a hook issues: always the one the function stands for,
\* open's and unlinkat's flags passed on, except that renameat2 issues
\* renameat.
Sys(c) ==
    CASE c.hook \in StatHooks \cup MetaHooks \cup FstatatHooks \cup MoreMetaHooks
                                                               -> "lookup"
      [] c.hook \in LstatHooks \cup LchownHooks                -> "nofollow"
      [] c.hook \in {"mkdir", "mkdirat"}                       -> "mkdir"
      [] c.hook \in {"rmdir", "unlink", "unlinkat"}            -> "remove"
      [] c.hook \in RenameHooks \cup {"renameat", "renameat2"} -> "rename"
      [] c.hook \in LinkHooks \cup {"linkat"}                  -> "link"
      [] c.hook \in SymlinkHooks \cup SymlinkatHooks           -> "symlink"
      [] c.hook \in ReadlinkHooks \cup ReadlinkatHooks         -> "readlink"
      [] c.hook \in DirHooks                                   -> c.hook
      [] OTHER -> c.op   \* the hooks of open: "open" or "create"

(***************************************************************************)
(* Activations                                                             *)
(***************************************************************************)

NoCall == [hook |-> "none", op |-> "none", args |-> <<>>, at |-> "cwd"]
Idle   == [call |-> NoCall, ptr |-> <<>>, copying |-> FALSE]

\* The activation that runs: a signal handler runs to its end before the
\* call it interrupted goes on.
Top(t) == act[t][depth[t]]

\* The text behind a pointer while the thread's TL_BUF holds buf.
Deref(buf, ptr) == IF ptr.place = "tlbuf" THEN buf ELSE ptr.path

Init ==
    /\ tlbuf = [t \in Threads |-> <<>>]
    /\ depth = [t \in Threads |-> 0]
    /\ act   = [t \in Threads |-> [d \in 1..MaxDepth |-> Idle]]
    /\ fs    = InitFS
    /\ cwd   = InitCwd
    /\ dir   = <<>>
    /\ last  = [call |-> NoCall, ret |-> Result("none")]

Faked(c) == c.hook \in FakingHooks /\ c.args[1] \in FakeFiles

\* What thread t may call now: anything the program calls, or, while a call
\* is under way, anything a signal handler calls.
Callable(t) == IF depth[t] = 0 THEN Calls ELSE HandlerCalls

\* The thread enters a hook.
Enter(t) ==
    /\ depth[t] < MaxDepth
    /\ \E c \in Callable(t) :
          /\ ~Faked(c)
          /\ c.at = "fd" => dir # <<>>
          /\ depth' = [depth EXCEPT ![t] = @ + 1]
          /\ act' = [act EXCEPT ![t][depth[t] + 1] =
                        [call |-> c, ptr |-> <<>>, copying |-> FALSE]]
    /\ UNCHANGED <<tlbuf, fs, cwd, dir, last>>

\* try_proc_fake_open answers without any system call on the path.
OpenFake(t) ==
    /\ depth[t] < MaxDepth
    /\ \E c \in Callable(t) :
          /\ Faked(c)
          /\ last' = [call |-> c, ret |-> Result("fake")]
    /\ UNCHANGED <<tlbuf, depth, act, fs, cwd, dir>>

\* The mode and text of the argument that comes next.
NextArg(t) == Len(Top(t).ptr) + 1
Preparing(t) ==
    /\ depth[t] > 0
    /\ ~Top(t).copying
    /\ NextArg(t) <= Len(Top(t).call.args)

\* A mutant of TranslateArg: one buffer for all threads.
TranslateArgShared(t) ==
    /\ Preparing(t)
    /\ LET c    == Top(t).call
           mode == Modes(c)[NextArg(t)]
           tr   == Translate(c.args[NextArg(t)])
       IN  /\ mode # "raw"
           /\ tlbuf' = IF tr.place = "tlbuf" THEN [u \in Threads |-> tr.path] ELSE tlbuf
           /\ act' = [act EXCEPT ![t][depth[t]] =
                        [call |-> c, ptr |-> Append(Top(t).ptr, tr),
                         copying |-> mode = "save"]]
    /\ UNCHANGED <<depth, fs, cwd, dir, last>>

\* translate: the image goes into the thread's buffer, or the path stays
\* where the caller has it.
TranslateArg(t) ==
    /\ Preparing(t)
    /\ LET c    == Top(t).call
           mode == Modes(c)[NextArg(t)]
           tr   == Translate(c.args[NextArg(t)])
       IN  /\ mode # "raw"
           /\ tlbuf' = IF tr.place = "tlbuf" THEN [tlbuf EXCEPT ![t] = tr.path]
                                             ELSE tlbuf
           /\ act' = [act EXCEPT ![t][depth[t]] =
                        [call |-> c,
                         ptr  |-> Append(Top(t).ptr,
                                    [place |-> tr.place,
                                     path  |-> IF tr.place = "tlbuf" THEN <<>>
                                                                     ELSE tr.path]),
                         copying |-> mode = "save"]]
    /\ UNCHANGED <<depth, fs, cwd, dir, last>>

\* A mutant of CopyArg: the path as the caller wrote it is saved.
CopyArgUntranslated(t) ==
    /\ depth[t] > 0
    /\ Top(t).copying
    /\ LET n == Len(Top(t).ptr)
           c == Top(t).call
       IN  act' = [act EXCEPT ![t][depth[t]] =
                     [call |-> c,
                      ptr  |-> [Top(t).ptr EXCEPT ![n] =
                                  [place |-> "saved", path |-> c.args[n]]],
                      copying |-> FALSE]]
    /\ UNCHANGED <<tlbuf, depth, fs, cwd, dir, last>>

\* The second half of save_path: the text the new pointer leads to is copied
\* into a buffer on the stack, if it fits there.
CopyArg(t) ==
    /\ depth[t] > 0
    /\ Top(t).copying
    /\ LET n    == Len(Top(t).ptr)
           text == Deref(tlbuf[t], Top(t).ptr[n])
       IN  act' = [act EXCEPT ![t][depth[t]] =
                     [call |-> Top(t).call,
                      ptr  |-> IF Len(text) < BufLen
                               THEN [Top(t).ptr EXCEPT ![n] =
                                       [place |-> "saved", path |-> text]]
                               ELSE Top(t).ptr,
                      copying |-> FALSE]]
    /\ UNCHANGED <<tlbuf, depth, fs, cwd, dir, last>>

\* An argument that is not translated.
PassArg(t) ==
    /\ Preparing(t)
    /\ LET c == Top(t).call
       IN  /\ Modes(c)[NextArg(t)] = "raw"
           /\ act' = [act EXCEPT ![t][depth[t]] =
                        [call |-> c,
                         ptr  |-> Append(Top(t).ptr,
                                    [place |-> "caller", path |-> c.args[NextArg(t)]]),
                         copying |-> FALSE]]
    /\ UNCHANGED <<tlbuf, depth, fs, cwd, dir, last>>

\* The kernel takes an absolute link at its word.
KernelText(p) == p

\* What a system call does and what its hook returns, when the kernel reads
\* these texts: of a link's target the hook strips the rootfs.
Effect(c, texts) ==
    LET base  == IF c.at = "fd" THEN dir ELSE cwd
        where == [i \in DOMAIN c.args |-> Resolve(base, texts[i])]
        ans   == Perform(Sys(c), fs, texts, where, KernelText)
    IN  /\ fs'   = ans.fs
        /\ cwd'  = IF Sys(c) = "chdir" /\ ans.ret.kind = "ok" THEN ans.dir ELSE cwd
        /\ dir'  = IF Sys(c) = "opendir" /\ ans.ret.kind = "ok" THEN ans.dir ELSE dir
        /\ last' = [call |-> c,
                    ret  |-> IF Sys(c) = "readlink" /\ ans.ret.kind = "link"
                             THEN Link(StripRootfs(ans.ret.text))
                             ELSE ans.ret]

\* The system call: the kernel reads the texts behind the pointers and acts,
\* and the hook returns.
Syscall(t) ==
    /\ depth[t] > 0
    /\ ~Top(t).copying
    /\ NextArg(t) > Len(Top(t).call.args)
    /\ Effect(Top(t).call, [i \in DOMAIN Top(t).call.args |-> Deref(tlbuf[t], Top(t).ptr[i])])
    /\ act'   = [act EXCEPT ![t][depth[t]] = Idle]
    /\ depth' = [depth EXCEPT ![t] = @ - 1]
    /\ UNCHANGED tlbuf

Step(t) == \/ Enter(t) \/ OpenFake(t) \/ TranslateArg(t)
           \/ CopyArg(t) \/ PassArg(t) \/ Syscall(t)

Next == \E t \in Threads : Step(t)

Spec == Init /\ [][Next]_vars

ASSUME HooksAssumption ==
    /\ Names \subseteq Path /\ \A p \in Names : IsAbsolute(p)
    /\ InitFS \in [Names -> Node]
    /\ InitCwd \in Path /\ IsAbsolute(InitCwd)
    /\ MaxDepth \in Nat
    /\ \A c \in AllCalls :
         /\ c \in [hook : STRING, op : STRING, args : Seq(Path), at : {"cwd", "fd"}]
         /\ Len(c.args) = Len(Modes(c))
         /\ c.hook \in NamingHooks \/ (c.hook \in OpeningHooks /\ c.op \in {"open", "create"})
         /\ Sys(c) \in KernelCalls

(***************************************************************************)
(* Properties                                                              *)
(***************************************************************************)

Pointer == [place : {"caller", "tlbuf", "saved"}, path : Path]

Activation == [call : AllCalls \cup {NoCall}, ptr : Seq(Pointer), copying : BOOLEAN]

\* Every variable has its type, what is in TL_BUF fits it with its NUL, and
\* an activation under way is one of a call of the program's.
TypeOK ==
    /\ tlbuf \in [Threads -> Path]
    /\ \A t \in Threads : Len(tlbuf[t]) < BufLen
    /\ depth \in [Threads -> 0..MaxDepth]
    /\ act \in [Threads -> [1..MaxDepth -> Activation]]
    /\ fs \in [Names -> Node]
    /\ cwd \in Path /\ dir \in Path
    /\ \A t \in Threads : \A d \in 1..depth[t] :
        /\ act[t][d].call \in AllCalls
        /\ Len(act[t][d].ptr) <= Len(act[t][d].call.args)
        /\ act[t][d].copying => Len(act[t][d].ptr) > 0

\* Signal handlers that need no translation: relative paths, paths inside the
\* rootfs or a host directory, or no handlers at all.
QuietHandlers ==
    \/ MaxDepth <= 1
    \/ \A c \in HandlerCalls : \A i \in 1..Len(c.args) :
          Modes(c)[i] = "raw" \/ Translate(c.args[i]).place = "caller"

\* How the hooks keep out of their own way: only the newest pointer of the
\* interrupted call itself may lead into TL_BUF, and then it is either about
\* to be copied or the call's last argument.
Disciplined(d, a) ==
    /\ a.call \in IF d = 1 THEN Calls ELSE HandlerCalls
    /\ a.copying => Modes(a.call)[Len(a.ptr)] = "save"
    /\ \A i \in 1..Len(a.ptr) :
         a.ptr[i].place = "tlbuf" =>
            /\ d = 1 /\ i = Len(a.ptr)
            /\ a.copying \/ Modes(a.call)[i] = "translate"

PointerDiscipline ==
    \A t \in Threads : \A d \in 1..depth[t] : Disciplined(d, act[t][d])

\* What the i-th pointer of a call is to lead to.
Intended(c, i) == IF Modes(c)[i] = "raw" THEN c.args[i] ELSE Translate(c.args[i]).path

Intact(buf, a) ==
    \A i \in 1..Len(a.ptr) : Deref(buf, a.ptr[i]) = Intended(a.call, i)

\* Every pointer a running or interrupted hook holds leads to the translation
\* of that hook's own argument, until the kernel has read it: no other hook
\* of the thread, and no other argument of the call, overwrites it
\* (TL_BUF, lib.rs:122-131; "save old before translate(new) clobbers TL_BUF",
\* lib.rs:1219).
PointersIntact ==
    \A t \in Threads : \A d \in 1..depth[t] : Intact(tlbuf[t], act[t][d])

\* However the steps of several threads and signal handlers interleave, each
\* call takes effect at once, and as if the kernel had read the translations
\* of its own arguments then (lib.rs:122-131, 238-256).
CallsActAtOnce ==
    [][\E c \in AllCalls :
          \/ Faked(c) /\ last' = [call |-> c, ret |-> Result("fake")] /\ UNCHANGED <<fs, cwd, dir>>
          \/ Effect(c, [i \in DOMAIN c.args |-> Intended(c, i)])]_<<fs, cwd, dir, last>>

\* What save_path alone promises: its copy is the translation of its
\* argument (lib.rs:238-240).
SavedIntact ==
    \A t \in Threads : \A d \in 1..depth[t] :
        LET a == act[t][d]
        IN  \A i \in 1..Len(a.ptr) :
              a.ptr[i].place = "saved" => a.ptr[i].path = Translate(a.call.args[i]).path

\* The host paths that belong to the guest.
Territory(p) ==
    \/ Under(Rootfs, p)
    \/ \E d \in HostDirs : Under(d, p)
    \/ \E i \in 1..Len(Binds) : Under(Binds[i].src, p)

\* No call creates, replaces or removes anything outside the guest's part of
\* the host's file system, whatever the directory it works in.
Confined ==
    [][\A p \in Names : fs'[p] # fs[p] => Territory(p)]_vars

\* getcwd is not hooked, so the guest gets the host path of its working
\* directory; handed to a hook, that path still names the directory.
CwdSurvives == Translate(cwd).path = cwd

\* The hooks implement the guest's view: every call, when it takes effect,
\* does what the guest meant by its own arguments, in one step.
View == INSTANCE RootView WITH Calls <- AllCalls
RefinesRootView == View!Spec
=============================================================================
