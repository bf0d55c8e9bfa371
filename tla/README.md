# A TLA+ development of lroot

lroot runs programs in another root directory without root privileges. A
launcher starts the guest program with a preloaded library; the library
replaces the C library's functions that take a path and rewrites the path
before it issues the system call. This directory holds TLA+ modules of that
system, TLC configurations that check them on small instances, and proofs that
TLAPS checks.

Line numbers refer to the sources at the modelled commit; `lib.rs` alone is
`intercept/src/lib.rs`.

## 1. The system

| Component | State it keeps | Operations | Talks to |
|---|---|---|---|
| path translation (`lib.rs:104-256`) | `TL_BUF`, 4096 bytes per thread; rootfs and binds, read once from the environment | `translate`, `match_non_abs`, `save_path`, the stripping in `do_readlink` | every path hook, the tracer |
| path hooks (`lib.rs:951-1715`) | none of their own; pointers on the stack while a call is prepared | about 50 functions: open, stat, rename, readlink, the `*at` forms ... | kernel, translation, made-up /proc |
| made-up /proc (`lib.rs:546-947`) | none | `try_proc_fake_open` | open, fopen, openat |
| exec hooks (`lib.rs:256-545`, `1794-2136`) | buffers on the stack | `execve`, `execvp`, `execveat`, applet injection, QEMU, rootfs interpreter | translation, tracer |
| ptrace fallback (`lib.rs:2138-2810`) | `in_syscall`, `detach_next`; the tracee's registers and memory | `ptrace_fallback_execve`, `ptrace_loop`, `handle_ptrace_syscall`, `wait_and_exit` | kernel, translation |
| fake root, uname, capget, mount (`lib.rs:1730-1792`, `2009-2060`) | a once-cell | constant answers | - |
| security hooks (`lib.rs:2811-2911`) | none | fail with EPERM | unintendedly, the tracer |
| lazy configuration (`lib.rs:50-120`) | four once-cells | `rootfs_bytes`, `binds`, `is_root_id` | environment |
| launcher (`runner/src/main.rs`) | `CHILD_PID`, signal handlers | arguments, choice of library, spawn, wait, forwarding of signals | the guest |
| library: sessions (`runner/src/pty.rs`, `lib.rs`) | `sessions`, `next_id`, `running` | `start`, `create_session`, `close_session`, `get_session_fd`, `shutdown`, `run`, drops | shells on ptys |
| library: `intercept::Manager` (`runner/src/intercept/mod.rs`) | a table of prefixes | `translate_path`, `prepare_rootfs`, `enable_preload_hooks`, `spawn_in_rootfs` | no caller in the repository |
| lroot-distro (`lroot-distro/src`) | directories on disk | install, run/login, remove, list | curl, tar, lroot |

What is hard here, and a test would hardly reach:

- *Shared buffers.* A hook holds a pointer into its thread's `TL_BUF` until the
  kernel has read it. Two-path hooks translate twice; signal handlers run hooks
  between any two instructions.
- *Paths that go round.* `getcwd` is not hooked and gives host paths, `readlink`
  rewrites in the other direction, relative paths are not translated at all and
  rely on the working directory having been reached through a translated path.
- *ptrace.* Entry and exit of a system call look alike and are told apart by
  counting; signals and restarted calls come in between.
- *Starting programs.* execve looks at a file several times by its path, follows
  absolute links itself and leaves relative ones to the host's kernel, and has
  four ways to start what it found, each with its own idea of the arguments.
- *The once-cells.* They are filled by whichever hook comes first, while threads
  fork and handlers run.
- *Signals and processes.* The launcher's handlers run before it knows its
  child, and signals it does not catch leave the child behind; a session is closed
  by waiting for a shell that may ignore SIGTERM; others know a traced program by
  the pid of its tracer.
- *Breaking off.* lroot-distro marks nothing as complete and locks nothing, and
  unpacking over a file that is there removes, creates and writes it again.

`PROJECT.json` lists the hazards one by one, at their lines, with the property
that watches each or the reason why none does yet.

What makes each component correct, in one sentence: a translation is total on
what fits, stable under repetition and undone by readlink; a hook's system call
acts on the translation of the hook's own arguments and therefore on the object
the guest meant; what execve starts is the program the guest meant, with its
arguments and under lroot's eyes; all hooks of a program go by one configuration;
what /proc shows leads back to what it hides; the tracer sees every entry once and passes for its tracee, whatever ends either;
the launcher ends after its guest and with its status; the session manager
signals and reaps only its own children and gives back every descriptor; what
lroot-distro leaves behind is whole or empty.

## 2. The modules

| Module | What it is |
|---|---|
| `PathTranslation` | `translate`, `save_path`, readlink's stripping and the library's own translator as operators on paths, and what they promise |
| `ProcFiles` | the scanners that hide the rootfs in maps, cmdline and mountinfo |
| `LaunchOptions` | `parse_args`, and the binds' way from `-b` through `LITTLE_BINDS` to `binds()` |
| `Translations` | what these three promise, as invariants of a system whose steps make a path or a command line longer |
| `MCPathTranslation` | an instance of `Translations` |
| `PathTranslationProofs`, `TranslationsProofs` | theorems about the operators, and about every path and command line `Translations` comes to |
| `HostKernel` | the part of the kernel the hooks rely on: a flat file system with links, and one operator per kind of system call (external) |
| `RootView` | the abstract specification: what a guest means by a call, done in one step |
| `Hooks` | the hooks as threads and signal handlers execute them, step by step; implements `RootView` |
| `MCHooks` | instances of `Hooks` |
| `HooksProofs` | types, buffer discipline, atomicity, confinement, `getcwd`'s round trip and the refinement, proved |
| `Tracer`, `MCTracer`, `TracerProofs` | the ptrace fallback with tracee and kernel |
| `Exec` | how the first program and all later ones are started: `main` up to spawn, `execve`, `execvp`, `execveat` |
| `MCExec`, `ExecProofs` | instances of `Exec`; its types and what lroot and its hooks start, proved |
| `Config`, `MCConfig`, `ConfigProofs` | the once-cells of one program |
| `Launcher` | lroot from its first instruction to its exit (`MainInit`, `MainNext`, `MainSpec`) |
| `Sessions` | the library's pty sessions |
| `RunnerProofs` | theorems about these two, the parts of the crate `runner` |
| `Distro`, `DistroProofs` | lroot-distro's commands on disk |

`Hooks` and `Exec` extend `HostKernel`, which extends `PathTranslation`, as do
`Tracer`, `ProcFiles` and `LaunchOptions`; `Hooks` instantiates `RootView` with
its own variables. `Config` stands alone: it shows that a program's hooks agree on
their configuration, which is why the other modules may take it as constants.
`Exec` models what `Launcher` abstracts, the choice of what is spawned, and takes
the tracer for what it is meant to be (`via = "ptrace"`); `Tracer` shows what
becomes of a program started that way. `Sessions` and `Distro` are separate
programs or libraries that share no state with these.

### Paths

A path is a sequence of *fragments*: the slash, and chunks of bytes that are
never looked into. That keeps what the code distinguishes, byte prefixes that do
not end where a component ends (`/procx` is `<<"/", "proc", "x">>`), and nothing
else. `BufLen` is the size of `TL_BUF` counted in fragments; the comparison
`total >= dst.len()` of the code is `Len(Image(p)) < BufLen`. `Translate(p)`
returns the text and the *place* it is in: the caller's memory or `TL_BUF`.
`FirstBind` is the loop over the binds with both of its `continue`s.

### Hooks

| Variable | Code |
|---|---|
| `tlbuf[t]` | `TL_BUF` of thread `t` |
| `act[t][d]`, `depth[t]` | the frames of hooks on `t`'s stack: a call of the program and, above it, those of signal handlers |
| `act[t][d].ptr` | the pointers prepared so far: into the caller's memory, into `TL_BUF`, or to a buffer on the stack (`save_path`) |
| `fs`, `cwd`, `dir` | the kernel's: files, working directory, and what one directory descriptor is open on |
| `last` | the last finished call and its result |

A hook is `Enter`, then for every argument `TranslateArg` (and `CopyArg`, the
second half of `save_path`) or `PassArg`, then `Syscall`, which dereferences the
pointers and does what `Effect` says: the kernel's part, then the stripping of a
link's text in `do_readlink`. `Modes` says how each of the hooks prepares its arguments and `Sys`
which system call it issues; these two tables are where the fifty functions
differ. `OpenFake` is a hook of open that answers from `try_proc_fake_open`.

`RootView` defines, without buffers and pointers, the host path a guest means by
a path (`Meant`): its own root, the binds compared component by component, the
system directories, and paths of the rootfs in host form for what `getcwd`
returned. `RefinesRootView` says that every behaviour of `Hooks`, with the
preparation steps hidden, is one of `RootView`.

### Exec

| Variable | Code |
|---|---|
| `pc` | where lroot or the hook is: in its search of PATH, among links, at the probe, at the choice, on one of the ways |
| `ptr` | `tpath`: its text, and whether that is the caller's, in `TL_BUF`, in the loop's buffer or in one that is gone ("lost") |
| `turn`, `argv`, `info` | the loop's count, the arguments as `inject_applet` left them, what `read_elf_info` found |
| `image` | the program that runs: its file, the loader in front of it, its arguments, its environment, the library's variant and how it was started |
| `fs` | the host's files; `Relink` is another process that changes a name between two steps, a file turned link included |
| `from`, `began`, `changes` | history: the caller's environment, the files as they were when the call began, and how often they have changed since |

`Launch` is lroot's `main` from `resolve_rootfs` to the spawn, in one step: it
reads the file system and changes nothing. A hook starts with `Call` and one of
the `Enter` actions, goes through `FollowLink`, `LoseBuffer`, `StopFollowing`,
`Probe` (`inject_applet`, `read_elf_info`), `Decide`, and ends on one of the ways
`Ptrace`, `Loader` (`try_rootfs_interp`) and `Kernel` (`raw_execve`). The operators
`Start` and `RunLoader` are the kernel's execve and a dynamic loader; `Hooked`
says when the preload takes effect. What a call means is said without the hooks:
`Meant` follows all links in the guest's root. `native` says of a program that the
kernel can start it; the hooks' own question, `machine == host_arch()`, is
`OfHostArch`: `host_arch` is fixed when the library is built, so in a 64-bit program
it is the 64-bit machine, and a 32-bit program, which the kernel starts as well, is
taken for a foreign one (in a 32-bit program it is the other way round). A loader
that is found under the name a program gives is taken to be of the program's class.
Of lroot's commands `ExecAssumption`
says that the program's name is its first argument, as `main` has them both from
`args.command`.

`Ordinary` lists the calls the properties speak of, for one state of the files,
and `OrdinaryThroughout` asks it of the state the call began in and of the present
one, with one change between them and no name turned into an absolute link. They
leave out what the code does not take on, each of which the model has and TLC would
report: see *further disagreements* below. For lroot's own command they are in
`OrdinaryLaunch`, for a hook's call in `LinksFollowed` and `Ordinary` itself.

### Config

`cell[c]` is a once-cell: empty, being filled by a thread, or full. `frames[t]` is
the stack of hooks thread `t` is in; `Begin`, `Read` and `Fill` are `get_or_init`
with its closure, between whose steps anything may happen. `Setenv`, `Fork` and
`Exec` are the program's.

### /proc and the command line

`ProcFiles` and `LaunchOptions` are operators on sequences of fragments; blanks,
colons and semicolons are fragments. `MapsLine` looks for the first slash at the
start of a field (`FieldStart`) that `Fields` others precede (`FieldsBefore`), which
is what the scanner's state says at a byte; `MountinfoFrom` is `fake_proc_mountinfo`
from each byte on, and `RootfsAt` its test there. `Readings` is how far `parse_args`
is after each argument (`TakeArg`), where `reading` says what the next one is taken
for; `BindReadings` is how far `binds` is after each byte of `LITTLE_BINDS`
(`TakeByte`), and `WithPair` what it does with a pair that is complete. The two loops
and the scanner are recursive functions, over which the proofs can go by induction.

### Tracer

`pc`, `insys`, `detach` and `status` are the tracer's own; `at` is where the
tracee is, `told` whether the present stop has been reported, `ptr` and
`scratch` the tracee's registers and the memory below its stack pointer, where
the tracer writes translated paths. `AtEntry`, `AtExit`, `AtSignal`, `AtDeath` and
`WaitFails` are the branches of `ptrace_loop`, the last two also those of
`wait_and_exit`, and `FirstStop`, `FirstDeath` and `WaitFails` the outcomes of the
first wait. `end` is how the tracee ended, as waitpid reports it, `status` how the
tracer did; `AsShell` is the conversion between them. `TracerOver` is what the
kernel does when a tracer ends: a tracee with `PTRACE_O_EXITKILL` (`Options`) is
killed, another goes on untraced. `TracerKilled` is a signal that ends the tracer;
`WaitFails` is waitpid interrupted by a handler the program had installed (EINTR) or
left without a child (ECHILD). `handle_ptrace_syscall` is part of `AtEntry`
(`Rewriting`, `LetGo`). The constant `Hooked` says whether `libc::ptrace` is the library's own
hook: `TRUE` is the build, `FALSE` the loop as it is written.

### Launcher, Sessions, Distro

`Launcher` has one action per statement of `main` that signals can fall between,
and the handler as an action that is always enabled. The five signals lroot catches
are `Caught`; any other of `Fatal` ends it where it is (`felled`), with the guest
alive, as the death signal of `install_signal_handlers` is set on lroot itself.
`Sessions` splits
`close_session` at `waitpid`; while a call waits the manager is borrowed and
nothing else is called. A descriptor counts as open where the code owns it
(`fds`), where a client got a duplicate (`dups`) and in every shell that
inherited it. `Distro` splits each command where a process can be killed or
overtaken: the check, the creation of the directory, the download, each entry
deleted, and each file unpacked, in as many steps as tar takes: it creates the file
(`Extract`) or, if there is one, removes it (`Replace`) and creates it anew
(`Recreate`, which fails if another has come in between), and then writes it
(`Write`). `tree[d][e]` is "absent", "whole" or the process that has written a part
of it; one that wrote to a file another has removed has written to nothing.
`Download` is curl without `--fail`: the tarball, a failure, a page that is no
archive, or nothing at all, which unpacks to nothing and is reported as success.

## 3. What is checked

### Runs that pass

| Run | Instance | Shows |
|---|---|---|
| `paths` | 9 fragments, all paths up to length 5, four binds, buffer of 7; command lines of up to 5 of 8 arguments | translation is idempotent, readlink undoes it, `save_path` never returns the shared buffer, the library's translator agrees with the hooks', a name below a directory goes below its translation; the scanners of /proc cut alike, cut nothing else, and what they show leads back; binds arrive, the command is left alone |
| `hooks_race` | two threads, five calls, handlers above them, a path one fragment too long | pointers stay intact, each call acts at once on the translations of its own arguments (`CallsActAtOnce`); refinement of `RootView` |
| `hooks_kinds` | one thread, 20 calls of every kind, a bound directory | confinement, `getcwd` round trip, refinement |
| `tracer` | two calls out of fourteen, two signals, the tracer's end at any point | count, translation, that every stop is answered, and that the tracer passes for its program (`PassesForProgram`) |
| `exec` | programs of twelve sorts, two of them of 32 bits, twelve commands and 30 calls, links of every sort, one name changed by another process at any step | what runs is what was meant, with its arguments, under lroot's eyes and with the rootfs's loader; a call fails only for a cause and always ends |
| `config` | two threads, three events (a handler, a change of the environment, fork, execve) | one configuration per program; only two named waits last for ever |
| `sessions` | three ptys, three ids | pids and descriptors are accounted for; closing returns; nobody is left behind |
| `distro` | two processes, four commands, three distributions | at rest only a broken-off command, or a removal beside another command, leaves a part, although installations replace one another's files; success means whole unless another has a file in hand; only then is a part taken for the whole |
| `launcher` | two exit codes, three signals, of a kind that is caught and one that is not | lroot outlives its guest if it catches what it is sent, hides no failure, stops when told |

Why the bounds suffice:

- *Paths.* Translation compares prefixes (rootfs two fragments, host directories
  and binds two to four), so paths of five fragments reach every prefix, its
  end, one component more, and the same glued to another chunk. The buffer of
  seven has no room for the image of a path of five, so overlong paths occur.
  Of each bind the source, or else the destination, is let through
  (`BindsSettled`), as idempotence needs; the second is hidden behind the first, the
  third behind a host directory, and the fourth begins below a directory that is
  translated itself.
- *Hooks.* `TL_BUF` is per thread and holds one path: two threads
  and one handler above each are all that can meet in it; the proof removes the
  bound. The long path has an image of exactly the buffer's size. The kernel's objects are one directory and two names inside
  and outside the rootfs, a link, a bound directory and two files of /proc; a
  call that lands on the wrong side finds another file there. The calls in one
  run are limited, not their number: the runs exhaust all states.
- *Tracer.* Stops alternate, so a lost count shows with the second call at the
  latest; two signals allow one in each of two successive stops, or both in one.
  The proofs remove both bounds.
- *Scanners and options.* The number of fields before a path in maps is a
  constant, 1 in the run and 5 in the code: the scanner only counts up to it, and
  with one too few already the field before the path is cut. Five arguments are an
  option with its value, `--`, the rootfs and one argument of the command.
- *Exec.* The loop follows three links instead of 16 and the kernel five instead
  of 40: a chain of three leads on by just as many as the loop takes, a circle
  exceeds both. lroot's commands are by path, by name and by a path of its own
  directory, through links that are absolute, relative and both in turn, to programs
  whose loader the host has and lacks, and through one link that leads to a program of
  the same name elsewhere. One change by another process suffices for every two-step race, as
  each step looks once. Between two calls only `image`, the files and the count of
  changes remain, so the run covers sequences of any length.
- *Config.* A handler above a call (`MaxNested` 2) meets each cell empty, being
  filled and full; three events allow one of each kind of surprise in a row.
- *Sessions.* Three shells allow a chain of inherited masters.
- *Distro.* Two entries of a tree distinguish none, some and all, and a process is
  at most at one of them. Two processes have every file removed, created or written
  by one between any two steps of the other; the proofs remove the bound. `spoiled`
  and `mixed` are history variables, for the properties alone.
- *Launcher.* Three signals: one before the child is known, one that it ignores
  being told twice, one afterwards; of those that are caught one stands for all, as
  one does for those that are not.

`CHECK_DEADLOCK FALSE` stands where the system may stop: the guest and its
commands are bounded, the App may be dropped, the process may have exited.

### Runs that end in a violation

Each confronts one sentence of the documentation or of a comment with the code.

| Run | Sentence | What the code does |
|---|---|---|
| `doc_save_path` | `lib.rs:238-240` | a signal handler can change what is being saved |
| `doc_qemu` | `README.md:54-55` | a foreign program fails to start although a QEMU was named |
| `doc_ptrace_fallback` | `README.md:63-64` | the tracer's ptrace is the hook that refuses; the tracee never runs |

Further disagreements that the modules reproduce, and that have no run. Of paths:

- A relative path passes a bind by (`lib.rs:150`), against `main.rs:144-145`, and an
  absolute link's target is stored as the guest wrote it (`lib.rs:1240`) and followed
  on the host, against `main.rs:135` (`Translate`, `Modes`, `KernelText`).
- `README.md:50-51` names /proc, /sys, /dev as what is left alone; `translate`
  compares byte prefixes (`lib.rs:154-161`) and also leaves `/procx` and siblings
  of the rootfs alone (`PassesThrough`).
- `readlinkat` with a directory descriptor does not translate an absolute path
  (`lib.rs:1454`), against `main.rs:133-134` (`Modes`).
- In a directory reached through a bind, the host path `getcwd` returns is
  translated to one below the rootfs when it is handed back, against
  `main.rs:144-145` (`CwdSurvives`, with a bind outside the rootfs).
- A bind whose guest path ends in a slash is never matched, one with a semicolon in
  it becomes another (`lib.rs:71-80`), and an inner lroot without binds inherits the
  outer one's (`main.rs:424`; `FirstBind`, `BindsArrive`, `BindsVar`).

Of /proc (against `README.md:59-60`):

- `open64` does not ask for made-up files (`lib.rs:972`; `FakingHooks`).
- maps and mountinfo show what lies outside the rootfs as the host has it; mounts
  is answered in mountinfo's format; in maps a path ends at its first blank, so
  that a file of the host whose name begins with the rootfs's and a blank is shown
  as another (`MapsLine`); cmdline shows the loader first where the rootfs's loader
  was run (`Cmdline`, and `image.loader` of `Exec`).

Of programs (against `main.rs:133-135`, `lib.rs:1911` and the comment at
`lib.rs:1927`):

- execve follows absolute links only: a relative one that leads on absolutely is
  followed on the host (`Linked`), as is everything after the sixteenth link, and a
  link whose target needs no translation, such as /proc/self/exe's, is read from a
  buffer that is gone (`LoseBuffer`).
- The interpreter of a script is looked for on the host (`Start`), and lroot itself
  looks for its first program there when the host has that program's loader (it
  then spawns `prog` and not `real_prog`, `main.rs:393`) or when it was given a bare
  name (`Spawned`).
- `inject_applet` adds a name for every program found under another one, and only
  the way by the rootfs's loader takes one off again: others get an argument too
  many (`WithApplet`, `NamesFit`). That way also replaces argv[0] by the host's
  path. lroot's own rule is another (`LaunchArgs`): any difference of `prog` and
  `real_prog`, even with the same last component: a program that reads its name gets
  it twice when a link leads to one of that name elsewhere.
- lroot, given a bare name, reads a link of that name in its own directory and takes
  the library for what it finds there (`ResolveRootfs`, `ElfInterp`), or the default
  one; and in PATH it passes over a program that cannot be started, where the guest's
  own search ends (`Spawned`). A link with a slash behind its name it does not follow.
- `execvp` looks for its candidates on the host, hands on no environment and
  translates a path twice; `execveat` never uses the rootfs's loader.
- A failed execve on the ptrace way ends the caller (`lib.rs:2802`).
- A program of the other class than the library's is taken for one of another
  machine (`lib.rs:1938`, `2118`): on a 64-bit host a 32-bit program goes to the
  kernel, which starts it. If it is static or setuid it runs untraced; if it is
  dynamic, with the host's loader, or not at all where the host has none; and in
  either case without the library (`OfHostArch`, excepted in `Watched` and
  `OwnLoader`; `/t` and `/n` in the run).
- lroot puts the rootfs in front of its command's absolute path and of the links it
  follows (`main.rs:308-332`): binds and paths in host form mean nothing there.
- A candidate of `execvp` that is a directory counts as found, and one that the host
  and the guest find differently is taken as the host finds it (`FoundAlike`).
  `execveat` with a relative path follows no absolute link at all.
- A script whose interpreter is static or setuid is started by the kernel's way, so
  that this interpreter runs unwatched (`Watched` asks that the program is the file
  its path leads to).
- execve follows links by reading them, and the kernel walks the result once more: a
  name that becomes an absolute link in between is followed on the host
  (`AbsLinkMade`), and after two changes the way may be one there was at no moment.
  The kernel looks for the interpreter only when the program is started: one change
  of a link that is on both ways may end a call that could always have been made
  (`InterpreterStays`; `/y` in the run).

Of the tracer: renameat2 is treated as a call with one path, so that its second one
is not translated (`lib.rs:2585-2600`, number 276). waitpid is not called again when
it fails (`lib.rs:2690`, `2726`): a handler that interrupts it ends the tracer with
status 1. In the loop the program is killed with it; before its first stop and after
the tracer has let go it lives on without a parent that reports it, and its success
is lost.

Of lroot: a signal it does not catch (`main.rs:288-294`), SIGKILL or SIGUSR1, leaves
the guest behind (`NotOutlived`, `felled`); one it catches before CHILD_PID is stored
is swallowed (`main.rs:275-282`, `458`).

Of sessions: `create_session` starts every shell with `-i` (`pty.rs:79`), interactive
shells ignore SIGTERM, and `close_session` waits for the shell while it holds its
terminal open: with such a shell it never returns (`CloseReturns` speaks of shells
that obey).

Of lroot-distro: part of a distribution counts as installed (`InstallCheck`,
against `lroot-distro/src/main.rs:28-29`), and a known distribution is offered as
`.tar.xz` (`distro.rs:19-22`), which `extract_tarball` refuses
(`lroot-distro/src/main.rs:165`; `Xz` and `Download`). curl is run without `--fail`
(`lroot-distro/src/main.rs:144-145`): of an empty answer success is reported. Two
installations at a time are not kept apart: one may report success while the other
has just removed a file, and one fails where the other was quicker (`InHand`,
`Recreate`); in the end the tree is whole.

`hooks_kinds` contains none of the calls these are about: what it shows holds for
programs that do not meet them; `exec` makes those calls and excepts them in
`Ordinary`, `NamesFit` and the hypotheses of `Watched`. The run `tracer` describes the
loop with `Hooked = FALSE`, that is, what the code would do once its requests
were issued directly; what it does today is the violated run.

### Fairness

Safety runs need none. `Tracer`: the tracer's thread runs (it does nothing but
wait and answer); the child gets from fork to its execve; a tracee takes its
signals. What the guest does is not assumed. `Sessions`: a wait that can return
does (`FinishClose`); a shell that obeys SIGTERM and was sent it, or whose
terminal nobody holds open any more, ends. Nothing is assumed of clients, and a
shell may run for ever otherwise. `Launcher`: its main thread runs and the
kernel delivers what was sent; the guest need not ever end. In all three the
assumption is the operating system's scheduling, which the code relies on by
blocking in `waitpid`. `Exec`: a call that has begun goes on; that any program makes
one is not assumed, and other processes change a name at most `MaxRelinks` times.
`Config`: every thread goes on with the call it is in; signals are bounded by
`MaxEvents`, for a thread that is interrupted for ever gets nowhere.

## 4. What is proved

All theorems are checked by TLAPS, for every value of the constants that the
modules' assumptions admit: any number of threads, sessions, processes and signals,
any paths, rootfs, binds and buffer size. Each is laid out alike: an inductive
invariant that is a conjunction of named parts, one lemma or step per action, one
step under it per part the action can disturb, and the property at the end. The
invariants hold on the instances of the runs as well.

**Translation** (`PathTranslationProofs`, `TranslationsProofs`). Six theorems about
the operators, and all ten invariants of `Translations`, whose states are all paths
and all command lines. They rest on lemmas about prefixes that the community
operators lack (`PrefixByIndex`, `PrefixOfConcat`, `DropOfConcat`).

- `TranslationIsIdempotent` under `BindsSettled`: of every bind the source, or else
  the destination, is let through. Otherwise it is false: the source, translated
  again, goes below the rootfs.
- `StripUndoesTranslate` for every path no bind applies to; `do_readlink` knows
  nothing of binds and gives the host path of a bound one.
- `SavePathIsPrivate`: the two buffers have the same size, so that `save_path`'s
  fallback is only reached with the caller's own pointer.
- `TranslationDescends`: a name below a directory goes below the directory's
  translation, if no other place begins in between and it fits.
- `TheTranslatorsAgree`, under `MappedAssumption` (a path of the runner's table is
  absolute and not mixed up with a host directory), and `AlwaysLeadsBack`, what
  /proc/self/maps shows.
- `AlwaysKeepShape` and `AlwaysAgreeInProc`, of the scanners of maps, cmdline and
  mountinfo and of readlink, for texts of any length. The first assumes
  `Blankless(Rootfs)`: a rootfs with a blank in its name could begin in one field of
  mountinfo and end in the next, and the code, which compares bytes, would cut it out
  of both. What precedes a byte enters `MountinfoFrom` only by whether a field begins
  there, so that a text's scan is that of its fields, one by one.
- `AlwaysUntouched`, for command lines of any length: `parse_args` reads the command
  from the first positional argument after the rootfs on, and whatever follows
  changes nothing but the command. `AlwaysIntact`, for binds of any number and
  length: what `LITTLE_BINDS` says is read back pair by pair as it was joined.

These four are inductions over data. The values of the recursive functions are fixed
by their defining equations, whose unique solution is shown to exist by induction on
the domain; and each induction is one over a *set* of numbers (`SetInduction`, and
`BackwardInduction` for the scanner, which recurs to the end of the text): with the
set of those numbers for which the claim holds, no theorem with an operator as its
parameter is needed.

**Hooks** (`HooksProofs`). The invariant is `TypeOK`, `PointersIntact` and
`PointerDiscipline`. `PointersIntact` is not inductive: where an older pointer leads
into `TL_BUF`, with the right text by chance, the next translation spoils it.
`PointerDiscipline` excludes that: only the interrupted call itself (depth 1) holds a
pointer into `TL_BUF`, only its newest, and only one that is about to be copied or is
the call's last argument. So `TranslateArg` overwrites nothing that is still in use,
because by the shape of `Modes` a "translate" argument is a hook's last.

- `TypeCorrect` needs nothing. `PointersStayIntact` and `HooksActAtOnce` need
  `QuietHandlers`: no handlers, or handlers whose arguments need no translation. The
  run `doc_save_path` shows that they are false otherwise.
- `HooksConfined`: nothing outside the guest's part changes. To the invariant comes
  `Housed(G)`: the directories the guest is in, has open or finds through links are
  in a set `G` that is `Closed` under its moves. The hypotheses are what the code does
  not see to: absolute rootfs and binds without slashes at their ends (`TidyMounts`),
  arguments that fit and do not merely share a host directory's first bytes, links
  that lead inside.
- `CwdIsNeverRewritten`: the same with `G` the paths `translate` lets through.
- `HooksImplementView`: the refinement of `RootView`, step by step: preparation
  steps stutter, `Syscall` is the abstract call. It asks path by path that the text
  the kernel gets and what the guest means name the same (`SamePlaces`), that links
  read alike (`SameLinks`) and that both know the same calls (`SameCalls`).
  `AbsolutePathsAreMeant` and `RelativePathsAreMeant` provide this for plain paths,
  and `PlainCallsImplementView` puts them together: its conditions are on the calls
  alone.

The hypotheses of these theorems are no assumptions of the module; they hold for the
calls of `hooks_kinds`, and `QuietHandlers` for those of `hooks_race`.

**Exec** (`ExecProofs`). Everything the run `exec` asks of a state is proved, for
any programs, files, links, search path, commands and calls, with another process
changing names at any moment. Three invariants about hooks build on one another, and
a fourth is about lroot's own call.

- `ExecTyped`: types, among them that a hook which tries a way has read an ELF file
  and has a non-empty argument vector.
- `WatchInv` (`WatchInvariant`): what the hook knows still holds as long as nobody
  has changed a file. At "decide" and on the ways, `info` is the ELF file its path
  leads to; the loader's way is only taken by a dynamic program; and on the kernel's
  way a program for the library's machine that can be started is dynamic, without
  the setuid bit, if the environment is passed on (`Sighted`), which is the one the
  call began with (`Origin`). `HooksKeepWatch` is `Watched` for hooks.
- `MeantInv` (`MeantInvariant`): how far the hook has come. Of one file system, the
  one the call began with or the present one, it is on the guest's way (`Follows`):
  after `turn` links its path is there (`Along`), what lies ahead is still as in that
  file system, all behind it were absolute links, and once it has left the loop there
  is no absolute link before it, so that host and guest go on alike
  (`HopAlike`, `IterationsMeet`, `KernelGoesOn`). When a name changes
  (`ChangeAlong`), either it is not ahead, and the old way holds, or it is ahead; then
  it is not behind, since a way that comes to its end never comes back to where it
  was (`NoReturn`), and the hook is as far along the new one. This is why one
  change is harmless and a second need not be.
- `EndInv` (`EndInvariant`): the arguments are those given or have the asked name in
  front (`Worded`), and execve leaves a program for the machine of its library to the
  kernel only if it needs no loader or the rootfs has none (`OwnWay`).
- `LaunchInv` (`LaunchInvariant`): lroot's call, one step. `resolve_rootfs` and the
  guest go side by side (`IterationsPair`): at each link lroot's path, seen from its
  directory, is where the guest is (`Stands`, `HopLaunches`), although lroot joins a
  relative link to the text before the last slash and keeps a relative path relative,
  and the guest's way is in absolute paths (`ParentAlike`). It ends on the same file,
  having followed all links or none before an absolute one (`LaunchFinds`); so the
  library and the loader are chosen by the program that is then started
  (`PathRight`). Of a name, the first directory in which the guest has it is the
  first in which lroot can start it (`BareRight`). What lroot puts before the
  arguments the program takes away (`LaunchArguments`).

`MeantProgramRuns` (`RunsMeant`), `CallsFailForCause` (`FailsOnlyForCause`),
`ArgumentsPass` (`ArgsArrive`), `ProgramsWatched` (`Watched`) and `OwnLoaderRuns`
(`OwnLoader`) put them together.

All but `ExecTyped` and `HooksKeepWatch`, which assume nothing, assume
`AbsoluteRoots`: the rootfs and the sources of binds are absolute. lroot does not see
to it (it passes a relative rootfs on as it is); were one relative, a link's
translation would be looked up from the working directory. The induction along a way
is not over a theorem with an operator parameter: it is one over a set of numbers
(`SetInduction`), or a least counterexample is taken from the well-foundedness of the
naturals (`WFMin`).

**Tracer** (`TracerProofs`). `TracerCounts` and `TracerPasses` follow from
`Control`, which needs no assumption about paths: how the tracee is traced goes with
how far the tracer is (`Modes`), until its first execve the child has a SIGTRAP
before it (`Before`), and only a program that was started ends with success (`Ends`).
`TracerPasses` is about each way in which the tracer may end: in the loop the tracee
is dead already or has `PTRACE_O_EXITKILL` set. `TracerTranslates` adds `Data`: at an entry the paths are as
the program made them or as the tracer left them (`AsMade`, `AsRewritten`), and the
latter while the kernel acts, a repeated call included, since what was rewritten
would not be rewritten again. It assumes `BindsSettled`, and a descriptor's directory
that is let through.

**Launcher, Sessions** (`RunnerProofs`). `LauncherOutlives` and `LauncherReports`
from `LauncherTyped`, `Stages` (where main is says whether there is a guest, and a
signal ends lroot only before its handlers are installed or if it is not among
`Caught`) and `Results` (what lroot will report, and its guest's end). `SessionsSignalTheirOwn` and
`SessionsKeepMasters` from `Ids`, `Distinct` (a pty is of one session, or of the one
being closed) and `Children` (each session's shell runs or is a zombie).

**Distro** (`DistroProofs`). `DistroAllOrNothing`, `DistroInstallsWhole` and
`DistroTakesWhole` from `Owned` (a file that is there in part is the one its writer is
at), `Unpacked` (what an installation is done with, `Past`, is there, or another has
removed it and is about to create it, `Covered`, unless a removal met it), `Met`,
`InDirs` and `Settled` (a distribution is in between only while a process is at it
that will not fail because another was quicker, `Live`, or since somebody broke off).

**Config** (`ConfigProofs`). `ConfigIsOne` from `Marked` and `Exclusive` (a cell that
is being filled is marked, and filled by one call), `Fresh` (a variable nobody
touched is, in the environment, in a call's hands or in its cell, what it was) and
`Kept` (what has been seen is in the cell, for good).

Attempts that failed have corrected the model: `Descends` named too few
places that may begin on the way; a `CASE` without a default arm had no value where
the code has one; `Exec`'s properties named too few of the things the code does not
take on (a second change, a name turned link, the interpreter of a script, candidates
that are directories); lroot's own resolution of links was not distinguished from the
hooks'; and joining a name to the root doubled its slash. `FailsOnlyForCause` lacked
`InterpreterStays`: where one link is on a program's way and on that of the
interpreter it names, one change may leave the hook with the old program and the
new, missing interpreter, although at either moment there was a program to start. The
run had no such link; it has one now (`/y`), and without the condition it fails.
The proof for lroot's own command found four more conditions that the run had not
missed: links with a slash at their end, a program's second name where a link leads to
the same one elsewhere (`/h/b` in the run now), a link of a bare name in lroot's own
directory, and candidates of PATH that are found but cannot be started. On the other
hand `Ordinary` had asked more of its links than was needed: unlike a hook, lroot
follows relative ones.

Only model-checked:

- Liveness (`FallbackRuns`, `CloseReturns`, `NobodyLeftBehind`, `StopsWhenTold`,
  `CallEnds`, `CallsEnd`), for the prover has no rule for fairness here.

Every invariant and every other action property that a passing run checks is stated
by a theorem.

## 5. What is not modelled

- In the hooks: `..` components, links to links, the renaming and removal of
  directories with something in them, descriptors other than one directory's,
  the descriptor juggling of `freopen` after its open, flags of `renameat2`
  (which the code drops). `capget` and the mount hooks do nothing with paths that
  other hooks do not.
- In the tracer: where both paths of linkat or renameat are rewritten the second is
  written over the first; the property excepts that first path (`BothRewritten`).
  Not there: handlers of the tracee, whose frames overwrite the scratch area, and children
  of the tracee, which are not traced; the system call numbers, which are those
  of aarch64 on every architecture.
- In the exec hooks: execveat's descriptor and flags (a relative path is passed on
  as it is and read from the working directory); signal handlers between the steps,
  which `Hooks` has for `TL_BUF`; the branch that would run QEMU, which is never
  reached; buffers too small for the arguments.
- In the launcher: `-w`, `-i` and the directories in which the library is looked
  for; -q, -k, -0 are variables of the environment, of which `Exec` keeps only
  those it tells apart.
- In the configuration: the data race of `setenv` against `getenv` (a read gets
  the old value or the new one); poisoned cells, as no closure panics.
- In /proc: the constant texts, `status` and `version`, and the pipe or memory file
  the text is put into.
- Fake identities, uname, capget, mount, chroot: constant answers, nothing that
  states of a model would tell apart.
- `intercept::Manager` beyond its translator, for want of a caller, and the library's
  errors, which only convert and format.
- The host outside: other processes that change the rootfs, errors of the
  kernel other than those of the path itself.

## 6. Plan

Written, in this order: `PathTranslation`, `HostKernel`, `RootView` and `Hooks`
(the reason for the program to exist), the processes around it, `Sessions`,
`Distro`, `Launcher`, `Tracer`, the first proofs; then `Exec`, `ProcFiles`,
`LaunchOptions` and `Config`; then the proofs of every component's safety, of the
scanners and options, and of what lroot itself starts.

Left, for the models: tracees with handlers and nested execution, renameat2's flags,
freopen's descriptors, a relative rootfs with the guest's first directory (`-w`).
