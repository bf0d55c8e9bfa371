---------------------------- MODULE Translations ----------------------------
(***************************************************************************)
(* What PathTranslation, ProcFiles and LaunchOptions promise of each path  *)
(* and each command line, as invariants of a system that either makes a    *)
(* path longer, and comes by every path of up to MaxLen of the Letters, or *)
(* a command line, and comes by every one of up to MaxArgs of the          *)
(* Arguments.                                                              *)
(***************************************************************************)
EXTENDS ProcFiles, LaunchOptions

CONSTANTS
    Letters,     \* the fragments the paths are made of
    MaxLen,      \* bound: the longest path tried, in fragments
    Arguments,   \* the arguments the command lines are made of
    MaxArgs,     \* bound: the longest command line tried, in arguments
    Tails,       \* what follows the name of a directory
    Before,      \* what stands before a path in a line of maps
    After,       \* what stands after one there, or in mountinfo
    OtherBinds,  \* the options of binds given beside a path
    Inherited    \* what LITTLE_BINDS was before

ASSUME TrialsAssumption ==
    /\ Letters \subseteq Fragment /\ MaxLen \in Nat
    /\ Arguments \subseteq Path /\ MaxArgs \in Nat
    /\ Tails \cup Before \cup After \cup OtherBinds \cup {Inherited} \subseteq Path

VARIABLES path, args

Init == path = <<>> /\ args = <<>>
GrowPath == /\ args = <<>> /\ Len(path) < MaxLen
            /\ \E f \in Letters : path' = Append(path, f)
            /\ UNCHANGED args
GrowArgs == /\ path = <<>> /\ Len(args) < MaxArgs
            /\ \E a \in Arguments : args' = Append(args, a)
            /\ UNCHANGED path
Next == GrowPath \/ GrowArgs
Spec == Init /\ [][Next]_<<path, args>>

\* A second translation changes nothing (translate, lib.rs:154-158).
TranslateIdempotent == Idempotent(path)

\* do_readlink undoes translate on every path translate put under the
\* rootfs (lib.rs:1262-1272).
ReadlinkRoundTrip == RoundTrip(path)

\* The translation of a name below a directory lies below the directory's,
\* unless the rootfs, a host directory or a bind begins between the two
\* (lib.rs:154-223).
TranslateDescends == \A q \in Tails : Descends(path, q)

\* save_path never returns a pointer into TL_BUF, its fallback included
\* (lib.rs:245-256).
SaveNeverShared == SavedIsPrivate(path)

\* The library's PathTranslator and the hooks send a path to the same place
\* (intercept/mod.rs:36-51).
TranslatorsAgree == TableAgrees(path)

\* What /proc shows the guest of the rootfs leads the guest there (lib.rs:693-
\* 704, 816-829).
ProcLeadsBack == ShownLeadsBack(path)

\* The scanners of maps and mountinfo rewrite each path where it stands and
\* nothing else (lib.rs:656-712, 873-901).
ScannersKeepShape ==
    /\ \A t \in After : ShowsEachField(path \o t)
    /\ \A b \in Before, t \in After : ShowsOnlyThePath(b, path, t)

\* Four scanners written apart hide the rootfs in the same way (lib.rs:693-704,
\* 816-829, 876-896, 1262-1272).
ScannersAgree == \A b \in Before : ReadersAgree(b, path)

\* Whatever the command's own options are, lroot does not take them for its
\* (parse_args, main.rs:195-260).
CommandUntouched == CommandIsRest(args)

\* Binds reach the library as they were given, whatever colons are in them
\* (main.rs:244-248, 424-430; lib.rs:71-80).
BindsIntact ==
    \A b \in OtherBinds, c \in OtherBinds :
        /\ BindsArrive(<<path>>, Inherited)
        /\ BindsArrive(<<path, b>>, Inherited)
        /\ BindsArrive(<<b, path, c>>, Inherited)
=============================================================================
