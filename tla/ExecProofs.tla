----------------------------- MODULE ExecProofs -----------------------------
(***************************************************************************)
(* Theorems about Exec, for any programs, calls, file systems, links and   *)
(* search paths, with other processes changing names at any moment.        *)
(***************************************************************************)
EXTENDS Exec, PathTranslationProofs

(***************************************************************************)
(* Iteration.  Walk and ResolveRootfs apply a function a number of times.  *)
(* What they come to takes induction (SetInduction).                       *)
(***************************************************************************)

\* g is p, H of p, H of that, and so on, N times.
Iteration(g, N, p, H) == g = [n \in 0..N |-> IF n = 0 THEN p ELSE H[g[n - 1]]]

LEMMA IterationSteps ==
    ASSUME NEW N \in Nat, NEW p, NEW H, NEW g, Iteration(g, N, p, H)
    PROVE  /\ g[0] = p
           /\ \A n \in 0..N : n # N => g[n + 1] = H[g[n]]
<1>1. g = [n \in 0..N |-> IF n = 0 THEN p ELSE H[g[n - 1]]]
    BY DEF Iteration
<1>2. \A n \in 0..N : g[n] = IF n = 0 THEN p ELSE H[g[n - 1]]
    BY <1>1
<1>3. ASSUME NEW n \in 0..N, n # N
      PROVE  g[n + 1] = H[g[n]]
    <2>1. n + 1 \in 0..N /\ n + 1 # 0 /\ (n + 1) - 1 = n
        BY <1>3
    <2>2. QED BY <1>2, <2>1
<1>4. g[0] = p
    BY <1>2
<1>5. QED BY <1>3, <1>4

LEMMA Iterates ==
    ASSUME NEW N \in Nat, NEW p, NEW H
    PROVE  \E g : Iteration(g, N, p, H)
<1> DEFINE T == {k \in Nat : \E g : Iteration(g, k, p, H)}
<1>1. 0 \in T
    <2> DEFINE g == [n \in 0..0 |-> p]
    <2>1. g = [n \in 0..0 |-> IF n = 0 THEN p ELSE H[g[n - 1]]]
        OBVIOUS
    <2> HIDE DEF g
    <2>2. Iteration(g, 0, p, H)
        BY <2>1 DEF Iteration
    <2>3. QED BY <2>2
<1>2. \A k \in Nat : k \in T => k + 1 \in T
    <2> SUFFICES ASSUME NEW k \in Nat, k \in T PROVE k + 1 \in T
        OBVIOUS
    <2>1. PICK g : Iteration(g, k, p, H)
        OBVIOUS
    <2> DEFINE h == [n \in 0..k + 1 |-> IF n = k + 1 THEN H[g[k]] ELSE g[n]]
    <2>2. \A n \in 0..k + 1 : h[n] = IF n = 0 THEN p ELSE H[h[n - 1]]
        <3> SUFFICES ASSUME NEW n \in 0..k + 1
                     PROVE  h[n] = IF n = 0 THEN p ELSE H[h[n - 1]]
            OBVIOUS
        <3>1. CASE n = k + 1
            <4>1. h[n] = H[g[k]] /\ h[n - 1] = g[k]
                BY <3>1
            <4>2. QED BY <3>1, <4>1
        <3>2. CASE n \in 0..k
            <4>1. h[n] = g[n] /\ g[n] = IF n = 0 THEN p ELSE H[g[n - 1]]
                BY <2>1, <3>2 DEF Iteration
            <4>2. n # 0 => h[n - 1] = g[n - 1]
                BY <3>2
            <4>3. QED BY <4>1, <4>2
        <3>3. QED BY <3>1, <3>2
    <2>3. h = [n \in 0..k + 1 |-> IF n = 0 THEN p ELSE H[h[n - 1]]]
        BY <2>2
    <2> HIDE DEF h
    <2>4. Iteration(h, k + 1, p, H)
        BY <2>3 DEF Iteration
    <2>5. QED BY <2>4
<1> HIDE DEF T
<1>3. N \in T
    BY <1>1, <1>2, SetInduction
<1>4. QED BY <1>3 DEF T

\* What holds first and is kept by H holds all the way.
LEMMA IterationStays ==
    ASSUME NEW N \in Nat, NEW p, NEW H, NEW g, Iteration(g, N, p, H),
           NEW S, p \in S, \A x \in S : H[x] \in S
    PROVE  \A n \in 0..N : g[n] \in S
<1> DEFINE T == {n \in Nat : n <= N => g[n] \in S}
<1>1. 0 \in T
    BY IterationSteps
<1>2. \A n \in Nat : n \in T => n + 1 \in T
    <2> SUFFICES ASSUME NEW n \in Nat, n \in T, n + 1 <= N PROVE g[n + 1] \in S
        OBVIOUS
    <2>1. n \in 0..N /\ n # N /\ g[n] \in S
        OBVIOUS
    <2>2. g[n + 1] = H[g[n]]
        BY <2>1, IterationSteps
    <2>3. QED BY <2>1, <2>2
<1> HIDE DEF T
<1>3. Nat \subseteq T
    BY <1>1, <1>2, SetInduction
<1>4. QED BY <1>3 DEF T

(***************************************************************************)
(* Paths and walks                                                         *)
(***************************************************************************)

LEMMA CleanTyped ==
    ASSUME NEW p \in Path
    PROVE  Clean(p) \in Path
<1>1. Len(p) \in Nat
    BY LenProperties DEF Path
<1>2. CASE Len(p) > 1
    <2>1. \A i \in 1..(Len(p) - 1) : p[i] \in Fragment
        BY <1>1, ElementOfSeq DEF Path
    <2>2. 1 \in Int /\ Len(p) - 1 \in Int /\ 1 <= (Len(p) - 1) + 1
        BY <1>1, <1>2
    <2>3. SubSeq(p, 1, Len(p) - 1) \in Path
        BY <1>1, <1>2, <2>1, <2>2, SubSeqProperties DEF Path
    <2>4. QED BY <2>3 DEF Clean, Front
<1>3. CASE ~(Len(p) > 1)
    BY <1>3 DEF Clean
<1>4. QED BY <1>2, <1>3

LEMMA JoinIsPath ==
    ASSUME NEW d \in Path, NEW p \in Path
    PROVE  Join(d, p) \in Path
<1>1. <<Slash>> \in Path
    BY PathAssumption DEF Path
<1>2. d \o p \in Path
    BY ConcatProperties DEF Path
<1>3. (d \o <<Slash>>) \o p \in Path
    <2>1. d \o <<Slash>> \in Path
        BY <1>1, ConcatProperties DEF Path
    <2>2. QED BY <2>1, ConcatProperties DEF Path
<1>4. QED BY <1>2, <1>3 DEF Join

LEMMA ResolveTyped ==
    ASSUME NEW d \in Path, NEW p \in Path
    PROVE  Resolve(d, p) \in Path /\ Resolved[d][p] = Resolve(d, p)
<1>1. Join(d, p) \in Path
    BY JoinIsPath
<1>2. Resolve(d, p) \in Path
    BY <1>1, CleanTyped DEF Resolve
<1>3. QED BY <1>2 DEF Resolved

LEMMA TranslatedTyped ==
    ASSUME NEW p \in Path
    PROVE  /\ Translated[p] = Translate(p)
           /\ Translated[p] \in [place : {"caller", "tlbuf"}, path : Path]
<1>1. Translated[p] = Translate(p)
    BY DEF Translated
<1>2. Image(p) \in Path
    BY ImageTyped
<1>3. QED BY <1>1, <1>2 DEF Translate

LEMMA ParentTyped ==
    ASSUME NEW p \in Path
    PROVE  Parent(p) \in Path
<1> DEFINE last == {i \in 1..Len(p) : p[i] = Slash /\ \A j \in (i + 1)..Len(p) : p[j] # Slash}
<1>1. Len(p) \in Nat /\ <<>> \in Path
    BY LenProperties, EmptySeq DEF Path
<1>2. ASSUME NEW i \in 1..Len(p)
      PROVE  SubSeq(p, 1, i - 1) \in Path
    <2>1. \A j \in 1..(i - 1) : p[j] \in Fragment
        BY <1>1, ElementOfSeq DEF Path
    <2>2. 1 \in Int /\ i - 1 \in Int /\ 1 <= (i - 1) + 1 /\ i - 1 <= Len(p)
        BY <1>1
    <2>3. QED BY <1>1, <2>1, <2>2, SubSeqProperties DEF Path
<1>3. last # {} => (CHOOSE i \in last : TRUE) \in 1..Len(p)
    OBVIOUS
<1>4. QED BY <1>1, <1>2, <1>3 DEF Parent

LEMMA NodeAtTyped ==
    ASSUME NEW f \in [Names -> Node], NEW p \in Path
    PROVE  /\ NodeAt(f)[p] = At(f, p) /\ At(f, p) \in Node
           /\ At(f, p).kind = "link" => At(f, p).text \in Path
           /\ FileOf[At(f, p)] \in MaybeFile
<1>1. NodeAt(f)[p] = At(f, p)
    BY DEF NodeAt
<1>2. At(f, p) \in Node
    BY DEF At, Node, Absent
<1>3. /\ At(f, p).kind = "link" => At(f, p).text \in Path
      /\ At(f, p).kind = "file" => At(f, p).id \in FileId
    BY <1>2 DEF Node, Absent, Dir
<1>4. FileOf[At(f, p)] \in MaybeFile
    BY <1>2, <1>3 DEF FileOf, MaybeFile
<1>5. QED BY <1>1, <1>2, <1>3, <1>4

LEMMA HopTyped ==
    ASSUME NEW f \in [Names -> Node], NEW guest \in BOOLEAN
    PROVE  \A p \in Path : Hop(f, guest)[p] \in Path
<1> SUFFICES ASSUME NEW p \in Path PROVE Hop(f, guest)[p] \in Path
    OBVIOUS
<1> DEFINE n == At(f, p)
           text == IF guest /\ IsAbsolute(n.text) THEN Translated[n.text].path ELSE n.text
<1>1. n.kind = "link" => text \in Path
    <2>1. n.kind = "link" => n.text \in Path
        BY NodeAtTyped
    <2>2. QED BY <2>1, TranslatedTyped
<1>2. n.kind = "link" => Resolved[Parent(p)][text] \in Path
    <2> HIDE DEF text
    <2>1. QED BY <1>1, ParentTyped, ResolveTyped
<1>3. Hop(f, guest)[p] = IF n.kind # "link" THEN p ELSE Resolved[Parent(p)][text]
    BY DEF Hop
<1> HIDE DEF n, text
<1>4. QED BY <1>2, <1>3

LEMMA WalkIterates ==
    ASSUME NEW f, NEW p, NEW guest
    PROVE  Iteration(Walk(f, p, guest), KernelTurns, p, Hop(f, guest))
<1> DEFINE H == Hop(f, guest)
           w == CHOOSE g : g = [n \in 0..KernelTurns |-> IF n = 0 THEN p ELSE H[g[n - 1]]]
<1>1. \E g : g = [n \in 0..KernelTurns |-> IF n = 0 THEN p ELSE H[g[n - 1]]]
    <2> HIDE DEF H
    <2>1. PICK g : Iteration(g, KernelTurns, p, H)
        BY ExecAssumption, Iterates
    <2>2. QED BY <2>1 DEF Iteration
<1>2. w = [n \in 0..KernelTurns |-> IF n = 0 THEN p ELSE H[w[n - 1]]]
    <2> HIDE DEF H
    <2>1. QED BY <1>1
<1>3. Walk(f, p, guest) = w
    BY DEF Walk
<1>4. QED BY <1>2, <1>3 DEF Iteration

LEMMA WalkTyped ==
    ASSUME NEW f \in [Names -> Node], NEW p \in Path, NEW guest \in BOOLEAN
    PROVE  \A n \in 0..KernelTurns : Walk(f, p, guest)[n] \in Path
<1>1. \A x \in Path : Hop(f, guest)[x] \in Path
    BY HopTyped
<1>2. QED BY <1>1, WalkIterates, IterationStays, ExecAssumption

LEMMA FileAtTyped ==
    ASSUME NEW f \in [Names -> Node], NEW p \in Path, NEW guest \in BOOLEAN
    PROVE  FileAt(f, p, guest) \in MaybeFile
<1> DEFINE q == Resolved[Cwd][p]
<1>1. q \in Path
    BY ResolveTyped, ExecAssumption
<1> HIDE DEF q
<1>2. KernelTurns \in 0..KernelTurns
    BY ExecAssumption
<1>3. Walk(f, q, guest)[KernelTurns] \in Path
    BY <1>1, <1>2, WalkTyped
<1>4. FileAt(f, p, guest) = FileOf[NodeAt(f)[Walk(f, q, guest)[KernelTurns]]]
    BY DEF FileAt, q
<1>5. QED BY <1>3, <1>4, NodeAtTyped

(***************************************************************************)
(* Types                                                                   *)
(***************************************************************************)

Steps == {"search", "links", "probe", "decide", "ptrace", "loader", "kernel"}

\* The call under way, and in a hook the arguments that are left of it.
Called ==
    /\ call.path \in Path /\ call.argv \in Seq(Path)
    /\ InCall => call.argv # <<>>
    /\ pc \in Steps => argv # <<>> /\ call \in ExecCalls
    /\ pc \in {"decide", "ptrace", "loader"} => info = NoFile \/ ElfFile(info)

Typed == TypeOK /\ Called

Outcome == [file : MaybeFile, loader : MaybeFile, argv : Seq(Path)]

LEMMA Files ==
    /\ NoFile \in MaybeFile /\ NoFile \notin DOMAIN Programs /\ <<>> \in Path
    /\ \A i \in DOMAIN Programs : /\ Programs[i] \in Program /\ i \in MaybeFile
                                  /\ Programs[i].interp \in Path
BY ExecAssumption, EmptySeq DEF MaybeFile, Program, Path

LEMMA ArgumentsTyped ==
    ASSUME NEW p \in Path, NEW args \in Seq(Path)
    PROVE  /\ <<p>> \o args \in Seq(Path) /\ <<p>> \o args # <<>>
           /\ args # <<>> => Tail(args) \in Seq(Path)
           /\ Tail(<<p>> \o args) = args /\ (<<p>> \o args)[1] = p
<1>1. <<p>> \in Seq(Path) /\ Len(<<p>>) = 1 /\ <<p>>[1] = p
    OBVIOUS
<1>2. <<p>> \o args \in Seq(Path) /\ Len(<<p>> \o args) = 1 + Len(args) /\ Len(args) \in Nat
    BY <1>1, ConcatProperties, LenProperties
<1>3. (<<p>> \o args)[1] = p
    BY <1>1, ConcatProperties
<1>4. <<p>> \o args # <<>>
    BY <1>2, EmptySeq
<1>5. args # <<>> => Tail(args) \in Seq(Path)
    BY HeadTailProperties
<1>6. Tail(<<p>> \o args) = args
    OBVIOUS
<1>7. QED BY <1>2, <1>3, <1>4, <1>5, <1>6

LEMMA StartElfTyped ==
    ASSUME NEW f \in [Names -> Node], NEW i \in MaybeFile, NEW args \in Seq(Path)
    PROVE  StartElf(f, args)[i] \in Outcome
<1>1. Refused \in Outcome
    BY Files, EmptySeq DEF Refused, Outcome
<1>2. CASE Startable(i) /\ Programs[i].interp = <<>>
    BY <1>2, Files DEF StartElf, Outcome
<1>3. CASE Startable(i) /\ Programs[i].interp # <<>>
    <2>1. Programs[i].interp \in Path
        BY <1>3, Files DEF Startable, ElfFile
    <2>2. FileAt(f, Programs[i].interp, FALSE) \in MaybeFile
        BY <2>1, FileAtTyped
    <2>3. QED BY <1>1, <1>3, <2>2 DEF StartElf, Outcome
<1>4. CASE ~Startable(i)
    BY <1>1, <1>4 DEF StartElf
<1>5. QED BY <1>2, <1>3, <1>4

LEMMA StartTyped ==
    ASSUME NEW f \in [Names -> Node], NEW p \in Path, NEW args \in Seq(Path), args # <<>>
    PROVE  Start(f, p, args) \in Outcome
<1>1. PICK i \in MaybeFile : i = FileAt(f, p, FALSE)
    BY FileAtTyped
<1>2. CASE i \in DOMAIN Programs /\ Programs[i].kind = "script"
    <2>1. Programs[i].interp \in Path
        BY <1>2, Files
    <2>2. FileAt(f, Programs[i].interp, FALSE) \in MaybeFile
        BY <2>1, FileAtTyped
    <2>3. <<Programs[i].interp, p>> \o Tail(args) \in Seq(Path)
        <3>1. Tail(args) \in Seq(Path)
            BY ArgumentsTyped
        <3>2. <<Programs[i].interp, p>> \in Seq(Path)
            BY <2>1
        <3>3. QED BY <3>1, <3>2, ConcatProperties
    <2>4. Refused \in Outcome
        BY Files, EmptySeq DEF Refused, Outcome
    <2>5. StartElf(f, <<Programs[i].interp, p>> \o Tail(args))
              [FileAt(f, Programs[i].interp, FALSE)] \in Outcome
        BY <2>2, <2>3, StartElfTyped
    <2>6. StartFile(f, p, args)[i] \in Outcome
        BY <1>2, <2>4, <2>5 DEF StartFile
    <2>7. QED BY <1>1, <2>6 DEF Start
<1>3. CASE ~(i \in DOMAIN Programs /\ Programs[i].kind = "script")
    <2>1. Start(f, p, args) = StartElf(f, args)[i]
        BY <1>1, <1>3 DEF Start, StartFile
    <2>2. QED BY <2>1, StartElfTyped
<1>4. QED BY <1>2, <1>3

LEMMA RunLoaderTyped ==
    ASSUME NEW f \in [Names -> Node], NEW l \in MaybeFile, NEW p \in Path,
           NEW rest \in Seq(Path)
    PROVE  RunLoader(f, l, p, rest) \in Outcome
<1>1. FileAt(f, p, FALSE) \in MaybeFile
    BY FileAtTyped
<1>2. <<p>> \o rest \in Seq(Path)
    BY ArgumentsTyped
<1>3. Refused \in Outcome
    BY Files, EmptySeq DEF Refused, Outcome
<1>4. QED BY <1>1, <1>2, <1>3 DEF RunLoader, Outcome

LEMMA InitTyped == Init => Typed
<1> SUFFICES ASSUME Init PROVE Typed
    OBVIOUS
<1>1. <<>> \in Path /\ <<>> \in Seq(Path)
    BY EmptySeq DEF Path
<1>2. TypeOK
    <2>1. fs \in [Names -> Node] /\ began \in [Names -> Node] /\ changes \in Nat
        BY ExecAssumption DEF Init
    <2>2. image.file = NoFile /\ image.loader = NoFile /\ image.argv = <<>> /\ image.exe = <<>>
        BY DEF Init, NoImage
    <2>3. ptr \in [place : {"caller", "tlbuf", "buf", "lost"}, path : Path]
        BY <1>1 DEF Init, NoPtr
    <2>4. turn \in 0..Turns /\ relinks \in 0..MaxRelinks
        BY ExecAssumption DEF Init
    <2>5. QED BY <1>1, <2>1, <2>2, <2>3, <2>4, Files DEF Init, TypeOK, Outs, InCall
<1>3. Called
    BY <1>1 DEF Init, Called, NoCall, InCall, Steps
<1>4. QED BY <1>2, <1>3 DEF Typed

(***************************************************************************)
(* How calls end                                                           *)
(***************************************************************************)

\* The result of a call that is over.
LEMMA LeavesTyped ==
    ASSUME NEW result \in Outs, Leaves(result)
    PROVE  /\ ptr' \in [place : {"caller", "tlbuf", "buf", "lost"}, path : Path]
           /\ turn' \in 0..Turns /\ argv' \in Seq(Path) /\ info' \in MaybeFile
           /\ out' \in Outs
BY Files, EmptySeq, ExecAssumption DEF Leaves, NoPtr

LEMMA EndTyped ==
    ASSUME Typed, UNCHANGED <<fs, call, forkless, history, relinks>>,
           \/ \E s \in Outcome : \E via : Becomes(s, via)
           \/ Fails
           \/ Ends
    PROVE  Typed'
<1> USE DEF Typed, TypeOK, Called, InCall, Steps, history, Outs
<1>1. CASE \E s \in Outcome : \E via : Becomes(s, via)
    <2> PICK s \in Outcome : \E via : Becomes(s, via)
        BY <1>1
    <2>1. PICK via : Becomes(s, via)
        OBVIOUS
    <2>2. /\ image'.file = s.file /\ image'.loader = s.loader /\ image'.argv = s.argv
          /\ image'.exe = ptr.path
        BY <2>1 DEF Becomes
    <2>3. pc' = "run" /\ Leaves("started")
        BY <2>1 DEF Becomes
    <2>4. /\ ptr' \in [place : {"caller", "tlbuf", "buf", "lost"}, path : Path]
          /\ turn' \in 0..Turns /\ argv' \in Seq(Path) /\ info' \in MaybeFile
        BY <2>3, LeavesTyped
    <2>5. s.file \in MaybeFile /\ s.loader \in MaybeFile /\ s.argv \in Seq(Path)
        BY DEF Outcome
    <2>6. ptr.path \in Path
        OBVIOUS
    <2>7. out' = "started"
        BY <2>3 DEF Leaves
    <2>8. QED BY <2>2, <2>3, <2>4, <2>5, <2>6, <2>7
<1>2. CASE Fails
    <2>1. /\ ptr' \in [place : {"caller", "tlbuf", "buf", "lost"}, path : Path]
          /\ turn' \in 0..Turns /\ argv' \in Seq(Path) /\ info' \in MaybeFile
        BY <1>2, LeavesTyped DEF Fails
    <2>2. QED BY <1>2, <2>1 DEF Fails, Leaves
<1>3. CASE Ends
    <2>1. /\ ptr' \in [place : {"caller", "tlbuf", "buf", "lost"}, path : Path]
          /\ turn' \in 0..Turns /\ argv' \in Seq(Path) /\ info' \in MaybeFile
        BY <1>3, LeavesTyped DEF Ends
    <2>2. QED BY <1>3, <2>1, Files, EmptySeq DEF Ends, Leaves, NoImage
<1>4. QED BY <1>1, <1>2, <1>3

(***************************************************************************)
(* lroot                                                                   *)
(***************************************************************************)

LEMMA BaseTyped ==
    ASSUME NEW p \in Path
    PROVE  Base(p) \in Path
<1> DEFINE last == {i \in 1..Len(p) : p[i] = Slash /\ \A j \in (i + 1)..Len(p) : p[j] # Slash}
<1>1. Len(p) \in Nat /\ DOMAIN p = 1..Len(p)
    BY LenProperties DEF Path
<1>2. CASE Bare(p)
    BY <1>2 DEF Base
<1>3. CASE ~Bare(p)
    <2>1. Len(p) >= 1
        BY <1>1, <1>3 DEF Bare
    <2>2. Len(Parent(p)) \in Nat /\ Len(Parent(p)) + 1 <= Len(p)
        <3>1. CASE last = {}
            <4>1. Parent(p) = <<>> /\ Len(<<>>) = 0
                BY <3>1 DEF Parent
            <4>2. QED BY <1>1, <2>1, <4>1
        <3>2. CASE last # {}
            <4>1. PICK i \in 1..Len(p) : Parent(p) = SubSeq(p, 1, i - 1)
                BY <3>2 DEF Parent
            <4>2. \A j \in 1..(i - 1) : p[j] \in Fragment
                BY <1>1, ElementOfSeq DEF Path
            <4>3. 1 \in Int /\ i - 1 \in Int /\ 1 <= (i - 1) + 1 /\ i - 1 <= Len(p)
                BY <1>1
            <4>4. Len(Parent(p)) = i - 1
                BY <1>1, <4>1, <4>2, <4>3, SubSeqProperties DEF Path
            <4>5. QED BY <1>1, <4>4
        <3>3. QED BY <3>1, <3>2
    <2>3. QED BY <1>3, <2>2, DropTyped DEF Base
<1>4. QED BY <1>2, <1>3

LEMMA LaunchHopTyped ==
    ASSUME NEW f \in [Names -> Node]
    PROVE  \A p \in Path : LaunchHop(f)[p] \in Path
<1> SUFFICES ASSUME NEW p \in Path PROVE LaunchHop(f)[p] \in Path
    OBVIOUS
<1> DEFINE n == NodeAt(f)[Resolved[Cwd][p]]
<1>1. n.kind = "link" => n.text \in Path
    <2>1. Resolved[Cwd][p] \in Path
        BY ResolveTyped, ExecAssumption
    <2>2. QED BY <2>1, NodeAtTyped
<1>2. n.kind = "link" => /\ Rootfs \o n.text \in Path
                         /\ Join(Parent(p), n.text) \in Path
    <2>1. Parent(p) \in Path /\ Rootfs \in Path
        BY ParentTyped, PathAssumption
    <2> HIDE DEF n
    <2>2. QED BY <1>1, <2>1, JoinIsPath, ConcatProperties DEF Path
<1>3. LaunchHop(f)[p] = IF n.kind # "link" \/ Clean(p) # p THEN p
                        ELSE IF IsAbsolute(n.text) THEN Rootfs \o n.text
                        ELSE IF Bare(p)            THEN n.text
                        ELSE Join(Parent(p), n.text)
    BY DEF LaunchHop
<1> HIDE DEF n
<1>4. CASE Bare(p)
    BY <1>1, <1>2, <1>3, <1>4
<1>5. CASE ~Bare(p)
    BY <1>1, <1>2, <1>3, <1>5
<1>6. QED BY <1>4, <1>5

\* resolve_rootfs applies LaunchHop a number of times.
LEMMA ResolveIterates ==
    ASSUME NEW f, NEW p
    PROVE  \E a : Iteration(a, Turns, p, LaunchHop(f)) /\ ResolveRootfs(f, p) = a[Turns]
<1> DEFINE H == LaunchHop(f)
           w == CHOOSE g : g = [n \in 0..Turns |-> IF n = 0 THEN p ELSE H[g[n - 1]]]
<1>1. \E g : g = [n \in 0..Turns |-> IF n = 0 THEN p ELSE H[g[n - 1]]]
    <2> HIDE DEF H
    <2>1. PICK g : Iteration(g, Turns, p, H)
        BY ExecAssumption, Iterates
    <2>2. QED BY <2>1 DEF Iteration
<1>2. Iteration(w, Turns, p, H)
    <2> HIDE DEF H
    <2>1. w = [n \in 0..Turns |-> IF n = 0 THEN p ELSE H[w[n - 1]]]
        BY <1>1
    <2> HIDE DEF w
    <2>2. QED BY <2>1 DEF Iteration
<1>3. ResolveRootfs(f, p) = w[Turns]
    BY DEF ResolveRootfs
<1> HIDE DEF w
<1>4. QED BY <1>2, <1>3

LEMMA ResolveRootfsTyped ==
    ASSUME NEW f \in [Names -> Node], NEW p \in Path
    PROVE  ResolveRootfs(f, p) \in Path
<1> DEFINE H == LaunchHop(f)
<1>1. PICK a : Iteration(a, Turns, p, H) /\ ResolveRootfs(f, p) = a[Turns]
    BY ResolveIterates
<1>2. \A x \in Path : H[x] \in Path
    BY LaunchHopTyped
<1> HIDE DEF H
<1>3. \A n \in 0..Turns : a[n] \in Path
    BY <1>1, <1>2, IterationStays, ExecAssumption
<1>4. QED BY <1>1, <1>3, ExecAssumption

\* The first directory of PATH with some property.
LEMMA FirstDirIs ==
    ASSUME NEW hits \in SUBSET DOMAIN SearchDirs
    PROVE  /\ FirstDir[hits] \in Nat
           /\ FirstDir[hits] = 0 <=> hits = {}
           /\ hits # {} => FirstDir[hits] \in hits
           /\ \A j \in hits : FirstDir[hits] <= j
<1>1. DOMAIN SearchDirs \in SUBSET Nat /\ 0 \notin DOMAIN SearchDirs
    BY ExecAssumption, LenProperties
<1>2. hits # {} => \E k \in hits : \A j \in hits : k <= j
    BY <1>1, Least
<1>3. FirstDir[hits] = IF hits = {} THEN 0 ELSE CHOOSE k \in hits : \A j \in hits : k <= j
    BY DEF FirstDir
<1>4. QED BY <1>1, <1>2, <1>3

LEMMA SearchDirTyped ==
    ASSUME NEW k \in DOMAIN SearchDirs, NEW p \in Path
    PROVE  Join(SearchDirs[k], p) \in Path
<1>1. SearchDirs[k] \in Path
    BY ExecAssumption, ElementOfSeq, LenProperties
<1>2. QED BY <1>1, JoinIsPath

LEMMA LaunchTyped ==
    ASSUME Typed, Launch
    PROVE  Typed'
<1> DEFINE p == Prog(call)
           r == ResolveRootfs(fs, p)
           i == ElfInterp(fs, r)
           l == LaunchLoader(fs, i)
           s == IF l = NoFile        THEN Spawned(fs, p, <<p>> \o Tail(call.argv))
                ELSE IF Startable(l) THEN RunLoader(fs, l, r, LaunchArgs(call))
                ELSE Refused
<1>1. /\ fs \in [Names -> Node] /\ call.path \in Path
      /\ call.argv \in Seq(Path) /\ call.argv # <<>>
      /\ pc = "launch"
    BY DEF Typed, TypeOK, Called, InCall, Launch
<1>2. p \in Path
    BY <1>1, PathAssumption, ConcatProperties DEF Prog, Path
<1>3. r \in Path
    BY <1>1, <1>2, ResolveRootfsTyped
<1>4. i \in MaybeFile
    BY <1>1, <1>3, FileAtTyped, Files DEF ElfInterp, ReadElfInfo
<1>5. i # NoFile => Programs[i].interp \in Path
    BY Files DEF ElfInterp, ReadElfInfo, ElfFile
<1>6. l \in MaybeFile
    <2>1. i # NoFile => Rootfs \o Programs[i].interp \in Path
        BY <1>5, PathAssumption, ConcatProperties DEF Path
    <2> HIDE DEF i
    <2>2. l = FileAt(fs, Rootfs \o Programs[i].interp, FALSE) \/ l = NoFile
        BY DEF LaunchLoader
    <2>3. ElfFile(i) => i # NoFile
        BY Files DEF ElfFile
    <2>4. CASE ElfFile(i)
        <3>1. FileAt(fs, Rootfs \o Programs[i].interp, FALSE) \in MaybeFile
            BY <1>1, <2>1, <2>3, <2>4, FileAtTyped
        <3>2. QED BY <2>2, <3>1, Files
    <2>5. CASE ~ElfFile(i)
        BY <2>5, Files DEF LaunchLoader
    <2>6. QED BY <2>4, <2>5
<1>7. LaunchArgs(call) \in Seq(Path)
    <2>1. Base(Clean(Prog(call))) \in Path
        BY <1>2, CleanTyped, BaseTyped
    <2>2. Tail(call.argv) \in Seq(Path)
        BY <1>1, ArgumentsTyped
    <2>3. <<Base(Clean(Prog(call)))>> \in Seq(Path) /\ <<>> \in Seq(Path)
        BY <2>1, EmptySeq
    <2>4. QED BY <2>2, <2>3, ConcatProperties DEF LaunchArgs
<1>8. Spawned(fs, p, <<p>> \o Tail(call.argv)) \in Outcome
    <2> HIDE DEF p
    <2>1. /\ <<p>> \o Tail(call.argv) \in Seq(Path) /\ <<p>> \o Tail(call.argv) # <<>>
        BY <1>1, <1>2, ArgumentsTyped
    <2>2. Start(fs, p, <<p>> \o Tail(call.argv)) \in Outcome
        BY <1>1, <1>2, <2>1, StartTyped
    <2>3. ASSUME NEW k \in DOMAIN SearchDirs
          PROVE  Start(fs, Join(SearchDirs[k], p), <<p>> \o Tail(call.argv)) \in Outcome
        <3>1. Join(SearchDirs[k], p) \in Path
            BY <1>2, SearchDirTyped
        <3>2. QED BY <1>1, <2>1, <3>1, StartTyped
    <2>4. Refused \in Outcome
        BY Files, EmptySeq DEF Refused, Outcome
    <2>5. CASE ~Bare(p)
        BY <2>2, <2>5 DEF Spawned
    <2>6. CASE Bare(p)
        <3> DEFINE hits == {k \in DOMAIN SearchDirs :
                              Start(fs, Join(SearchDirs[k], p),
                                    <<p>> \o Tail(call.argv)) # Refused}
        <3>1. Spawned(fs, p, <<p>> \o Tail(call.argv))
                 = [k \in Nat |-> IF k = 0 THEN Refused
                                  ELSE Start(fs, Join(SearchDirs[k], p),
                                             <<p>> \o Tail(call.argv))][FirstDir[hits]]
            BY <2>6 DEF Spawned
        <3>2. hits \in SUBSET DOMAIN SearchDirs
            OBVIOUS
        <3> HIDE DEF hits
        <3>3. PICK k \in Nat : k = FirstDir[hits] /\ (k = 0 \/ k \in DOMAIN SearchDirs)
            BY <3>2, FirstDirIs
        <3>4. QED BY <2>3, <2>4, <3>1, <3>3
    <2>7. QED BY <2>5, <2>6
<1>9. s \in Outcome
    <2>1. Refused \in Outcome
        BY Files, EmptySeq DEF Refused, Outcome
    <2>2. RunLoader(fs, l, r, LaunchArgs(call)) \in Outcome
        <3> HIDE DEF l, r
        <3>1. QED BY <1>1, <1>3, <1>6, <1>7, RunLoaderTyped
    <2> HIDE DEF l, r, p
    <2>3. QED BY <1>8, <2>1, <2>2
<1>10. /\ \/ Ends
          \/ /\ image' = [file |-> s.file, loader |-> s.loader, argv |-> s.argv,
                          env |-> call.env, lib |-> Library(i),
                          via |-> IF l # NoFile THEN "loader" ELSE "kernel",
                          exe |-> IF l # NoFile THEN r ELSE p]
             /\ pc' = "run"
             /\ Leaves("started")
       /\ UNCHANGED <<fs, call, forkless, history, relinks>>
    BY DEF Launch
<1> HIDE DEF s, l, i, r, p
<1>11. CASE Ends
    BY <1>10, <1>11, EndTyped
<1>12. CASE /\ image' = [file |-> s.file, loader |-> s.loader, argv |-> s.argv,
                         env |-> call.env, lib |-> Library(i),
                         via |-> IF l # NoFile THEN "loader" ELSE "kernel",
                         exe |-> IF l # NoFile THEN r ELSE p]
            /\ pc' = "run"
            /\ Leaves("started")
    <2>1. /\ image'.file \in MaybeFile /\ image'.loader \in MaybeFile
          /\ image'.argv \in Seq(Path) /\ image'.exe \in Path
        BY <1>2, <1>3, <1>9, <1>12 DEF Outcome
    <2>2. /\ ptr' \in [place : {"caller", "tlbuf", "buf", "lost"}, path : Path]
          /\ turn' \in 0..Turns /\ argv' \in Seq(Path) /\ info' \in MaybeFile
          /\ out' \in Outs
        BY <1>12, LeavesTyped DEF Outs
    <2>3. QED BY <1>10, <1>12, <2>1, <2>2 DEF Typed, TypeOK, Called, InCall, Steps, history
<1>13. QED BY <1>10, <1>11, <1>12

(***************************************************************************)
(* The hooks                                                               *)
(***************************************************************************)

LEMMA TranslateInTyped ==
    ASSUME NEW p \in Path
    PROVE  TranslateIn(p) \in [place : {"caller", "tlbuf"}, path : Path]
BY TranslatedTyped DEF TranslateIn

LEMMA BeginTyped ==
    ASSUME Typed, Take \/ Call
    PROVE  Typed'
<1> USE DEF Typed, TypeOK, Called, InCall, Steps, frame, history, Outs
<1>1. CASE Take
    <2>1. PICK c \in Commands :
              call' = [fn |-> "lroot", path |-> c.path, argv |-> c.argv, null |-> FALSE,
                       env |-> {"LD_PRELOAD", "LITTLE_ROOTFS", "PATH"} \cup c.options]
        BY <1>1 DEF Take
    <2>2. call'.path \in Path /\ call'.argv \in Seq(Path) /\ call'.argv # <<>>
        <3>1. call'.path = c.path /\ call'.argv = c.argv
            BY <2>1
        <3>2. QED BY <3>1, ExecAssumption
    <2>3. QED BY <1>1, <2>2 DEF Take
<1>2. CASE Call
    <2>1. call' \in ExecCalls /\ call'.path \in Path /\ call'.argv \in Seq(Path) \ {<<>>}
        BY <1>2, ExecAssumption DEF Call
    <2>2. ptr' \in [place : {"caller", "tlbuf", "buf", "lost"}, path : Path]
        BY <1>2, <2>1 DEF Call
    <2>3. turn' \in 0..Turns /\ info' \in MaybeFile
        BY <1>2, ExecAssumption, Files DEF Call
    <2>4. QED BY <1>2, <2>1, <2>2, <2>3 DEF Call
<1>3. QED BY <1>1, <1>2

LEMMA EnterTyped ==
    ASSUME Typed, pc = "search", NEW p, p.path \in Path, Enter(p),
           UNCHANGED <<fs, call, forkless, history, relinks>>
    PROVE  Typed'
<1>1. <<>> \in Path
    BY Files
<1>2. TranslateIn(p.path) \in [place : {"caller", "tlbuf"}, path : Path]
    BY TranslateInTyped
<1>3. ptr' \in [place : {"caller", "tlbuf", "buf", "lost"}, path : Path]
    BY <1>1, <1>2 DEF Enter, Spoilt
<1>4. QED BY <1>3 DEF Enter, Typed, TypeOK, Called, InCall, Steps, frame, history

LEMMA SearchTyped ==
    ASSUME Typed, EnterExec \/ EnterRaw \/ EnterPath \/ EnterName
    PROVE  Typed'
<1>1. CASE EnterExec
    BY <1>1, EnterTyped DEF EnterExec, Typed, TypeOK
<1>2. CASE EnterRaw
    BY <1>2 DEF EnterRaw, Typed, TypeOK, Called, InCall, Steps, frame, history
<1>3. CASE EnterPath
    <2>1. TranslateIn(call.path).path \in Path
        BY TranslateInTyped DEF Typed, Called
    <2>2. QED BY <1>3, <2>1, EnterTyped DEF EnterPath
<1>4. CASE EnterName
    <2> DEFINE hits == {j \in DOMAIN SearchDirs : MayExecute(Join(SearchDirs[j], call.path))}
               p(k) == [place |-> "caller", path |-> Join(SearchDirs[k], call.path)]
    <2>1. hits \in SUBSET DOMAIN SearchDirs
        OBVIOUS
    <2>2. /\ pc = "search"
          /\ IF FirstDir[hits] = 0 THEN Fails ELSE Enter(p(FirstDir[hits]))
          /\ UNCHANGED <<fs, call, forkless, history, relinks>>
        BY <1>4 DEF EnterName
    <2> HIDE DEF hits
    <2>3. CASE FirstDir[hits] = 0
        BY <2>2, <2>3, EndTyped
    <2>4. CASE FirstDir[hits] # 0
        <3>1. PICK k \in DOMAIN SearchDirs : k = FirstDir[hits]
            BY <2>1, <2>4, FirstDirIs
        <3>2. p(k).path \in Path
            BY SearchDirTyped DEF Typed, Called
        <3> HIDE DEF p
        <3>3. QED BY <2>2, <2>4, <3>1, <3>2, EnterTyped
    <2>5. QED BY <2>3, <2>4
<1>5. QED BY <1>1, <1>2, <1>3, <1>4

LEMMA LinksTyped ==
    ASSUME Typed, LoseBuffer \/ FollowLink \/ StopFollowing
    PROVE  Typed'
<1> USE DEF Typed, TypeOK, Called, InCall, Steps, frame, history
<1>1. CASE LoseBuffer
    <2>1. ptr' \in [place : {"caller", "tlbuf", "buf", "lost"}, path : Path]
        BY <1>1, Files DEF LoseBuffer, Spoilt
    <2>2. QED BY <1>1, <2>1 DEF LoseBuffer
<1>2. CASE FollowLink
    <2> DEFINE q == Resolved[Cwd][ptr.path]
               t == TranslateIn(NodeAt(fs)[q].text)
    <2>1. NodeAt(fs)[q].kind = "link" /\ pc = "links"
        BY <1>2 DEF FollowLink, Linked
    <2>2. NodeAt(fs)[q].text \in Path
        <3>1. q \in Path
            BY ResolveTyped, ExecAssumption
        <3> HIDE DEF q
        <3>2. QED BY <2>1, <3>1, NodeAtTyped
    <2>3. t \in [place : {"caller", "tlbuf"}, path : Path]
        <3> HIDE DEF q
        <3>1. QED BY <2>2, TranslateInTyped
    <2>4. ptr' = IF t.place = "tlbuf" THEN t ELSE [place |-> "buf", path |-> t.path]
        BY <1>2 DEF FollowLink
    <2> HIDE DEF t
    <2>5. ptr' \in [place : {"caller", "tlbuf", "buf", "lost"}, path : Path]
        BY <2>3, <2>4
    <2>6. turn' \in 0..Turns
        BY <1>2, ExecAssumption DEF FollowLink
    <2>7. QED BY <1>2, <2>5, <2>6 DEF FollowLink
<1>3. CASE StopFollowing
    BY <1>3 DEF StopFollowing
<1>4. QED BY <1>1, <1>2, <1>3

LEMMA WithAppletTyped ==
    ASSUME Typed, pc = "probe"
    PROVE  WithApplet \in Seq(Path) /\ WithApplet # <<>>
<1>1. /\ call.path \in Path /\ ptr.path \in Path /\ argv \in Seq(Path) /\ argv # <<>>
    BY DEF Typed, TypeOK, Called, Steps
<1>2. Orig \in Path
    BY <1>1, TranslateInTyped DEF Orig
<1>3. Base(Orig) \in Path
    BY <1>2, BaseTyped
<1>4. QED BY <1>1, <1>3, ArgumentsTyped DEF WithApplet

LEMMA WaysTyped ==
    ASSUME Typed, Probe \/ Decide \/ Ptrace \/ ForkFails \/ Loader \/ Kernel
    PROVE  Typed'
<1>1. /\ fs \in [Names -> Node] /\ ptr.path \in Path /\ argv \in Seq(Path)
      /\ pc \in Steps => argv # <<>>
    BY DEF Typed, TypeOK, Called
<1>2. CASE Probe
    <2>1. WithApplet \in Seq(Path) /\ WithApplet # <<>>
        BY <1>2, WithAppletTyped DEF Probe
    <2>2. ReadElfInfo(fs, ptr.path) \in MaybeFile
        BY <1>1, FileAtTyped, Files DEF ReadElfInfo
    <2>3. ReadElfInfo(fs, ptr.path) = NoFile \/ ElfFile(ReadElfInfo(fs, ptr.path))
        BY DEF ReadElfInfo
    <2>4. QED BY <1>2, <2>1, <2>2, <2>3
              DEF Probe, Typed, TypeOK, Called, InCall, Steps, frame, history
<1>3. CASE Decide
    <2>1. info # NoFile => ElfFile(info)
        BY <1>3 DEF Decide, Typed, Called
    <2>2. QED BY <1>3, <2>1
              DEF Decide, AfterPtrace, Typed, TypeOK, Called, InCall, Steps, frame, history
<1>4. CASE Ptrace
    <2>1. Start(fs, ptr.path, argv) \in Outcome
        BY <1>1, <1>4, StartTyped DEF Ptrace, Steps
    <2>2. QED BY <1>4, <2>1, EndTyped DEF Ptrace
<1>5. CASE ForkFails
    BY <1>5 DEF ForkFails, AfterPtrace, Typed, TypeOK, Called, InCall, Steps, frame, history
<1>6. CASE Loader
    <2> DEFINE l == FileAt(fs, Rootfs \o Programs[info].interp, FALSE)
               s == RunLoader(fs, l, ptr.path, Tail(argv))
    <2>1. /\ pc = "loader"
          /\ IF ~Rooted \/ ~Startable(l)
             THEN pc' = "kernel" /\ UNCHANGED <<image, frame, out>>
             ELSE IF s = Refused THEN Ends ELSE Becomes(s, "loader")
          /\ UNCHANGED <<fs, call, forkless, history, relinks>>
        BY <1>6 DEF Loader
    <2>2. s \in Outcome
        <3>1. Programs[info].interp \in Path
            BY <2>1, Files DEF Typed, TypeOK, Called, ElfFile
        <3>2. l \in MaybeFile
            <4>1. Rootfs \o Programs[info].interp \in Path
                BY <3>1, PathAssumption, ConcatProperties DEF Path
            <4>2. QED BY <1>1, <4>1, FileAtTyped
        <3>3. Tail(argv) \in Seq(Path)
            BY <1>1, <2>1, ArgumentsTyped DEF Steps
        <3> HIDE DEF l
        <3>4. QED BY <1>1, <3>2, <3>3, RunLoaderTyped
    <2> HIDE DEF s, l
    <2>3. CASE ~Rooted \/ ~Startable(l)
        BY <2>1, <2>3 DEF Typed, TypeOK, Called, InCall, Steps, frame, history
    <2>4. CASE ~(~Rooted \/ ~Startable(l))
        BY <2>1, <2>2, <2>4, EndTyped
    <2>5. QED BY <2>3, <2>4
<1>7. CASE Kernel
    <2>1. Start(fs, ptr.path, argv) \in Outcome
        BY <1>1, <1>7, StartTyped DEF Kernel, Steps
    <2>2. QED BY <1>7, <2>1, EndTyped DEF Kernel
<1>8. QED BY <1>2, <1>3, <1>4, <1>5, <1>6, <1>7

LEMMA RelinkTyped ==
    ASSUME Typed, Relink
    PROVE  Typed'
<1>1. PICK r \in Relinks : fs' = [fs EXCEPT ![r.at] = r.node]
    BY DEF Relink
<1>2. fs' \in [Names -> Node]
    BY <1>1, ExecAssumption DEF Typed, TypeOK
<1>3. relinks' \in 0..MaxRelinks
    BY ExecAssumption DEF Relink, Typed, TypeOK
<1>4. QED BY <1>1, <1>2, <1>3 DEF Relink, Typed, TypeOK, Called, InCall, Steps, frame

LEMMA NextTyped == Typed /\ [Next]_vars => Typed'
<1> SUFFICES ASSUME Typed, [Next]_vars PROVE Typed'
    OBVIOUS
<1>1. CASE UNCHANGED vars
    BY <1>1 DEF vars, frame, history, Typed, TypeOK, Called, InCall
<1>2. CASE Next
    BY <1>2, BeginTyped, LaunchTyped, SearchTyped, LinksTyped, WaysTyped, RelinkTyped
       DEF Next, Advance
<1>3. QED BY <1>1, <1>2

\* The variables of lroot and its hooks keep their types, whatever is called,
\* linked and changed; in particular a hook comes to a way of starting a
\* program with arguments and, to all but the kernel's, with an ELF file that
\* it has read (lib.rs:485-545, 1794-2008, 2138-2200).
THEOREM ExecTyped == Spec => []TypeOK
<1>1. Init => Typed
    BY InitTyped
<1>2. Typed /\ [Next]_vars => Typed'
    BY NextTyped
<1>3. Typed => TypeOK
    BY DEF Typed
<1>4. QED BY <1>1, <1>2, <1>3, PTL DEF Spec


(***************************************************************************)
(* The guest's way and the hook's                                          *)
(***************************************************************************)

AbsLinkAt(f, p) == NodeAt(f)[p].kind = "link" /\ IsAbsolute(NodeAt(f)[p].text)

\* The steps of the guest and of the host's kernel, and where they lead.
GuestHop(f) == Hop(f, TRUE)
HostHop(f)  == Hop(f, FALSE)
GuestWay(f, p) == Walk(f, p, TRUE)
HostWay(f, p)  == Walk(f, p, FALSE)

LEMMA WaySteps ==
    ASSUME NEW f \in [Names -> Node], NEW p \in Path
    PROVE  /\ GuestWay(f, p)[0] = p /\ HostWay(f, p)[0] = p
           /\ \A n \in 0..KernelTurns :
                 /\ GuestWay(f, p)[n] \in Path /\ HostWay(f, p)[n] \in Path
                 /\ n # KernelTurns =>
                     /\ GuestWay(f, p)[n + 1] = GuestHop(f)[GuestWay(f, p)[n]]
                     /\ HostWay(f, p)[n + 1] = HostHop(f)[HostWay(f, p)[n]]
<1>1. Iteration(GuestWay(f, p), KernelTurns, p, GuestHop(f))
    BY WalkIterates, Zenon DEF GuestWay, GuestHop
<1>2. Iteration(HostWay(f, p), KernelTurns, p, HostHop(f))
    BY WalkIterates, Zenon DEF HostWay, HostHop
<1>3. \A n \in 0..KernelTurns : GuestWay(f, p)[n] \in Path
    BY WalkTyped, Zenon DEF GuestWay
<1>4. \A n \in 0..KernelTurns : HostWay(f, p)[n] \in Path
    BY WalkTyped, Zenon DEF HostWay
<1>5. KernelTurns \in Nat
    BY ExecAssumption
<1>6. GuestWay(f, p)[0] = p /\ \A n \in 0..KernelTurns : n # KernelTurns =>
         GuestWay(f, p)[n + 1] = GuestHop(f)[GuestWay(f, p)[n]]
    BY <1>1, <1>5, IterationSteps
<1>7. HostWay(f, p)[0] = p /\ \A n \in 0..KernelTurns : n # KernelTurns =>
         HostWay(f, p)[n + 1] = HostHop(f)[HostWay(f, p)[n]]
    BY <1>2, <1>5, IterationSteps
<1>8. QED BY <1>3, <1>4, <1>6, <1>7, Zenon

\* A step over a link that is not absolute is the same for the host.
LEMMA HopAlike ==
    ASSUME NEW f \in [Names -> Node], NEW now \in [Names -> Node], NEW p \in Path,
           NodeAt(now)[p] = NodeAt(f)[p]
    PROVE  /\ GuestHop(now)[p] = GuestHop(f)[p]
           /\ ~AbsLinkAt(f, p) => HostHop(now)[p] = GuestHop(f)[p]
           /\ NodeAt(f)[p].kind # "link" => GuestHop(f)[p] = p
<1>1. At(now, p) = At(f, p) /\ NodeAt(f)[p] = At(f, p)
    BY NodeAtTyped
<1>2. GuestHop(now)[p] = GuestHop(f)[p]
    BY <1>1 DEF Hop, GuestHop
<1>3. ~AbsLinkAt(f, p) => HostHop(now)[p] = GuestHop(f)[p]
    BY <1>1 DEF Hop, AbsLinkAt, GuestHop, HostHop
<1>4. NodeAt(f)[p].kind # "link" => GuestHop(f)[p] = p
    BY <1>1 DEF Hop, GuestHop
<1>5. QED BY <1>2, <1>3, <1>4

\* Two iterations that go the same way once the second has begun, until the
\* first stands still.
LEMMA IterationsMeet ==
    ASSUME NEW N \in Nat, NEW G, NEW H, NEW g, NEW h, NEW t \in 0..N,
           \A n \in 0..N : n # N => g[n + 1] = G[g[n]],
           h[0] = g[t],
           \A n \in 0..N : n # N => h[n + 1] = H[h[n]],
           \A n \in t..N : H[g[n]] = G[g[n]],
           G[g[N]] = g[N]
    PROVE  h[N] = g[N]
<1> DEFINE pos(n) == IF t + n <= N THEN t + n ELSE N
           T == {n \in Nat : n <= N => h[n] = g[pos(n)]}
<1>1. 0 \in T
    OBVIOUS
<1>2. \A n \in Nat : n \in T => n + 1 \in T
    <2> SUFFICES ASSUME NEW n \in Nat, n + 1 <= N, h[n] = g[pos(n)]
                 PROVE  h[n + 1] = g[pos(n + 1)]
        OBVIOUS
    <2>1. n \in 0..N /\ n # N /\ pos(n) \in t..N /\ pos(n) \in 0..N
        OBVIOUS
    <2>2. h[n + 1] = G[g[pos(n)]]
        BY <2>1
    <2>3. CASE t + n < N
        <3>1. pos(n) = t + n /\ pos(n + 1) = pos(n) + 1 /\ pos(n) # N
            BY <2>3
        <3> HIDE DEF pos
        <3>2. QED BY <2>1, <2>2, <3>1
    <2>4. CASE ~(t + n < N)
        <3>1. pos(n) = N /\ pos(n + 1) = N
            BY <2>4
        <3>2. QED BY <2>2, <3>1
    <2>5. QED BY <2>3, <2>4
<1>3. N \in T
    <2> HIDE DEF T
    <2>1. QED BY <1>1, <1>2, SetInduction
<1>4. pos(N) = N
    OBVIOUS
<1>5. QED BY <1>3, <1>4

\* From where no absolute link is left on the guest's way, the kernel's leads
\* to the same file, also in a file system that looks alike from there.
LEMMA KernelGoesOn ==
    ASSUME NEW f \in [Names -> Node], NEW now \in [Names -> Node], NEW p \in Path,
           NEW t \in 0..KernelTurns,
           NodeAt(f)[GuestWay(f, p)[KernelTurns]].kind # "link",
           \A n \in t..KernelTurns :
               /\ NodeAt(now)[GuestWay(f, p)[n]] = NodeAt(f)[GuestWay(f, p)[n]]
               /\ ~AbsLinkAt(f, GuestWay(f, p)[n])
    PROVE  HostWay(now, GuestWay(f, p)[t])[KernelTurns] = GuestWay(f, p)[KernelTurns]
<1> DEFINE g == GuestWay(f, p)
           h == HostWay(now, g[t])
<1>1. KernelTurns \in Nat
    BY ExecAssumption
<1>2. g[t] \in Path
    BY WaySteps
<1>3. \A n \in 0..KernelTurns : g[n] \in Path
    BY WaySteps
<1>4. \A n \in 0..KernelTurns : n # KernelTurns => g[n + 1] = GuestHop(f)[g[n]]
    BY WaySteps
<1>5. h[0] = g[t]
      /\ \A n \in 0..KernelTurns : n # KernelTurns => h[n + 1] = HostHop(now)[h[n]]
    <2> HIDE DEF g
    <2>1. QED BY <1>2, WaySteps
<1>6. \A n \in t..KernelTurns : HostHop(now)[g[n]] = GuestHop(f)[g[n]]
    <2> SUFFICES ASSUME NEW n \in t..KernelTurns
                 PROVE  HostHop(now)[g[n]] = GuestHop(f)[g[n]]
        OBVIOUS
    <2>1. n \in 0..KernelTurns
        BY <1>1
    <2>2. g[n] \in Path /\ NodeAt(now)[g[n]] = NodeAt(f)[g[n]] /\ ~AbsLinkAt(f, g[n])
        BY <1>3, <2>1
    <2> HIDE DEF g
    <2>3. QED BY <2>2, HopAlike
<1>7. GuestHop(f)[g[KernelTurns]] = g[KernelTurns]
    <2>1. g[KernelTurns] \in Path /\ NodeAt(f)[g[KernelTurns]].kind # "link"
        BY <1>1, <1>3
    <2> HIDE DEF g
    <2>2. QED BY <2>1, HopAlike
<1> HIDE DEF g, h
<1>8. h[KernelTurns] = g[KernelTurns]
    BY <1>1, <1>4, <1>5, <1>6, <1>7, IterationsMeet
<1>9. QED BY <1>8 DEF g, h

(***************************************************************************)
(* What is started                                                         *)
(***************************************************************************)

\* The file the kernel comes to by a path.
HostFile(f, p) == FileAt(f, p, FALSE)

Script(i) == i \in DOMAIN Programs /\ Programs[i].kind = "script"

LEMMA HostFileTyped ==
    ASSUME NEW f \in [Names -> Node], NEW p \in Path
    PROVE  HostFile(f, p) \in MaybeFile
BY FileAtTyped, Zenon DEF HostFile

LEMMA StartElfIs ==
    ASSUME NEW f \in [Names -> Node], NEW i \in MaybeFile, NEW args
    PROVE  /\ StartElf(f, args)[i] # Refused =>
                /\ Startable(i) /\ StartElf(f, args)[i].file = i
                /\ StartElf(f, args)[i].argv = args
           /\ (/\ Startable(i)
               /\ Programs[i].interp # <<>> => Startable(HostFile(f, Programs[i].interp)))
              => StartElf(f, args)[i] # Refused
<1>1. Refused.file = NoFile
    BY DEF Refused
<1>2. Startable(i) => i # NoFile
    BY Files DEF Startable, ElfFile
<1>3. CASE ~Startable(i)
    BY <1>3 DEF StartElf
<1>4. CASE Startable(i) /\ Programs[i].interp = <<>>
    <2>1. StartElf(f, args)[i] = [file |-> i, loader |-> NoFile, argv |-> args]
        BY <1>4 DEF StartElf
    <2>2. QED BY <1>1, <1>2, <1>4, <2>1
<1>5. CASE Startable(i) /\ Programs[i].interp # <<>>
    <2>1. PICK l : l = HostFile(f, Programs[i].interp)
        OBVIOUS
    <2>2. StartElf(f, args)[i] = IF Startable(l) THEN [file |-> i, loader |-> l, argv |-> args]
                                                 ELSE Refused
        BY <1>5, <2>1, Zenon DEF StartElf, HostFile
    <2>3. CASE Startable(l)
        <3>1. StartElf(f, args)[i] = [file |-> i, loader |-> l, argv |-> args]
            BY <2>2, <2>3
        <3>2. QED BY <1>1, <1>2, <1>5, <3>1
    <2>4. CASE ~Startable(l)
        BY <1>5, <2>1, <2>2, <2>4
    <2>5. QED BY <2>3, <2>4
<1>6. QED BY <1>3, <1>4, <1>5

LEMMA StartIs ==
    ASSUME NEW f \in [Names -> Node], NEW p \in Path, NEW args
    PROVE  /\ Start(f, p, args) # Refused => Startable(Start(f, p, args).file)
           /\ ~Script(HostFile(f, p)) => Start(f, p, args) = StartElf(f, args)[HostFile(f, p)]
<1>1. PICK i \in MaybeFile : i = HostFile(f, p)
    BY HostFileTyped
<1>2. Start(f, p, args) = StartFile(f, p, args)[i]
    BY <1>1 DEF Start, HostFile
<1>3. CASE ~Script(i)
    <2>1. Start(f, p, args) = StartElf(f, args)[i]
        BY <1>2, <1>3 DEF StartFile, Script
    <2>2. StartElf(f, args)[i] # Refused => Startable(i) /\ StartElf(f, args)[i].file = i
        BY StartElfIs
    <2>3. QED BY <1>1, <2>1, <2>2
<1>4. CASE Script(i)
    <2>1. PICK j \in MaybeFile : j = HostFile(f, Programs[i].interp)
        <3>1. Programs[i].interp \in Path
            BY <1>4, Files DEF Script
        <3>2. HostFile(f, Programs[i].interp) \in MaybeFile
            BY <3>1, HostFileTyped
        <3>3. QED BY <3>2
    <2>2. PICK more : more = <<Programs[i].interp, p>> \o Tail(args)
        OBVIOUS
    <2>3. Start(f, p, args) = IF Programs[i].xbit THEN StartElf(f, more)[j] ELSE Refused
        BY <1>2, <1>4, <2>1, <2>2 DEF StartFile, Script, HostFile
    <2>4. StartElf(f, more)[j] # Refused =>
              Startable(j) /\ StartElf(f, more)[j].file = j
        BY StartElfIs
    <2>5. Start(f, p, args) # Refused => Startable(Start(f, p, args).file)
        BY <2>3, <2>4
    <2>6. QED BY <1>1, <1>4, <2>5
<1>5. QED BY <1>3, <1>4

LEMMA RunLoaderIs ==
    ASSUME NEW f, NEW l, NEW p, NEW rest, RunLoader(f, l, p, rest) # Refused
    PROVE  RunLoader(f, l, p, rest).file = HostFile(f, p) /\ ElfFile(HostFile(f, p))
<1>1. PICK i : i = HostFile(f, p)
    OBVIOUS
<1>2. RunLoader(f, l, p, rest) = IF ElfFile(i) /\ Programs[i].native
                                 THEN [file |-> i, loader |-> l, argv |-> <<p>> \o rest]
                                 ELSE Refused
    BY <1>1 DEF RunLoader, HostFile
<1>3. QED BY <1>1, <1>2

(***************************************************************************)
(* What a hook has seen still holds while nobody changes anything          *)
(***************************************************************************)

Undisturbed == changes = 0 => began = fs

Waiting ==
    /\ pc = "idle" \/ InCall => out = "none"
    /\ pc = "launch" => call.fn = "lroot"

\* The environment of the program in which the hook runs.
Origin == pc \in Steps => from = image.env

\* A call that ought to have the library in what it starts.
Passing ==
    /\ ~forkless /\ "LD_PRELOAD" \in PassedEnv(call)
    /\ call.fn = "execveat" => IsAbsolute(call.path)

Dynamic(i) == Programs[i].interp # <<>> /\ ~Programs[i].setuid

Sighted == changes = 0 =>
    /\ pc \in {"decide", "ptrace", "loader"} =>
         info = IF ElfFile(HostFile(fs, ptr.path)) THEN HostFile(fs, ptr.path) ELSE NoFile
    /\ pc = "loader" => Programs[info].interp # <<>> /\ (Passing => Dynamic(info))
    /\ pc = "kernel" /\ Passing /\ Startable(HostFile(fs, ptr.path))
             /\ OfHostArch(HostFile(fs, ptr.path)) =>
         Dynamic(HostFile(fs, ptr.path))

HookWatched == call.fn # "lroot" => Watched

WatchInv == Typed /\ Undisturbed /\ Waiting /\ Origin /\ Sighted /\ HookWatched

\* A program that a hook has started.
LEMMA StartedWatched ==
    ASSUME WatchInv, pc \in Steps, NEW s, NEW via, Becomes(s, via), s.file # NoFile,
           UNCHANGED <<fs, call, forkless, history, relinks>>,
           changes = 0 /\ Passing /\ s.file = HostFile(fs, ptr.path) /\ OfHostArch(s.file) =>
               via = "ptrace" \/ (/\ Programs[s.file].interp # <<>>
                                  /\ Programs[s.file].setuid => via = "loader")
    PROVE  Watched'
<1>1. /\ image'.file = s.file /\ image'.env = PassedEnv(call)
      /\ image'.via = via /\ image'.exe = ptr.path /\ image'.lib = image.lib
    BY DEF Becomes
<1>2. call' = call /\ call.fn # "lroot" /\ fs' = fs /\ changes' = changes
      /\ forkless' = forkless
    BY ExecAssumption DEF WatchInv, Typed, Called, history
<1>3. SUFFICES ASSUME changes = 0, ~forkless, "LD_PRELOAD" \in PassedEnv(call),
                      call.fn = "execveat" => IsAbsolute(call.path),
                      s.file = HostFile(fs, ptr.path), OfHostArch(s.file),
                      Programs[s.file].interp # <<>> => Fits(image'.lib, s.file),
                      via # "ptrace"
               PROVE  Hooked(image')
    BY <1>1, <1>2 DEF Watched, HostFile, OfHostArch
<1>4. Programs[s.file].interp # <<>> /\ (Programs[s.file].setuid => via = "loader")
    BY <1>3 DEF Passing
<1>5. QED BY <1>1, <1>3, <1>4 DEF Hooked

\* A call that has come to nothing.
LEMMA NotStarted ==
    ASSUME WatchInv, Fails \/ Ends, pc # "idle",
           UNCHANGED <<fs, call, forkless, history, relinks>>, Typed'
    PROVE  WatchInv'
<1>1. out' \in {"failed", "gone"} /\ pc' \in {"run", "over"}
    BY DEF Fails, Ends, Leaves
<1>2. Undisturbed'
    BY DEF WatchInv, Undisturbed, history
<1>3. Waiting' /\ Origin' /\ Sighted'
    BY <1>1 DEF Waiting, Origin, Sighted, InCall, Steps
<1>4. HookWatched'
    BY <1>1 DEF HookWatched, Watched
<1>5. QED BY <1>2, <1>3, <1>4 DEF WatchInv

\* A call that has started a program in a hook.
LEMMA Started ==
    ASSUME WatchInv, pc \in Steps, NEW s, NEW via, Becomes(s, via),
           UNCHANGED <<fs, call, forkless, history, relinks>>, Typed', Watched'
    PROVE  WatchInv'
<1>1. out' = "started" /\ pc' = "run"
    BY DEF Becomes, Leaves
<1>2. Undisturbed'
    BY DEF WatchInv, Undisturbed, history
<1>3. Waiting' /\ Origin' /\ Sighted'
    BY <1>1 DEF Waiting, Origin, Sighted, InCall, Steps
<1>4. QED BY <1>2, <1>3 DEF WatchInv, HookWatched

\* A step within a call.
LEMMA GoesOn ==
    ASSUME WatchInv, pc \in Steps, pc' \in Steps, UNCHANGED <<fs, image, call, out, history>>,
           Typed', Sighted'
    PROVE  WatchInv'
<1>1. out' = "none"
    BY DEF WatchInv, Waiting, InCall, Steps
<1>2. HookWatched'
    BY <1>1 DEF HookWatched, Watched
<1>3. Undisturbed' /\ Origin' /\ Waiting'
    BY <1>1 DEF WatchInv, Undisturbed, Origin, Waiting, history, Steps
<1>4. QED BY <1>2, <1>3 DEF WatchInv

LEMMA BeginWatched ==
    ASSUME WatchInv, Take \/ Call, Typed'
    PROVE  WatchInv'
<1>1. /\ changes' = 0 /\ began' = fs /\ fs' = fs /\ out' = "none"
      /\ pc' \in {"launch", "search"}
      /\ pc' = "launch" => call'.fn = "lroot"
      /\ pc' = "search" => from' = image.env /\ image' = image
    BY DEF Take, Call, WatchInv, Waiting
<1>2. HookWatched'
    BY <1>1 DEF HookWatched, Watched
<1>3. Undisturbed' /\ Waiting' /\ Origin' /\ Sighted'
    BY <1>1 DEF Undisturbed, Waiting, Origin, Sighted, Steps
<1>4. QED BY <1>2, <1>3 DEF WatchInv

LEMMA LaunchWatched ==
    ASSUME WatchInv, Launch, Typed'
    PROVE  WatchInv'
<1>1. pc = "launch" /\ UNCHANGED <<fs, call, forkless, history, relinks>>
    BY DEF Launch
<1>2. Ends \/ (pc' = "run" /\ Leaves("started"))
    BY DEF Launch
<1>3. CASE Ends
    BY <1>1, <1>3, NotStarted
<1>4. CASE pc' = "run" /\ Leaves("started")
    <2>1. call'.fn = "lroot"
        BY <1>1 DEF WatchInv, Waiting
    <2>2. HookWatched'
        BY <2>1 DEF HookWatched
    <2>3. Undisturbed' /\ Waiting' /\ Origin' /\ Sighted'
        BY <1>1, <1>4 DEF WatchInv, Undisturbed, Waiting, Origin, Sighted, Steps, InCall, history
    <2>4. QED BY <2>2, <2>3 DEF WatchInv
<1>5. QED BY <1>2, <1>3, <1>4

\* Where a call goes from its search.
LEMMA SearchLeads ==
    ASSUME EnterExec \/ EnterRaw \/ EnterPath \/ EnterName
    PROVE  \/ Fails
           \/ EnterRaw
           \/ pc' = "links" /\ UNCHANGED <<image, out>>
<1>1. ASSUME EnterName
      PROVE  Fails \/ (pc' = "links" /\ UNCHANGED <<image, out>>)
    <2> DEFINE hits == {j \in DOMAIN SearchDirs :
                          MayExecute(Join(SearchDirs[j], call.path))}
               p(k) == [place |-> "caller", path |-> Join(SearchDirs[k], call.path)]
    <2>1. IF FirstDir[hits] = 0 THEN Fails ELSE Enter(p(FirstDir[hits]))
        BY <1>1 DEF EnterName
    <2>2. ASSUME NEW q, Enter(q)
          PROVE  pc' = "links" /\ UNCHANGED <<image, out>>
        BY <2>2 DEF Enter
    <2> HIDE DEF hits, p
    <2>3. QED BY <2>1, <2>2, Zenon
<1>2. QED BY <1>1 DEF EnterExec, EnterPath, Enter

LEMMA SearchWatched ==
    ASSUME WatchInv, EnterExec \/ EnterRaw \/ EnterPath \/ EnterName, Typed'
    PROVE  WatchInv'
<1>1. pc = "search" /\ pc \in Steps /\ UNCHANGED <<fs, call, forkless, history, relinks>>
    BY DEF EnterExec, EnterRaw, EnterPath, EnterName, Steps
<1>2. \/ Fails
      \/ EnterRaw
      \/ pc' = "links" /\ UNCHANGED <<image, out>>
    BY SearchLeads
<1>3. CASE Fails
    BY <1>1, <1>3, NotStarted
<1>4. CASE EnterRaw
    <2>1. pc' = "kernel" /\ UNCHANGED <<image, out, forkless, call>>
        BY <1>4 DEF EnterRaw, frame
    <2>2. ~Passing
        BY <1>4 DEF EnterRaw, Passing, PassedEnv, NullEnv
    <2>3. Sighted'
        BY <2>1, <2>2 DEF Sighted, Passing, PassedEnv, NullEnv
    <2>4. QED BY <1>1, <2>1, <2>3, GoesOn DEF Steps
<1>5. CASE pc' = "links" /\ UNCHANGED <<image, out>>
    <2>1. Sighted'
        BY <1>5 DEF Sighted
    <2>2. QED BY <1>1, <1>5, <2>1, GoesOn DEF Steps
<1>6. QED BY <1>2, <1>3, <1>4, <1>5

LEMMA LinksWatched ==
    ASSUME WatchInv, LoseBuffer \/ FollowLink \/ StopFollowing, Typed'
    PROVE  WatchInv'
<1>1. /\ pc = "links" /\ pc' \in {"links", "probe"}
      /\ UNCHANGED <<fs, image, call, out, history>>
    BY DEF LoseBuffer, FollowLink, StopFollowing, history
<1>2. Sighted'
    BY <1>1 DEF Sighted
<1>3. QED BY <1>1, <1>2, GoesOn DEF Steps

LEMMA RelinkWatched ==
    ASSUME WatchInv, Relink, Typed'
    PROVE  WatchInv'
<1>1. changes' # 0 /\ UNCHANGED <<pc, call, image, out, from>> /\ InCall
    BY DEF Relink, WatchInv, Typed, TypeOK
<1>2. out' = "none"
    BY <1>1 DEF WatchInv, Waiting
<1>3. HookWatched'
    BY <1>2 DEF HookWatched, Watched
<1>4. Undisturbed' /\ Waiting' /\ Origin' /\ Sighted'
    BY <1>1, <1>2 DEF WatchInv, Undisturbed, Waiting, Origin, Sighted
<1>5. QED BY <1>3, <1>4 DEF WatchInv

LEMMA ProbeWatched ==
    ASSUME WatchInv, Probe, Typed'
    PROVE  WatchInv'
<1>1. /\ pc = "probe" /\ pc' = "decide" /\ ptr' = ptr /\ fs' = fs
      /\ UNCHANGED <<image, call, out, history>>
      /\ info' = ReadElfInfo(fs, ptr.path)
    BY DEF Probe, history
<1>2. info' = IF ElfFile(HostFile(fs, ptr.path)) THEN HostFile(fs, ptr.path) ELSE NoFile
    BY <1>1, Zenon DEF ReadElfInfo, HostFile
<1>3. Sighted'
    BY <1>1, <1>2 DEF Sighted
<1>4. QED BY <1>1, <1>3, GoesOn DEF Steps

LEMMA DecideWatched ==
    ASSUME WatchInv, Decide \/ ForkFails, Typed'
    PROVE  WatchInv'
<1> DEFINE h == HostFile(fs, ptr.path)
<1>1. /\ pc \in {"decide", "ptrace"} /\ pc' \in {"ptrace", "loader", "kernel"}
      /\ UNCHANGED <<fs, image, call, ptr, info, out, history>>
    BY DEF Decide, ForkFails, AfterPtrace, history, frame
<1>2. changes = 0 => info = IF ElfFile(h) THEN h ELSE NoFile
    BY <1>1 DEF WatchInv, Sighted
<1>3. SetuidNow <=> h \in DOMAIN Programs /\ Programs[h].setuid
    BY Zenon DEF SetuidNow, HostFile
<1>4. Startable(h) => ElfFile(h)
    BY DEF Startable
<1>5. ElfFile(h) => h \in DOMAIN Programs /\ h # NoFile
    BY Files DEF ElfFile
<1>6. h' = h
    BY <1>1
<1> HIDE DEF h
<1>7. CASE ForkFails
    <2>1. ~Passing'
        BY <1>7 DEF ForkFails, Passing
    <2>2. pc' = "loader" => Programs[info].interp # <<>>
        BY <1>7 DEF ForkFails, AfterPtrace
    <2>3. Sighted'
        BY <1>1, <1>2, <1>6, <2>1, <2>2 DEF Sighted, h, history
    <2>4. QED BY <1>1, <2>3, GoesOn DEF Steps
<1>8. CASE Decide
    <2>1. pc' = "loader" => ~SetuidNow /\ Programs[info].interp # <<>> /\ info # NoFile
        BY <1>8 DEF Decide, AfterPtrace
    <2>2. pc' = "kernel" => \/ info = NoFile \/ ~OfHostArch(info)
                            \/ ~SetuidNow /\ Programs[info].interp # <<>>
        BY <1>8 DEF Decide, AfterPtrace
    <2>3. changes = 0 /\ pc' = "loader" => Dynamic(info)
        BY <1>2, <1>3, <1>5, <2>1 DEF Dynamic
    <2>4. changes = 0 /\ pc' = "kernel" /\ Startable(h) /\ OfHostArch(h) => Dynamic(h)
        BY <1>2, <1>3, <1>4, <1>5, <2>2 DEF Dynamic
    <2>5. OfHostArch(h)' <=> OfHostArch(h)
        BY <1>1, <1>6 DEF OfHostArch
    <2>6. Sighted'
        BY <1>1, <1>2, <1>6, <2>1, <2>3, <2>4, <2>5 DEF Sighted, h, history
    <2>7. QED BY <1>1, <2>6, GoesOn DEF Steps
<1>9. QED BY <1>7, <1>8

LEMMA WaysWatched ==
    ASSUME WatchInv, Ptrace \/ Loader \/ Kernel, Typed'
    PROVE  WatchInv'
<1> DEFINE h == HostFile(fs, ptr.path)
<1>1. /\ pc \in {"ptrace", "loader", "kernel"} /\ pc \in Steps
      /\ UNCHANGED <<fs, call, forkless, history, relinks>>
      /\ fs \in [Names -> Node] /\ ptr.path \in Path
    BY DEF Ptrace, Loader, Kernel, Steps, WatchInv, Typed, TypeOK
<1>2. ASSUME NEW i, Startable(i)
      PROVE  i # NoFile
    BY <1>2, Files DEF Startable, ElfFile
<1>3. ASSUME Fails \/ Ends
      PROVE  WatchInv'
    BY <1>1, <1>3, NotStarted
<1>4. PICK s : s = Start(fs, ptr.path, argv)
    OBVIOUS
<1>5. s # Refused => Startable(s.file) /\ s.file # NoFile
    BY <1>1, <1>2, <1>4, StartIs
<1>6. CASE Ptrace
    <2>1. IF s = Refused THEN Ends ELSE Becomes(s, "ptrace")
        BY <1>4, <1>6 DEF Ptrace
    <2>2. ASSUME s # Refused
          PROVE  WatchInv'
        <3>1. Becomes(s, "ptrace")
            BY <2>1, <2>2
        <3>2. Watched'
            BY <1>1, <1>5, <2>2, <3>1, StartedWatched
        <3>3. QED BY <1>1, <3>1, <3>2, Started
    <2>3. QED BY <1>3, <2>1, <2>2
<1>7. CASE Kernel
    <2>1. IF s = Refused THEN Fails ELSE Becomes(s, "kernel")
        BY <1>4, <1>7 DEF Kernel
    <2>2. ASSUME s # Refused
          PROVE  WatchInv'
        <3>1. Becomes(s, "kernel")
            BY <2>1, <2>2
        <3>2. changes = 0 /\ Passing /\ s.file = h /\ OfHostArch(s.file) => Dynamic(s.file)
            BY <1>5, <1>7, <2>2 DEF Kernel, WatchInv, Sighted
        <3>3. Watched'
            BY <1>1, <1>5, <2>2, <3>1, <3>2, StartedWatched DEF Dynamic
        <3>4. QED BY <1>1, <3>1, <3>3, Started
    <2>3. QED BY <1>3, <2>1, <2>2
<1>8. CASE Loader
    <2>1. PICK l : l = HostFile(fs, Rootfs \o Programs[info].interp)
        OBVIOUS
    <2>2. PICK r : r = RunLoader(fs, l, ptr.path, Tail(argv))
        OBVIOUS
    <2>3. pc = "loader" /\ IF ~Rooted \/ ~Startable(l)
                           THEN pc' = "kernel" /\ UNCHANGED <<image, frame, out>>
                           ELSE IF r = Refused THEN Ends ELSE Becomes(r, "loader")
        BY <1>8, <2>1, <2>2, Zenon DEF Loader, HostFile
    <2>4. changes = 0 => /\ info = IF ElfFile(h) THEN h ELSE NoFile
                         /\ Programs[info].interp # <<>>
                         /\ Passing => Dynamic(info)
        BY <2>3 DEF WatchInv, Sighted
    <2>5. ASSUME pc' = "kernel", UNCHANGED <<image, frame, out>>
          PROVE  WatchInv'
        <3>1. h' = h /\ Passing' = Passing /\ OfHostArch(h)' = OfHostArch(h)
            BY <1>1, <2>5 DEF frame, Passing, PassedEnv, NullEnv, OfHostArch
        <3>2. Startable(h) => ElfFile(h)
            BY DEF Startable
        <3> HIDE DEF h
        <3>3. Sighted'
            BY <1>1, <2>4, <2>5, <3>1, <3>2 DEF Sighted, h, history
        <3>4. QED BY <1>1, <2>5, <3>3, GoesOn DEF Steps
    <2>6. ASSUME r # Refused, Becomes(r, "loader")
          PROVE  WatchInv'
        <3>1. r.file = h /\ ElfFile(h)
            BY <2>2, <2>6, RunLoaderIs
        <3>2. r.file # NoFile
            BY <3>1, Files DEF ElfFile
        <3>3. changes = 0 => Programs[r.file].interp # <<>>
            BY <2>4, <3>1
        <3>4. Watched'
            BY <1>1, <2>6, <3>2, <3>3, StartedWatched
        <3>5. QED BY <1>1, <2>6, <3>4, Started
    <2>7. QED BY <1>3, <2>3, <2>5, <2>6
<1>9. QED BY <1>6, <1>7, <1>8

LEMMA NextWatched == WatchInv /\ [Next]_vars => WatchInv'
<1> SUFFICES ASSUME WatchInv, [Next]_vars PROVE WatchInv'
    OBVIOUS
<1>1. Typed'
    BY NextTyped DEF WatchInv
<1>2. CASE UNCHANGED vars
    <2>1. UNCHANGED <<fs, image, pc, call, ptr, turn, argv, info, forkless, out, from,
                      began, changes>>
        BY <1>2 DEF vars, frame, history
    <2>2. Undisturbed' /\ Waiting' /\ Origin'
        BY <2>1 DEF WatchInv, Undisturbed, Waiting, Origin, InCall
    <2>3. Sighted'
        BY <2>1 DEF WatchInv, Sighted, Passing, PassedEnv, NullEnv, OfHostArch
    <2>4. HookWatched'
        BY <2>1 DEF WatchInv, HookWatched, Watched, OrdinaryThroughout, AbsLinkMade, Ordinary,
                    StartsAt, Hooked, OfHostArch
    <2>5. QED BY <1>1, <2>2, <2>3, <2>4 DEF WatchInv
<1>3. CASE Next
    BY <1>1, <1>3, BeginWatched, LaunchWatched, SearchWatched, LinksWatched, RelinkWatched,
       ProbeWatched, DecideWatched, WaysWatched DEF Next, Advance
<1>4. QED BY <1>2, <1>3

\* What a hook knows holds in every state.
THEOREM WatchInvariant == Spec => []WatchInv
<1>1. Init => WatchInv
    <2> SUFFICES ASSUME Init PROVE WatchInv
        OBVIOUS
    <2>1. Undisturbed /\ Waiting /\ Origin /\ Sighted /\ HookWatched
        BY DEF Init, Undisturbed, Waiting, Origin, Sighted, HookWatched, Watched, Steps, InCall
    <2>2. QED BY <2>1, InitTyped DEF WatchInv
<1>2. WatchInv /\ [Next]_vars => WatchInv'
    BY NextWatched
<1>3. QED BY <1>1, <1>2, PTL DEF Spec

\* No hook starts a program for the machine of its library behind the back of
\* lroot: what it starts has the library loaded into it or is traced, static or
\* setuid as it may be, however many links the path leads through, whichever
\* way the program is started, as long as nobody changes a file meanwhile
\* (lib.rs:485-545, 1892-2008, 2138-2200).  Of what lroot itself starts,
\* ProgramsWatched says it.
THEOREM HooksKeepWatch == Spec => [](call.fn # "lroot" => Watched)
<1>1. WatchInv => (call.fn # "lroot" => Watched)
    BY DEF WatchInv, HookWatched
<1>2. QED BY <1>1, WatchInvariant, PTL


(***************************************************************************)
(* More of iterations                                                      *)
(***************************************************************************)

\* What an iteration has come into, and leads into itself, it stays in.
LEMMA StaysFrom ==
    ASSUME NEW N \in Nat, NEW H, NEW g, NEW S, NEW j \in 0..N,
           \A n \in 0..N : n # N => g[n + 1] = H[g[n]],
           g[j] \in S, \A n \in 0..N : g[n] \in S => H[g[n]] \in S
    PROVE  \A n \in j..N : g[n] \in S
<1> DEFINE T == {n \in Nat : j <= n /\ n <= N => g[n] \in S}
<1>1. 0 \in T
    <2> SUFFICES ASSUME j <= 0 PROVE g[0] \in S
        OBVIOUS
    <2>1. j = 0
        OBVIOUS
    <2>2. QED BY <2>1
<1>2. \A n \in Nat : n \in T => n + 1 \in T
    <2> SUFFICES ASSUME NEW n \in Nat, n \in T, j <= n + 1, n + 1 <= N PROVE g[n + 1] \in S
        OBVIOUS
    <2>1. CASE j = n + 1
        BY <2>1
    <2>2. CASE j # n + 1
        <3>1. n \in 0..N /\ n # N /\ g[n] \in S
            BY <2>2
        <3>2. g[n + 1] = H[g[n]] /\ H[g[n]] \in S
            BY <3>1
        <3>3. QED BY <3>2
    <2>3. QED BY <2>1, <2>2
<1> HIDE DEF T
<1>3. Nat \subseteq T
    BY <1>1, <1>2, SetInduction
<1>4. QED BY <1>3 DEF T

\* One that comes back to where it has been, and in the end stands still, had
\* come to its end already.
LEMMA NoReturn ==
    ASSUME NEW N \in Nat, NEW H, NEW g, NEW j \in 0..N, NEW k \in 0..N, j < k, g[j] = g[k],
           \A n \in 0..N : n # N => g[n + 1] = H[g[n]],
           H[g[N]] = g[N]
    PROVE  g[k] = g[N]
<1> DEFINE C == {g[i] : i \in j..(k - 1)}
<1>1. \A n \in 0..N : g[n] \in C => H[g[n]] \in C
    <2> SUFFICES ASSUME NEW i \in j..(k - 1) PROVE H[g[i]] \in C
        OBVIOUS
    <2>1. i \in 0..N /\ i # N /\ H[g[i]] = g[i + 1]
        OBVIOUS
    <2>2. CASE i = k - 1
        <3>1. H[g[i]] = g[j] /\ j \in j..(k - 1)
            BY <2>1, <2>2
        <3>2. QED BY <3>1
    <2>3. CASE i # k - 1
        <3>1. i + 1 \in j..(k - 1)
            BY <2>3
        <3>2. QED BY <2>1, <3>1
    <2>4. QED BY <2>2, <2>3
<1>2. g[j] \in C
    <2>1. j \in j..(k - 1)
        OBVIOUS
    <2>2. QED BY <2>1
<1>3. \A n \in j..N : g[n] \in C
    <2> HIDE DEF C
    <2>1. QED BY <1>1, <1>2, StaysFrom
<1>4. PICK i \in j..(k - 1) : g[N] = g[i]
    <2>1. N \in j..N
        OBVIOUS
    <2>2. QED BY <1>3, <2>1
<1> HIDE DEF C
<1>5. \A n \in i..N : g[n] \in {g[N]}
    <2>1. i \in 0..N /\ g[i] \in {g[N]} /\ \A n \in 0..N : g[n] \in {g[N]} => H[g[n]] \in {g[N]}
        BY <1>4
    <2>2. QED BY <2>1, StaysFrom
<1>6. k \in i..N
    OBVIOUS
<1>7. QED BY <1>5, <1>6

\* Two iterations go the same way as long as the two functions agree on it.
LEMMA GoAlike ==
    ASSUME NEW N \in Nat, NEW p, NEW G, NEW H, NEW g, NEW h, NEW t \in 0..N,
           Iteration(g, N, p, G), Iteration(h, N, p, H),
           \A n \in 0..(t - 1) : H[g[n]] = G[g[n]]
    PROVE  \A n \in 0..t : h[n] = g[n]
<1>1. g[0] = p /\ \A n \in 0..N : n # N => g[n + 1] = G[g[n]]
    BY IterationSteps
<1>2. h[0] = p /\ \A n \in 0..N : n # N => h[n + 1] = H[h[n]]
    BY IterationSteps
<1> DEFINE T == {n \in Nat : n <= t => h[n] = g[n]}
<1>3. 0 \in T
    BY <1>1, <1>2
<1>4. \A n \in Nat : n \in T => n + 1 \in T
    <2> SUFFICES ASSUME NEW n \in Nat, n \in T, n + 1 <= t PROVE h[n + 1] = g[n + 1]
        OBVIOUS
    <2>1. n \in 0..N /\ n # N /\ n \in 0..(t - 1) /\ h[n] = g[n]
        OBVIOUS
    <2>2. QED BY <1>1, <1>2, <2>1
<1> HIDE DEF T
<1>5. Nat \subseteq T
    BY <1>3, <1>4, SetInduction
<1>6. QED BY <1>5 DEF T

(***************************************************************************)
(* What translation does                                                   *)
(***************************************************************************)

\* The rootfs and the sources of the binds are absolute paths.
AbsoluteRoots ==
    /\ Rootfs = <<>> \/ IsAbsolute(Rootfs)
    /\ \A i \in 1..Len(Binds) : IsAbsolute(Binds[i].src)

LEMMA TranslatedIs ==
    ASSUME NEW p \in Path
    PROVE  /\ Translated[p].place = "caller" => Translated[p].path = p
           /\ ~IsAbsolute(p) => Translated[p].path = p
           /\ AbsoluteRoots /\ Translated[p].place = "tlbuf" => IsAbsolute(Translated[p].path)
<1>1. Translated[p] = Translate(p)
    BY DEF Translated
<1>2. ASSUME AbsoluteRoots, ~PassesThrough(p)
      PROVE  IsAbsolute(Image(p))
    <2>1. ASSUME NEW q \in Path, NEW r \in Path, IsAbsolute(q)
          PROVE  IsAbsolute(q \o r)
        <3>1. Len(q) \in Nat \ {0} /\ Len(r) \in Nat
            BY <2>1, LenProperties, EmptySeq DEF IsAbsolute, Path
        <3>2. Len(q \o r) # 0 /\ (q \o r)[1] = q[1]
            BY <3>1, ConcatProperties DEF Path
        <3>3. QED BY <2>1, <3>2, EmptySeq DEF IsAbsolute
    <2>2. CASE FirstBind(p) = 0
        <3>1. IsAbsolute(Rootfs) /\ Rootfs \in Path
            BY <1>2, PathAssumption, RootfsNotEmpty DEF AbsoluteRoots
        <3>2. QED BY <2>1, <2>2, <3>1 DEF Image
    <2>3. CASE FirstBind(p) # 0
        <3> DEFINE b == Binds[FirstBind(p)]
        <3>1. FirstBind(p) \in 1..Len(Binds) /\ b.src \in Path /\ IsAbsolute(b.src)
            BY <1>2, <2>3, FirstBindMatches, MountsTyped DEF AbsoluteRoots
        <3>2. Drop(p, Len(b.dst)) \in Path
            <4>1. b.dst \in Path /\ Under(b.dst, p)
                BY <2>3, <3>1, FirstBindMatches, MountsTyped
            <4>2. Len(b.dst) \in Nat /\ Len(b.dst) <= Len(p)
                BY <4>1, PrefixByIndex, LenProperties DEF Under, Path
            <4>3. QED BY <4>2, DropTyped
        <3>3. Image(p) = b.src \o Drop(p, Len(b.dst))
            BY <2>3 DEF Image
        <3> HIDE DEF b
        <3>4. QED BY <2>1, <3>1, <3>2, <3>3
    <2>4. QED BY <2>2, <2>3
<1>3. QED BY <1>1, <1>2 DEF Translate

(***************************************************************************)
(* What a call means                                                       *)
(***************************************************************************)

OnWay(f, c) == GuestWay(f, StartsAt(f, c))

LEMMA StartsAtTyped ==
    ASSUME NEW f \in [Names -> Node], NEW c, c.path \in Path
    PROVE  StartsAt(f, c) \in Path
<1>1. \A q \in Path : Resolved[Cwd][Translated[q].path] \in Path
    BY TranslatedTyped, ResolveTyped, ExecAssumption
<1>2. Hits(f, c.path) \in SUBSET DOMAIN SearchDirs
    BY DEF Hits
<1>3. PICK k : k = FirstDir[Hits(f, c.path)]
    OBVIOUS
<1>4. k \in Nat /\ (k # 0 => k \in DOMAIN SearchDirs)
    BY <1>2, <1>3, FirstDirIs
<1>5. k # 0 => Join(SearchDirs[k], c.path) \in Path
    BY <1>4, SearchDirTyped
<1>6. StartsAt(f, c) =
        IF c.fn \in {"lroot", "execvp"} /\ Bare(c.path)
        THEN IF k = 0 THEN <<>>
             ELSE Resolved[Cwd][Translated[Join(SearchDirs[k], c.path)].path]
        ELSE Resolved[Cwd][Translated[c.path].path]
    BY <1>3, <1>4 DEF StartsAt
<1>7. QED BY <1>1, <1>5, <1>6, Files

LEMMA WayIs ==
    ASSUME NEW f, NEW c
    PROVE  /\ \A n \in 0..KernelTurns : Way(f, c)[n] = NodeAt(f)[OnWay(f, c)[n]]
           /\ Meant(f, c) = FileOf[NodeAt(f)[OnWay(f, c)[KernelTurns]]]
<1>1. Way(f, c) = [n \in 0..KernelTurns |-> NodeAt(f)[OnWay(f, c)[n]]]
    BY Zenon DEF Way, OnWay, GuestWay
<1>2. KernelTurns \in 0..KernelTurns
    BY ExecAssumption
<1>3. QED BY <1>1, <1>2 DEF Meant

\* The absolute links on the way of a call the code takes on come first.
LEMMA LinksComeFirst ==
    ASSUME NEW f \in [Names -> Node], NEW c, LinksFollowed(Way(f, c))
    PROVE  /\ NodeAt(f)[OnWay(f, c)[KernelTurns]].kind # "link"
           /\ \A n \in 0..KernelTurns : AbsLinkAt(f, OnWay(f, c)[n]) =>
                 /\ n < Turns /\ n # KernelTurns
                 /\ \A m \in 0..n : AbsLinkAt(f, OnWay(f, c)[m])
                 /\ Translated[NodeAt(f)[OnWay(f, c)[n]].text].place = "tlbuf"
<1> DEFINE way == Way(f, c)
<1>1. KernelTurns \in Nat /\ KernelTurns \in 0..KernelTurns
    BY ExecAssumption
<1>2. \A n \in 0..KernelTurns : way[n] = NodeAt(f)[OnWay(f, c)[n]]
    BY WayIs
<1> HIDE DEF way
<1>3. /\ way[KernelTurns].kind # "link"
      /\ \A n \in AbsLinks(way) : /\ n < Turns
                                  /\ 0..n \subseteq AbsLinks(way)
                                  /\ Translated[way[n].text].place = "tlbuf"
    BY DEF LinksFollowed, way
<1>4. \A n \in 0..KernelTurns : AbsLinkAt(f, OnWay(f, c)[n]) =>
                                    n # KernelTurns /\ n \in AbsLinks(way)
    BY <1>1, <1>2, <1>3 DEF AbsLinkAt, AbsLinks
<1>5. \A n \in AbsLinks(way) : n \in 0..KernelTurns /\ AbsLinkAt(f, OnWay(f, c)[n])
    BY <1>1, <1>2 DEF AbsLinkAt, AbsLinks
<1>6. ASSUME NEW n \in 0..KernelTurns, AbsLinkAt(f, OnWay(f, c)[n])
      PROVE  /\ n < Turns /\ n # KernelTurns
             /\ \A m \in 0..n : AbsLinkAt(f, OnWay(f, c)[m])
             /\ Translated[NodeAt(f)[OnWay(f, c)[n]].text].place = "tlbuf"
    <2>1. n # KernelTurns /\ n \in AbsLinks(way)
        BY <1>4, <1>6
    <2>2. n < Turns /\ 0..n \subseteq AbsLinks(way) /\ Translated[way[n].text].place = "tlbuf"
        BY <1>3, <2>1
    <2>3. QED BY <1>2, <1>5, <2>1, <2>2
<1>7. QED BY <1>1, <1>2, <1>3, <1>6

LEMMA OrdinaryMeans ==
    ASSUME NEW f \in [Names -> Node], NEW c, c.fn # "lroot", Ordinary(f, c)
    PROVE  /\ LinksFollowed(Way(f, c))
           /\ c.fn = "execveat" /\ ~IsAbsolute(c.path) => AbsLinks(Way(f, c)) = {}
           /\ c.fn = "execvp" /\ Bare(c.path) =>
                 /\ "PATH" \in from
                 /\ \A k \in DOMAIN SearchDirs : FoundAlike(f, Join(SearchDirs[k], c.path))
           /\ c.fn = "execvp" => Translated[Translated[c.path].path].place = "caller"
           /\ ~Script(Meant(f, c))
<1>1. PICK way : way = Way(f, c)
    OBVIOUS
<1>2. PICK i : i = FileOf[way[KernelTurns]]
    OBVIOUS
<1>3. /\ LinksFollowed(way)
      /\ c.fn = "execveat" /\ ~IsAbsolute(c.path) => AbsLinks(way) = {}
      /\ c.fn = "execvp" /\ Bare(c.path) =>
            /\ "PATH" \in from
            /\ \A k \in DOMAIN SearchDirs : FoundAlike(f, Join(SearchDirs[k], c.path))
      /\ c.fn = "execvp" => Translated[Translated[c.path].path].place = "caller"
      /\ i \in DOMAIN Programs => Programs[i].kind = "elf"
    BY <1>1, <1>2, Zenon DEF Ordinary
<1>4. Meant(f, c) = i
    BY <1>1, <1>2 DEF Meant
<1>5. QED BY <1>1, <1>3, <1>4 DEF Script

(***************************************************************************)
(* How far a hook has come                                                 *)
(***************************************************************************)

\* After t links the hook, with the path p, is on the way that leads from s
\* in f, and what lies before it on this way is in now as in f.
Along(f, now, s, p, t) ==
    /\ t \in 0..KernelTurns
    /\ Resolved[Cwd][p] = GuestWay(f, s)[t]
    /\ \A n \in t..KernelTurns : NodeAt(now)[GuestWay(f, s)[n]] = NodeAt(f)[GuestWay(f, s)[n]]
    /\ \A n \in 0..(t - 1) : AbsLinkAt(f, GuestWay(f, s)[n])

\* A name changes.  If the hook is past it, the way is still that of the old
\* file system, or else it is one of the new one.
LEMMA ChangeAlong ==
    ASSUME NEW b \in [Names -> Node], NEW now \in [Names -> Node], NEW s \in Path, NEW p, NEW t,
           Along(b, b, s, p, t), NEW x,
           \A q \in Path : q # x => NodeAt(now)[q] = NodeAt(b)[q],
           NodeAt(b)[GuestWay(b, s)[KernelTurns]].kind # "link"
    PROVE  \/ Along(b, now, s, p, t)
           \/ Along(now, now, s, p, t) /\ GuestWay(now, s)[t] = GuestWay(b, s)[t]
<1> DEFINE g == GuestWay(b, s)
           h == GuestWay(now, s)
<1>1. KernelTurns \in Nat /\ t \in 0..KernelTurns
    BY ExecAssumption DEF Along
<1>2. \A n \in 0..KernelTurns : g[n] \in Path /\ (n # KernelTurns => g[n + 1] = GuestHop(b)[g[n]])
    BY WaySteps
<1>3. g[0] = s /\ h[0] = s
      /\ \A n \in 0..KernelTurns : n # KernelTurns => h[n + 1] = GuestHop(now)[h[n]]
    BY WaySteps
<1>4. GuestHop(b)[g[KernelTurns]] = g[KernelTurns]
    <2>1. g[KernelTurns] \in Path /\ NodeAt(b)[g[KernelTurns]].kind # "link"
        BY <1>1, <1>2
    <2> HIDE DEF g
    <2>2. QED BY <2>1, HopAlike
<1>5. /\ Resolved[Cwd][p] = g[t]
      /\ \A n \in 0..(t - 1) : AbsLinkAt(b, g[n])
      /\ NodeAt(b)[g[KernelTurns]].kind # "link"
    BY DEF Along
<1>6. CASE \A n \in t..KernelTurns : g[n] # x
    <2>1. \A n \in t..KernelTurns : NodeAt(now)[g[n]] = NodeAt(b)[g[n]]
        BY <1>1, <1>2, <1>6
    <2>2. QED BY <1>1, <1>5, <2>1 DEF Along
<1>7. CASE \E n \in t..KernelTurns : g[n] = x
    <2>1. PICK k \in t..KernelTurns : g[k] = x
        BY <1>7
    <2> HIDE DEF g, h
    <2>2. ASSUME NEW n \in 0..(t - 1)
          PROVE  /\ NodeAt(now)[g[n]] = NodeAt(b)[g[n]]
                 /\ GuestHop(now)[g[n]] = GuestHop(b)[g[n]]
        <3>1. n \in 0..KernelTurns /\ k \in 0..KernelTurns /\ n < k
            BY <1>1
        <3>2. g[n] # x
            <4> SUFFICES ASSUME g[n] = x PROVE FALSE
                OBVIOUS
            <4>1. g[k] = g[KernelTurns]
                BY <1>1, <1>2, <1>4, <2>1, <3>1, NoReturn
            <4>2. QED BY <1>5, <2>1, <4>1 DEF AbsLinkAt
        <3>3. NodeAt(now)[g[n]] = NodeAt(b)[g[n]] /\ g[n] \in Path
            BY <1>2, <3>1, <3>2
        <3>4. QED BY <3>3, HopAlike
    <2>3. \A n \in 0..t : h[n] = g[n]
        <3>1. Iteration(g, KernelTurns, s, GuestHop(b))
            BY WalkIterates, Zenon DEF g, GuestWay, GuestHop
        <3>2. Iteration(h, KernelTurns, s, GuestHop(now))
            BY WalkIterates, Zenon DEF h, GuestWay, GuestHop
        <3>3. \A n \in 0..(t - 1) : GuestHop(now)[g[n]] = GuestHop(b)[g[n]]
            BY <2>2
        <3>4. QED BY <1>1, <3>1, <3>2, <3>3, GoAlike
    <2>4. \A n \in 0..(t - 1) : AbsLinkAt(now, h[n])
        BY <1>1, <1>5, <2>2, <2>3 DEF AbsLinkAt
    <2>5. h[t] = g[t]
        BY <1>1, <2>3
    <2>6. Along(now, now, s, p, t)
        BY <1>1, <1>5, <2>4, <2>5 DEF Along, h
    <2>7. QED BY <2>5, <2>6 DEF g, h
<1>8. QED BY <1>6, <1>7

LEMMA AlongBegins ==
    ASSUME NEW f \in [Names -> Node], NEW s \in Path, NEW p, Resolved[Cwd][p] = s
    PROVE  Along(f, f, s, p, 0)
<1>1. 0 \in 0..KernelTurns
    BY ExecAssumption
<1>2. GuestWay(f, s)[0] = s
    BY WaySteps
<1>3. QED BY <1>1, <1>2 DEF Along

\* The hook is on the guest's way in f, all links it has to follow itself
\* behind it once it has left the loop.
Follows(f) ==
    /\ Along(f, fs, StartsAt(f, call), ptr.path, turn)
    /\ IF pc = "links" THEN ptr.place \in {"caller", "tlbuf"}
                       ELSE ~AbsLinkAt(f, OnWay(f, call)[turn])

Guided ==
    pc \in Steps \ {"search"} /\ call.fn # "lroot" /\ OrdinaryThroughout =>
        \E f \in {began, fs} : Follows(f)

AtStart == pc = "search" => turn = 0 /\ ptr = [place |-> "caller", path |-> call.path]

HookMeant == call.fn # "lroot" => RunsMeant

MeantInv == AtStart /\ Guided /\ HookMeant

LEMMA SameThroughout ==
    ASSUME UNCHANGED <<fs, call, history>>
    PROVE  OrdinaryThroughout' <=> OrdinaryThroughout
BY DEF OrdinaryThroughout, AbsLinkMade, Ordinary, StartsAt, history

LEMMA NothingYet ==
    ASSUME WatchInv, pc' \in Steps \cup {"launch"}, UNCHANGED out, InCall
    PROVE  HookMeant'
<1>1. out' = "none"
    BY DEF WatchInv, Waiting
<1>2. QED BY <1>1 DEF HookMeant, RunsMeant

\* A step of a hook that has left the loop.
LEMMA StaysMeant ==
    ASSUME WatchInv, MeantInv, pc \in Steps \ {"search", "links"},
           pc' \in Steps \ {"search", "links"},
           UNCHANGED <<fs, call, ptr, turn, out, history>>
    PROVE  MeantInv'
<1>1. HookMeant'
    BY NothingYet DEF InCall, Steps
<1>2. Guided'
    <2> SUFFICES ASSUME (call.fn # "lroot")', OrdinaryThroughout'
                 PROVE  (\E f \in {began, fs} : Follows(f))'
        BY DEF Guided
    <2>1. OrdinaryThroughout
        BY SameThroughout
    <2>2. PICK f \in {began, fs} : Follows(f)
        BY <2>1 DEF MeantInv, Guided
    <2>3. Follows(f)'
        BY <2>2 DEF Follows
    <2>4. QED BY <2>2, <2>3 DEF history
<1>3. AtStart'
    BY DEF AtStart
<1>4. QED BY <1>1, <1>2, <1>3 DEF MeantInv

\* A step that ends the call without a program.
LEMMA EndsMeant ==
    ASSUME Fails \/ Ends
    PROVE  MeantInv'
BY DEF Fails, Ends, Leaves, MeantInv, AtStart, Guided, HookMeant, RunsMeant, Steps

\* Where a hook that has left the loop stands, the kernel finds what is meant.
LEMMA Reaches ==
    ASSUME WatchInv, MeantInv, pc \in Steps \ {"search", "links"}, OrdinaryThroughout
    PROVE  \E f \in {began, fs} : /\ HostFile(fs, ptr.path) = Meant(f, call)
                                  /\ ~Script(HostFile(fs, ptr.path))
<1>1. fs \in [Names -> Node] /\ began \in [Names -> Node] /\ ptr.path \in Path
      /\ call.path \in Path /\ call.fn # "lroot"
    BY ExecAssumption DEF WatchInv, Typed, TypeOK, Called, Steps
<1>2. PICK f \in {began, fs} : Follows(f)
    BY <1>1 DEF MeantInv, Guided
<1>3. f \in [Names -> Node] /\ Ordinary(f, call)
    BY <1>1, <1>2 DEF OrdinaryThroughout
<1>4. PICK s \in Path : s = StartsAt(f, call)
    BY <1>1, <1>3, StartsAtTyped
<1>5. PICK g : g = GuestWay(f, s)
    OBVIOUS
<1>6. LinksFollowed(Way(f, call)) /\ ~Script(Meant(f, call))
    BY <1>1, <1>3, OrdinaryMeans
<1>7. /\ turn \in 0..KernelTurns /\ Resolved[Cwd][ptr.path] = g[turn]
      /\ \A n \in turn..KernelTurns : NodeAt(fs)[g[n]] = NodeAt(f)[g[n]]
      /\ ~AbsLinkAt(f, g[turn])
    BY <1>2, <1>4, <1>5 DEF Follows, Along, OnWay
<1>8. /\ NodeAt(f)[g[KernelTurns]].kind # "link"
      /\ \A n \in 0..KernelTurns : AbsLinkAt(f, g[n]) =>
             \A m \in 0..n : AbsLinkAt(f, g[m])
    BY <1>3, <1>4, <1>5, <1>6, LinksComeFirst DEF OnWay
<1>9. \A n \in turn..KernelTurns : ~AbsLinkAt(f, g[n])
    BY <1>7, <1>8, ExecAssumption
<1>10. HostWay(fs, g[turn])[KernelTurns] = g[KernelTurns]
    BY <1>1, <1>3, <1>5, <1>7, <1>8, <1>9, KernelGoesOn
<1>11. HostFile(fs, ptr.path) = FileOf[NodeAt(fs)[HostWay(fs, g[turn])[KernelTurns]]]
    BY <1>7, Zenon DEF HostFile, FileAt, HostWay
<1>12. Meant(f, call) = FileOf[NodeAt(f)[g[KernelTurns]]]
    BY <1>4, <1>5, WayIs DEF OnWay
<1>13. KernelTurns \in turn..KernelTurns
    BY <1>7, ExecAssumption
<1>14. QED BY <1>2, <1>6, <1>7, <1>10, <1>11, <1>12, <1>13

\* A program that is the file the kernel finds.
LEMMA StartedMeant ==
    ASSUME WatchInv, MeantInv, pc \in Steps \ {"search", "links"},
           NEW s, NEW via, Becomes(s, via), UNCHANGED <<fs, call, forkless, history, relinks>>,
           OrdinaryThroughout => s.file = HostFile(fs, ptr.path)
    PROVE  MeantInv'
<1>1. pc' = "run" /\ image'.file = s.file /\ out' = "started"
    BY DEF Becomes, Leaves
<1>2. AtStart' /\ Guided'
    BY <1>1 DEF AtStart, Guided, Steps
<1>3. HookMeant'
    <2> SUFFICES ASSUME OrdinaryThroughout'
                 PROVE  (\E f \in {began, fs} : image.file = Meant(f, call))'
        BY DEF HookMeant, RunsMeant
    <2>1. OrdinaryThroughout
        BY SameThroughout
    <2>2. PICK f \in {began, fs} : HostFile(fs, ptr.path) = Meant(f, call)
        BY <2>1, Reaches
    <2>3. image'.file = Meant(f, call)
        BY <1>1, <2>1, <2>2
    <2>4. QED BY <2>3, <2>2 DEF history
<1>4. QED BY <1>2, <1>3 DEF MeantInv

LEMMA WaysMeant ==
    ASSUME WatchInv, MeantInv, Probe \/ Decide \/ Ptrace \/ ForkFails \/ Loader \/ Kernel, Typed'
    PROVE  MeantInv'
<1>1. fs \in [Names -> Node] /\ ptr.path \in Path
    BY DEF WatchInv, Typed, TypeOK
<1>2. PICK h \in MaybeFile : h = HostFile(fs, ptr.path)
    BY <1>1, HostFileTyped
<1>3. PICK s : s = Start(fs, ptr.path, argv)
    OBVIOUS
<1>4. pc \in Steps \ {"search", "links"} /\ OrdinaryThroughout /\ s # Refused => s.file = h
    <2> SUFFICES ASSUME pc \in Steps \ {"search", "links"}, OrdinaryThroughout, s # Refused
                 PROVE  s.file = h
        OBVIOUS
    <2>1. ~Script(h)
        BY <1>2, Reaches
    <2>2. s = StartElf(fs, argv)[h]
        BY <1>1, <1>2, <1>3, <2>1, StartIs
    <2>3. QED BY <1>1, <2>2, StartElfIs
<1>5. CASE Probe \/ Decide \/ ForkFails
    <2>1. /\ pc \in Steps \ {"search", "links"} /\ pc' \in Steps \ {"search", "links"}
          /\ UNCHANGED <<fs, call, ptr, turn, out, history>>
        BY <1>5 DEF Probe, Decide, ForkFails, AfterPtrace, Steps, history, frame
    <2>2. QED BY <2>1, StaysMeant
<1>6. CASE Ptrace
    <2>1. IF s = Refused THEN Ends ELSE Becomes(s, "ptrace")
        BY <1>3, <1>6 DEF Ptrace
    <2>2. pc \in Steps \ {"search", "links"} /\ UNCHANGED <<fs, call, forkless, history, relinks>>
        BY <1>6 DEF Ptrace, Steps
    <2>3. QED BY <1>2, <1>4, <2>1, <2>2, EndsMeant, StartedMeant
<1>7. CASE Kernel
    <2>1. IF s = Refused THEN Fails ELSE Becomes(s, "kernel")
        BY <1>3, <1>7 DEF Kernel
    <2>2. pc \in Steps \ {"search", "links"} /\ UNCHANGED <<fs, call, forkless, history, relinks>>
        BY <1>7 DEF Kernel, Steps
    <2>3. QED BY <1>2, <1>4, <2>1, <2>2, EndsMeant, StartedMeant
<1>8. CASE Loader
    <2>1. PICK l : l = HostFile(fs, Rootfs \o Programs[info].interp)
        OBVIOUS
    <2>2. PICK r : r = RunLoader(fs, l, ptr.path, Tail(argv))
        OBVIOUS
    <2>3. /\ pc = "loader" /\ UNCHANGED <<fs, call, forkless, history, relinks>>
          /\ IF ~Rooted \/ ~Startable(l)
             THEN pc' = "kernel" /\ UNCHANGED <<image, frame, out>>
             ELSE IF r = Refused THEN Ends ELSE Becomes(r, "loader")
        BY <1>8, <2>1, <2>2, Zenon DEF Loader, HostFile
    <2>4. CASE pc' = "kernel" /\ UNCHANGED <<image, frame, out>>
        BY <2>3, <2>4, StaysMeant DEF Steps, frame
    <2>5. CASE Ends
        BY <2>5, EndsMeant
    <2>6. CASE r # Refused /\ Becomes(r, "loader")
        <3>1. r.file = HostFile(fs, ptr.path)
            BY <2>2, <2>6, RunLoaderIs
        <3>2. QED BY <2>3, <2>6, <3>1, StartedMeant DEF Steps
    <2>7. QED BY <2>3, <2>4, <2>5, <2>6
<1>9. QED BY <1>5, <1>6, <1>7, <1>8

LEMMA BeginMeant ==
    ASSUME WatchInv, MeantInv, Take \/ Call \/ Launch
    PROVE  MeantInv'
<1>1. CASE Take
    BY <1>1 DEF Take, WatchInv, Waiting, MeantInv, AtStart, Guided, HookMeant, RunsMeant, Steps
<1>2. CASE Call
    BY <1>2 DEF Call, MeantInv, AtStart, Guided, HookMeant, RunsMeant, Steps
<1>3. CASE Launch
    <2>1. call'.fn = "lroot" /\ pc' \in {"run", "over"}
        BY <1>3 DEF Launch, WatchInv, Waiting, Ends
    <2>2. QED BY <2>1 DEF MeantInv, AtStart, Guided, HookMeant, Steps
<1>4. QED BY <1>1, <1>2, <1>3

GuestFile(f, p) == FileAt(f, p, TRUE)

\* A candidate that host and guest find alike counts if the guest's does.
LEMMA FoundIs ==
    ASSUME fs \in [Names -> Node], NEW p \in Path, FoundAlike(fs, p)
    PROVE  MayExecute(p) <=> GuestFile(fs, Translated[p].path) \in
                                {i \in DOMAIN Programs : Programs[i].xbit}
<1>1. PICK q \in Path : q = HostWay(fs, Resolved[Cwd][p])[KernelTurns]
    <2>1. Resolved[Cwd][p] \in Path
        BY ResolveTyped, ExecAssumption
    <2>2. PICK d \in Path : d = Resolved[Cwd][p]
        BY <2>1
    <2>3. HostWay(fs, d)[KernelTurns] \in Path
        BY WaySteps, ExecAssumption
    <2>4. QED BY <2>2, <2>3
<1>2. PICK n \in Node : n = NodeAt(fs)[q]
    BY NodeAtTyped
<1>3. MayExecute(p) <=> \/ n.kind = "dir"
                        \/ n.kind = "file" /\ n.id \in DOMAIN Programs /\ Programs[n.id].xbit
    BY <1>1, <1>2, Zenon DEF MayExecute, HostWay
<1>4. n.kind # "dir" /\ GuestFile(fs, Translated[p].path) = HostFile(fs, p)
    BY <1>1, <1>2, Zenon DEF FoundAlike, HostWay, GuestFile, HostFile
<1>5. HostFile(fs, p) = FileOf[n]
    BY <1>1, <1>2, Zenon DEF HostFile, FileAt, HostWay
<1>6. FileOf[n] = IF n.kind = "file" THEN n.id ELSE NoFile
    BY DEF FileOf
<1>7. QED BY <1>3, <1>4, <1>5, <1>6, Files

\* What execvp finds on the host, the guest has.
LEMMA HitsAlike ==
    ASSUME WatchInv, pc = "search", OrdinaryThroughout, call.fn = "execvp", Bare(call.path)
    PROVE  {j \in DOMAIN SearchDirs : MayExecute(Join(SearchDirs[j], call.path))} =
               Hits(fs, call.path)
<1>1. fs \in [Names -> Node] /\ call.path \in Path
    BY DEF WatchInv, Typed, TypeOK, Called
<1> SUFFICES ASSUME NEW j \in DOMAIN SearchDirs
             PROVE  MayExecute(Join(SearchDirs[j], call.path)) <=> j \in Hits(fs, call.path)
    BY Zenon DEF Hits
<1>2. PICK q \in Path : q = Join(SearchDirs[j], call.path)
    BY <1>1, SearchDirTyped
<1>3. FoundAlike(fs, q)
    BY <1>1, <1>2, OrdinaryMeans DEF OrdinaryThroughout
<1>4. MayExecute(q) <=> GuestFile(fs, Translated[q].path) \in
                           {i \in DOMAIN Programs : Programs[i].xbit}
    BY <1>1, <1>3, FoundIs
<1>5. j \in Hits(fs, call.path) <=> GuestFile(fs, Translated[q].path) \in
                           {i \in DOMAIN Programs : Programs[i].xbit}
    BY <1>2, Zenon DEF Hits, GuestFile
<1>6. QED BY <1>2, <1>4, <1>5

\* The loop begins with the translation of a path of the caller's.
LEMMA EnterIs ==
    ASSUME NEW p, p.path \in Path, Enter(p), Rooted,
           p.place = "caller" \/ Translated[p.path].place = "caller"
    PROVE  /\ pc' = "links" /\ turn' = turn /\ image' = image /\ out' = out
           /\ ptr'.path = Translated[p.path].path
           /\ ptr'.place \in {"caller", "tlbuf"}
<1>1. TranslateIn(p.path) = Translated[p.path]
    BY DEF TranslateIn
<1>2. Translated[p.path] \in [place : {"caller", "tlbuf"}, path : Path]
    BY TranslatedTyped
<1>3. ptr' = [place |-> Translated[p.path].place, path |-> Translated[p.path].path]
    BY <1>1, <1>2 DEF Enter
<1>4. QED BY <1>2, <1>3 DEF Enter

\* A hook that has entered the loop is at the beginning of the guest's way.
LEMMA EnteredMeant ==
    ASSUME WatchInv, MeantInv, pc = "search", UNCHANGED <<fs, call, history, out>>, Typed',
           pc' = "links" \/ (pc' = "kernel" /\ ~AbsLinkAt(fs, StartsAt(fs, call))),
           OrdinaryThroughout =>
               /\ turn' = 0 /\ Resolved[Cwd][ptr'.path] = StartsAt(fs, call)
               /\ pc' = "links" => ptr'.place \in {"caller", "tlbuf"}
    PROVE  MeantInv'
<1>1. AtStart' /\ HookMeant'
    BY NothingYet DEF AtStart, InCall, Steps
<1>2. ASSUME OrdinaryThroughout
      PROVE  Follows(fs)'
    <2>1. PICK f \in [Names -> Node] : f = fs
        BY DEF WatchInv, Typed, TypeOK
    <2>2. PICK s \in Path : s = StartsAt(f, call)
        BY <2>1, StartsAtTyped DEF WatchInv, Typed, Called
    <2>3. PICK p : p = ptr'.path
        OBVIOUS
    <2>4. Resolved[Cwd][p] = s
        BY <1>2, <2>1, <2>2, <2>3
    <2>5. Along(f, f, s, p, 0)
        BY <2>4, AlongBegins
    <2>6. GuestWay(f, s)[0] = s
        BY WaySteps
    <2>7. fs' = f /\ call' = call /\ turn' = 0
        BY <1>2, <2>1
    <2>8. IF pc' = "links" THEN ptr'.place \in {"caller", "tlbuf"}
                           ELSE ~AbsLinkAt(f, OnWay(f, call)[0])
        BY <1>2, <2>1, <2>2, <2>6 DEF OnWay
    <2>9. QED BY <2>2, <2>3, <2>5, <2>7, <2>8 DEF Follows
<1>3. Guided'
    BY <1>2, SameThroughout DEF Guided
<1>4. QED BY <1>1, <1>3 DEF MeantInv

LEMMA SearchMeant ==
    ASSUME WatchInv, MeantInv, EnterExec \/ EnterRaw \/ EnterPath \/ EnterName, Typed'
    PROVE  MeantInv'
<1>1. /\ pc = "search" /\ pc \in Steps /\ UNCHANGED <<fs, call, history>>
    BY DEF EnterExec, EnterRaw, EnterPath, EnterName, Steps
<1>2. /\ fs \in [Names -> Node] /\ call.path \in Path
      /\ call.fn \in {"execve", "execvp", "execveat"}
      /\ turn = 0 /\ ptr.place = "caller" /\ ptr.path = call.path /\ from = image.env
    <2>1. call \in ExecCalls
        BY <1>1 DEF WatchInv, Typed, Called
    <2>2. QED BY <1>1, <2>1, ExecAssumption
              DEF WatchInv, Typed, TypeOK, Called, MeantInv, AtStart, Origin
<1>3. OrdinaryThroughout => Rooted /\ Ordinary(fs, call)
    BY <1>2 DEF OrdinaryThroughout, Rooted
<1>4. Translated[call.path].path \in Path
    BY <1>2, TranslatedTyped
<1>5. ~(call.fn = "execvp" /\ Bare(call.path)) =>
          StartsAt(fs, call) = Resolved[Cwd][Translated[call.path].path]
    BY <1>2 DEF StartsAt
<1>6. CASE EnterExec
    <2>1. pc' = "links" /\ out' = out /\ Enter(ptr) /\ call.fn # "execvp"
        BY <1>6 DEF EnterExec, Enter
    <2>2. QED BY <1>1, <1>2, <1>3, <1>5, <2>1, EnterIs, EnteredMeant
<1>7. CASE EnterPath
    <2>1. PICK t : t = TranslateIn(call.path)
        OBVIOUS
    <2>2. pc' = "links" /\ out' = out /\ Enter(t) /\ call.fn = "execvp" /\ ~Bare(call.path)
        BY <1>7, <2>1 DEF EnterPath, Enter
    <2>3. ASSUME OrdinaryThroughout
          PROVE  /\ turn' = 0 /\ Resolved[Cwd][ptr'.path] = StartsAt(fs, call)
                 /\ ptr'.place \in {"caller", "tlbuf"}
        <3>1. t = Translated[call.path]
            BY <1>3, <2>1, <2>3 DEF TranslateIn
        <3>2. Translated[t.path].place = "caller"
            BY <1>2, <1>3, <2>2, <2>3, <3>1, OrdinaryMeans
        <3>3. Translated[t.path].path = t.path
            BY <1>4, <3>1, <3>2, TranslatedIs
        <3>4. QED BY <1>2, <1>3, <1>4, <1>5, <2>2, <2>3, <3>1, <3>2, <3>3, EnterIs
    <2>4. QED BY <1>1, <2>2, <2>3, EnteredMeant
<1>8. CASE EnterRaw
    <2>1. /\ pc' = "kernel" /\ out' = out /\ ptr' = ptr /\ turn' = turn
          /\ \/ call.fn = "execveat" /\ ~IsAbsolute(call.path)
             \/ call.fn = "execvp" /\ Bare(call.path) /\ "PATH" \notin from
        BY <1>2, <1>8 DEF EnterRaw, frame
    <2>2. AtStart' /\ HookMeant'
        BY <1>1, <2>1, NothingYet DEF AtStart, InCall, Steps
    <2>3. CASE ~OrdinaryThroughout
        BY <1>1, <2>2, <2>3, SameThroughout DEF MeantInv, Guided
    <2>4. CASE OrdinaryThroughout
        <3>1. call.fn = "execveat" /\ ~IsAbsolute(call.path) /\ AbsLinks(Way(fs, call)) = {}
            BY <1>2, <1>3, <2>1, <2>4, OrdinaryMeans
        <3>2. Resolved[Cwd][ptr'.path] = StartsAt(fs, call)
            BY <1>2, <1>5, <2>1, <3>1, TranslatedIs
        <3>3. ~AbsLinkAt(fs, StartsAt(fs, call))
            <4>1. PICK f \in [Names -> Node] : f = fs
                BY <1>2
            <4>2. PICK s \in Path : s = StartsAt(f, call)
                BY <1>2, StartsAtTyped
            <4>3. GuestWay(f, s)[0] = s
                BY WaySteps
            <4>4. 0 \in 0..KernelTurns
                BY ExecAssumption
            <4>5. AbsLinkAt(f, s) => 0 # KernelTurns
                BY <1>2, <1>3, <2>4, <4>1, <4>2, <4>3, <4>4, OrdinaryMeans, LinksComeFirst
                   DEF OnWay
            <4>6. Way(f, call)[0] = NodeAt(f)[s]
                BY <4>2, <4>3, <4>4, WayIs DEF OnWay
            <4>7. AbsLinkAt(f, s) => 0 \in AbsLinks(Way(f, call))
                <5>1. 0 # KernelTurns => 0 \in 0..(KernelTurns - 1)
                    BY ExecAssumption
                <5>2. QED BY <4>5, <4>6, <5>1 DEF AbsLinks, AbsLinkAt
            <4>8. QED BY <3>1, <4>1, <4>2, <4>7
        <3>4. QED BY <1>1, <1>2, <2>1, <3>2, <3>3, EnteredMeant
    <2>5. QED BY <2>3, <2>4
<1>9. CASE EnterName
    <2> DEFINE hits == {j \in DOMAIN SearchDirs : MayExecute(Join(SearchDirs[j], call.path))}
               at(k) == [place |-> "caller", path |-> Join(SearchDirs[k], call.path)]
    <2>1. /\ IF FirstDir[hits] = 0 THEN Fails ELSE Enter(at(FirstDir[hits]))
          /\ call.fn = "execvp" /\ Bare(call.path)
        BY <1>9 DEF EnterName
    <2>2. hits \in SUBSET DOMAIN SearchDirs
        OBVIOUS
    <2>3. OrdinaryThroughout => hits = Hits(fs, call.path)
        BY <1>1, <2>1, HitsAlike
    <2>4. PICK k : k = FirstDir[hits]
        OBVIOUS
    <2>5. OrdinaryThroughout /\ k # 0 =>
              StartsAt(fs, call) = Resolved[Cwd][Translated[Join(SearchDirs[k], call.path)].path]
        <3> SUFFICES ASSUME OrdinaryThroughout, k # 0
                     PROVE  StartsAt(fs, call) =
                                Resolved[Cwd][Translated[Join(SearchDirs[k], call.path)].path]
            OBVIOUS
        <3>1. k \in Nat /\ k = FirstDir[Hits(fs, call.path)]
            BY <2>2, <2>3, <2>4, FirstDirIs
        <3>2. QED BY <2>1, <3>1 DEF StartsAt
    <2>6. CASE k = 0
        BY <2>1, <2>4, <2>6, EndsMeant
    <2>7. CASE k # 0
        <3>1. k \in DOMAIN SearchDirs
            BY <2>2, <2>4, <2>7, FirstDirIs
        <3>2. at(k).path \in Path /\ at(k).place = "caller"
              /\ at(k).path = Join(SearchDirs[k], call.path)
            BY <1>2, <3>1, SearchDirTyped
        <3>3. Enter(at(k))
            BY <2>1, <2>4, <2>7
        <3>4. pc' = "links" /\ out' = out
            BY <3>3 DEF Enter
        <3> HIDE DEF at, hits
        <3>5. ASSUME OrdinaryThroughout
              PROVE  /\ turn' = 0 /\ Resolved[Cwd][ptr'.path] = StartsAt(fs, call)
                     /\ ptr'.place \in {"caller", "tlbuf"}
            BY <1>2, <1>3, <2>5, <2>7, <3>2, <3>3, <3>5, EnterIs
        <3>6. QED BY <1>1, <3>4, <3>5, EnteredMeant
    <2>8. QED BY <2>6, <2>7
<1>10. QED BY <1>6, <1>7, <1>8, <1>9

\* The next link on the way.
LEMMA AlongGoesOn ==
    ASSUME AbsoluteRoots, NEW f \in [Names -> Node], NEW now \in [Names -> Node], NEW s \in Path,
           NEW p, NEW t, Along(f, now, s, p, t), t # KernelTurns,
           NEW text, text = NodeAt(now)[Resolved[Cwd][p]].text,
           AbsLinkAt(now, Resolved[Cwd][p]), Translated[text].place = "tlbuf"
    PROVE  Along(f, now, s, Translated[text].path, t + 1)
<1> DEFINE g == GuestWay(f, s)
<1>1. KernelTurns \in Nat /\ t \in 0..KernelTurns /\ t + 1 \in 0..KernelTurns
    BY ExecAssumption DEF Along
<1>2. g[t] \in Path /\ g[t + 1] = GuestHop(f)[g[t]]
    BY <1>1, WaySteps
<1>3. /\ Resolved[Cwd][p] = g[t]
      /\ \A n \in t..KernelTurns : NodeAt(now)[g[n]] = NodeAt(f)[g[n]]
      /\ \A n \in 0..(t - 1) : AbsLinkAt(f, g[n])
    BY DEF Along
<1>4. NodeAt(now)[g[t]] = NodeAt(f)[g[t]]
    BY <1>1, <1>3
<1> HIDE DEF g
<1>5. AbsLinkAt(f, g[t]) /\ text = NodeAt(f)[g[t]].text /\ text \in Path
    <2>1. AbsLinkAt(f, g[t]) /\ text = NodeAt(f)[g[t]].text
        BY <1>3, <1>4 DEF AbsLinkAt
    <2>2. QED BY <1>2, <2>1, NodeAtTyped DEF AbsLinkAt
<1>6. GuestHop(f)[g[t]] = Resolved[Parent(g[t])][Translated[text].path]
    <2>1. At(f, g[t]) = NodeAt(f)[g[t]]
        BY <1>2, NodeAtTyped
    <2>2. QED BY <1>2, <1>5, <2>1 DEF GuestHop, Hop, AbsLinkAt
<1>7. Resolved[Cwd][Translated[text].path] = g[t + 1]
    <2>1. Translated[text].path \in Path /\ IsAbsolute(Translated[text].path)
        BY <1>5, TranslatedTyped, TranslatedIs
    <2>2. Parent(g[t]) \in Path
        BY <1>2, ParentTyped
    <2>3. PICK q \in Path : q = Translated[text].path /\ IsAbsolute(q)
        BY <2>1
    <2>4. PICK d \in Path : d = Parent(g[t])
        BY <2>2
    <2>5. PICK c \in Path : c = Cwd
        BY ExecAssumption
    <2>6. Resolved[c][q] = Resolved[d][q]
        <3>1. Resolve(c, q) = Resolve(d, q)
            BY <2>3 DEF Resolve
        <3>2. QED BY <3>1, ResolveTyped
    <2>7. QED BY <1>2, <1>6, <2>3, <2>4, <2>5, <2>6
<1>8. \A n \in 0..((t + 1) - 1) : AbsLinkAt(f, g[n])
    BY <1>1, <1>3, <1>5
<1>9. \A n \in (t + 1)..KernelTurns : NodeAt(now)[g[n]] = NodeAt(f)[g[n]]
    <2>1. \A n \in (t + 1)..KernelTurns : n \in t..KernelTurns
        BY <1>1
    <2>2. QED BY <1>3, <2>1
<1>10. QED BY <1>1, <1>7, <1>8, <1>9 DEF Along, g

LEMMA LinksMeant ==
    ASSUME AbsoluteRoots, WatchInv, MeantInv, LoseBuffer \/ FollowLink \/ StopFollowing, Typed'
    PROVE  MeantInv'
<1>1. /\ pc = "links" /\ pc' \in {"links", "probe"}
      /\ UNCHANGED <<fs, image, call, out, history>>
    BY DEF LoseBuffer, FollowLink, StopFollowing, history
<1>2. AtStart' /\ HookMeant'
    BY <1>1, NothingYet DEF AtStart, InCall, Steps
<1>3. ASSUME OrdinaryThroughout, NEW f \in {began, fs}, Follows(f)
      PROVE  Follows(f)'
    <2>1. /\ fs \in [Names -> Node] /\ f \in [Names -> Node] /\ call.path \in Path
          /\ call.fn # "lroot" /\ ptr.path \in Path
        BY <1>1, ExecAssumption DEF WatchInv, Typed, TypeOK, Called, Steps
    <2>2. PICK s \in Path : s = StartsAt(f, call)
        BY <2>1, StartsAtTyped
    <2>3. ptr.place \in {"caller", "tlbuf"} /\ Along(f, fs, s, ptr.path, turn)
        BY <1>1, <1>3, <2>2 DEF Follows
    <2>4. LinksFollowed(Way(f, call))
        BY <1>3, <2>1, OrdinaryMeans DEF OrdinaryThroughout
    <2>5. PICK g : g = GuestWay(f, s)
        OBVIOUS
    <2>6. \A n \in 0..KernelTurns : AbsLinkAt(f, g[n]) =>
              n < Turns /\ n # KernelTurns /\ Translated[NodeAt(f)[g[n]].text].place = "tlbuf"
        BY <2>1, <2>2, <2>4, <2>5, LinksComeFirst DEF OnWay
    <2>7. /\ turn \in 0..KernelTurns /\ Resolved[Cwd][ptr.path] = g[turn]
          /\ NodeAt(fs)[g[turn]] = NodeAt(f)[g[turn]]
        BY <2>3, <2>5, ExecAssumption DEF Along
    <2>8. Linked <=> AbsLinkAt(fs, g[turn])
        BY <2>7 DEF Linked, AbsLinkAt
    <2>9. AbsLinkAt(fs, g[turn]) <=> AbsLinkAt(f, g[turn])
        BY <2>7 DEF AbsLinkAt
    <2>10. CASE LoseBuffer
        BY <2>3, <2>10 DEF LoseBuffer
    <2>11. CASE StopFollowing
        <3>1. ~AbsLinkAt(f, g[turn])
            BY <2>6, <2>7, <2>8, <2>9, <2>11, ExecAssumption DEF StopFollowing
        <3>2. pc' = "probe" /\ ptr' = ptr /\ turn' = turn
            BY <2>11 DEF StopFollowing, frame
        <3>3. QED BY <1>1, <1>3, <2>2, <2>5, <3>1, <3>2 DEF Follows, OnWay
    <2>12. CASE FollowLink
        <3>1. PICK text : text = NodeAt(fs)[Resolved[Cwd][ptr.path]].text
            OBVIOUS
        <3>2. AbsLinkAt(fs, Resolved[Cwd][ptr.path]) /\ AbsLinkAt(f, g[turn])
            BY <2>7, <2>8, <2>9, <2>12 DEF FollowLink
        <3>3. turn # KernelTurns /\ Translated[text].place = "tlbuf"
            BY <2>6, <2>7, <3>1, <3>2
        <3>4. Along(f, fs, s, Translated[text].path, turn + 1)
            BY <2>1, <2>3, <3>1, <3>2, <3>3, AlongGoesOn
        <3>5. Rooted
            BY <1>1, <1>3, <2>1 DEF OrdinaryThroughout, Rooted, WatchInv, Origin, Steps
        <3>6. ptr' = Translated[text] /\ turn' = turn + 1 /\ pc' = "links"
            BY <2>12, <3>1, <3>3, <3>5 DEF FollowLink, TranslateIn
        <3>7. QED BY <1>1, <2>2, <3>3, <3>4, <3>6 DEF Follows
    <2>13. QED BY <2>10, <2>11, <2>12
<1>4. Guided'
    <2> SUFFICES ASSUME (call.fn # "lroot")', OrdinaryThroughout'
                 PROVE  (\E f \in {began, fs} : Follows(f))'
        BY DEF Guided
    <2>1. OrdinaryThroughout
        BY <1>1, SameThroughout
    <2>2. PICK f \in {began, fs} : Follows(f)
        BY <1>1, <2>1 DEF MeantInv, Guided, Steps
    <2>3. Follows(f)'
        BY <1>3, <2>1, <2>2
    <2>4. QED BY <1>1, <2>2, <2>3 DEF history
<1>5. QED BY <1>2, <1>4 DEF MeantInv

LEMMA RelinkMeant ==
    ASSUME WatchInv, MeantInv, Relink, Typed'
    PROVE  MeantInv'
<1>1. /\ UNCHANGED <<image, pc, call, ptr, turn, out, from, began>> /\ InCall
      /\ changes' = changes + 1
    BY DEF Relink, frame
<1>2. HookMeant' /\ AtStart'
    <2>1. out' = "none"
        BY <1>1 DEF WatchInv, Waiting
    <2>2. QED BY <1>1, <2>1 DEF HookMeant, RunsMeant, MeantInv, AtStart
<1>3. ASSUME pc \in Steps \ {"search"}, call.fn # "lroot", OrdinaryThroughout'
      PROVE  Follows(began)' \/ Follows(fs)'
    <2>1. PICK b \in [Names -> Node] : b = began /\ b = fs
        <3>1. changes = 0
            BY <1>1, <1>3 DEF WatchInv, Typed, TypeOK, OrdinaryThroughout
        <3>2. QED BY <3>1 DEF WatchInv, Undisturbed, Typed, TypeOK
    <2>2. PICK now \in [Names -> Node] : now = fs'
        BY DEF Typed, TypeOK
    <2>3. PICK c : c = call /\ c.path \in Path
        BY DEF WatchInv, Typed, Called
    <2>4. PICK s \in Path : s = StartsAt(b, c) /\ s = StartsAt(now, c)
        BY <1>1, <1>3, <2>1, <2>2, <2>3, StartsAtTyped DEF OrdinaryThroughout
    <2>5. Ordinary(b, c)
        <3>1. \A f \in {began', fs'} : Ordinary(f, call)'
            BY <1>3 DEF OrdinaryThroughout
        <3>2. Ordinary(b, c)'
            BY <1>1, <2>1, <2>3, <3>1
        <3>3. QED BY <1>1, <3>2 DEF Ordinary
    <2>6. OrdinaryThroughout
        <3>1. "LITTLE_ROOTFS" \in from
            BY <1>1, <1>3 DEF OrdinaryThroughout
        <3>2. changes <= 1 /\ ~AbsLinkMade
            BY <1>1, <1>3, <2>1 DEF OrdinaryThroughout, AbsLinkMade, WatchInv, Typed, TypeOK
        <3>3. QED BY <2>1, <2>3, <2>5, <3>1, <3>2 DEF OrdinaryThroughout
    <2>7. Follows(b)
        BY <1>3, <2>1, <2>6 DEF MeantInv, Guided
    <2>8. Along(b, b, s, ptr.path, turn)
        BY <2>1, <2>3, <2>4, <2>7 DEF Follows
    <2>9. PICK r \in Relinks : fs' = [fs EXCEPT ![r.at] = r.node]
        BY DEF Relink
    <2>10. \A q \in Path : q # r.at => NodeAt(now)[q] = NodeAt(b)[q]
        <3> SUFFICES ASSUME NEW q \in Path, q # r.at PROVE At(now, q) = At(b, q)
            BY NodeAtTyped
        <3>1. q \in Names => now[q] = b[q]
            BY <2>1, <2>2, <2>9
        <3>2. QED BY <3>1 DEF At
    <2>11. NodeAt(b)[GuestWay(b, s)[KernelTurns]].kind # "link"
        BY <1>3, <2>3, <2>4, <2>5, OrdinaryMeans, LinksComeFirst DEF OnWay
    <2>12. \A q \in Path : AbsLinkAt(now, q) => AbsLinkAt(b, q)
        <3> SUFFICES ASSUME NEW q \in Path, AbsLinkAt(now, q) PROVE AbsLinkAt(b, q)
            OBVIOUS
        <3>1. At(now, q).kind = "link" /\ IsAbsolute(At(now, q).text)
            BY NodeAtTyped DEF AbsLinkAt
        <3>2. q \in Names /\ now[q].kind = "link" /\ IsAbsolute(now[q].text)
            BY <3>1 DEF At, Absent
        <3>3. b[q].kind = "link" /\ IsAbsolute(b[q].text)
            BY <1>1, <1>3, <2>1, <2>2, <3>2 DEF OrdinaryThroughout, AbsLinkMade
        <3>4. At(b, q) = b[q]
            BY <3>2 DEF At
        <3>5. QED BY <3>3, <3>4, NodeAtTyped DEF AbsLinkAt
    <2>13. GuestWay(b, s)[turn] \in Path
        BY <2>8, WaySteps DEF Along
    <2>14. IF pc = "links" THEN ptr.place \in {"caller", "tlbuf"}
                           ELSE ~AbsLinkAt(b, GuestWay(b, s)[turn])
        BY <2>3, <2>4, <2>7 DEF Follows, OnWay
    <2>15. CASE Along(b, now, s, ptr.path, turn)
        <3>1. Follows(b)'
            BY <1>1, <2>2, <2>3, <2>4, <2>14, <2>15 DEF Follows, OnWay
        <3>2. QED BY <1>1, <2>1, <3>1 DEF Follows
    <2>16. CASE /\ Along(now, now, s, ptr.path, turn)
                /\ GuestWay(now, s)[turn] = GuestWay(b, s)[turn]
        <3>1. pc # "links" => ~AbsLinkAt(now, GuestWay(now, s)[turn])
            BY <2>12, <2>13, <2>14, <2>16
        <3>2. QED BY <1>1, <2>2, <2>3, <2>4, <2>14, <2>16, <3>1 DEF Follows, OnWay
    <2>17. QED BY <2>8, <2>10, <2>11, <2>15, <2>16, ChangeAlong
<1>4. Guided'
    BY <1>1, <1>3 DEF Guided
<1>5. QED BY <1>2, <1>4 DEF MeantInv

LEMMA NextMeant == AbsoluteRoots /\ WatchInv /\ WatchInv' /\ MeantInv /\ [Next]_vars => MeantInv'
<1> SUFFICES ASSUME AbsoluteRoots, WatchInv, WatchInv', MeantInv, [Next]_vars PROVE MeantInv'
    OBVIOUS
<1>1. Typed'
    BY DEF WatchInv
<1>2. CASE UNCHANGED vars
    <2>1. UNCHANGED <<fs, image, pc, call, ptr, turn, out, from, began, changes>>
        BY <1>2 DEF vars, frame, history
    <2>2. OrdinaryThroughout' <=> OrdinaryThroughout
        BY <2>1, SameThroughout DEF history
    <2>3. \A f : Follows(f)' <=> Follows(f)
        BY <2>1 DEF Follows
    <2>4. QED BY <2>1, <2>2, <2>3 DEF MeantInv, AtStart, Guided, HookMeant, RunsMeant
<1>3. CASE Next
    BY <1>1, <1>3, BeginMeant, SearchMeant, LinksMeant, WaysMeant, RelinkMeant DEF Next, Advance
<1>4. QED BY <1>2, <1>3

\* How far a hook has come holds in every state.
THEOREM MeantInvariant ==
    ASSUME AbsoluteRoots
    PROVE  Spec => []MeantInv
<1>1. Init => MeantInv
    BY DEF Init, MeantInv, AtStart, Guided, HookMeant, NoCall, RunsMeant, Steps
<1>2. WatchInv /\ WatchInv' /\ MeantInv /\ [Next]_vars => MeantInv'
    BY NextMeant
<1>3. Spec => []WatchInv
    BY WatchInvariant
<1>4. QED BY <1>1, <1>2, <1>3, PTL DEF Spec


(***************************************************************************)
(* How a call ends                                                         *)
(***************************************************************************)

\* The arguments with the name that was asked for, where it is needed.
Injected == IF Base(Orig) = Base(ptr.path) THEN call.argv ELSE <<Base(Orig)>> \o call.argv

\* What has become of the arguments.
Worded ==
    /\ pc \in {"search", "links", "probe"} => argv = call.argv
    /\ pc \in {"decide", "ptrace", "loader"} => argv = Injected
    /\ pc = "kernel" => argv \in {call.argv, Injected}

\* The rootfs's loader of a program.
OwnLoaderOf(i) == HostFile(fs, Rootfs \o Programs[i].interp)

\* execve leaves a program for the machine of the library to the kernel only if
\* it needs no loader or the rootfs has none for it.
OwnWay ==
    pc = "kernel" /\ changes = 0 /\ call.fn = "execve" /\ Rooted
    /\ Startable(HostFile(fs, ptr.path)) /\ OfHostArch(HostFile(fs, ptr.path)) =>
        \/ Programs[HostFile(fs, ptr.path)].interp = <<>>
        \/ ~Startable(OwnLoaderOf(HostFile(fs, ptr.path)))

HookCause  == call.fn # "lroot" => FailsOnlyForCause
HookArrive == call.fn # "lroot" => ArgsArrive

EndInv == Worded /\ OwnWay /\ HookCause /\ HookArrive /\ OwnLoader

\* One argument vector with two names means the same to a program that does
\* not read its name.
LEMMA TakenAlike ==
    ASSUME NEW i, NEW p \in Path, NEW q \in Path, NEW rest \in Seq(Path),
           Programs[i].multi = <<>> \/ Base(p) = Base(q)
    PROVE  Taken(i, <<p>> \o rest) = Taken(i, <<q>> \o rest)
<1>1. PICK a \in Seq(Path) : a = <<p>> \o rest /\ a[1] = p /\ Tail(a) = rest
    BY ArgumentsTyped
<1>2. PICK b \in Seq(Path) : b = <<q>> \o rest /\ b[1] = q /\ Tail(b) = rest
    BY ArgumentsTyped
<1>3. Len(a) = 1 + Len(rest) /\ Len(b) = 1 + Len(rest) /\ (Len(a) > 1 => a[2] = b[2])
    BY <1>1, <1>2, LenProperties
<1>4. QED BY <1>1, <1>2, <1>3 DEF Taken

\* A program that goes by its name, found under its own, takes the name it is
\* called by from in front of the arguments.
LEMMA TakenFromApplet ==
    ASSUME NEW i, NEW p \in Path, NEW args \in Seq(Path), args # <<>>,
           Programs[i].multi # <<>>, Base(p) = Programs[i].multi,
           Base(args[1]) # Programs[i].multi
    PROVE  Taken(i, <<p>> \o args) = Taken(i, args)
<1>1. PICK a \in Seq(Path) : a = <<p>> \o args /\ a[1] = p /\ Tail(a) = args
    BY ArgumentsTyped
<1>2. Len(a) > 1 /\ a[2] = args[1]
    BY <1>1, LenProperties, EmptySeq
<1>3. Taken(i, a) = <<Base(args[1])>> \o Tail(args)
    BY <1>1, <1>2 DEF Taken
<1>4. Taken(i, args) = <<Base(args[1])>> \o Tail(args)
    BY DEF Taken
<1>5. QED BY <1>1, <1>3, <1>4

LEMMA HeadAndTail ==
    ASSUME NEW args \in Seq(Path), args # <<>>
    PROVE  /\ args[1] \in Path /\ Tail(args) \in Seq(Path)
           /\ args = <<args[1]>> \o Tail(args)
<1>1. Len(args) \in Nat \ {0}
    BY LenProperties, EmptySeq
<1>2. args[1] \in Path /\ Tail(args) \in Seq(Path)
    BY <1>1, ElementOfSeq, HeadTailProperties
<1>3. args = <<args[1]>> \o Tail(args)
    BY <1>1, <1>2
<1>4. QED BY <1>2, <1>3

\* A program that can be started is not refused by a loader.
LEMMA RunLoaderRuns ==
    ASSUME NEW f, NEW l, NEW p, NEW rest, RunLoader(f, l, p, rest) = Refused
    PROVE  ~Startable(HostFile(f, p))
<1>1. PICK i : i = HostFile(f, p)
    OBVIOUS
<1>2. PICK v : v = <<p>> \o rest
    OBVIOUS
<1>3. RunLoader(f, l, p, rest) = IF ElfFile(i) /\ Programs[i].native
                                 THEN [file |-> i, loader |-> l, argv |-> v]
                                 ELSE Refused
    BY <1>1, <1>2 DEF RunLoader, HostFile
<1>4. Startable(i) => ElfFile(i) /\ Programs[i].native /\ i # NoFile
    BY Files DEF Startable, ElfFile
<1>5. QED BY <1>1, <1>3, <1>4 DEF Refused

LEMMA NotOver ==
    ASSUME out' = "none", Worded', OwnWay'
    PROVE  EndInv'
BY DEF EndInv, HookCause, HookArrive, FailsOnlyForCause, ArgsArrive, OwnLoader

LEMMA SameInterpreter ==
    ASSUME UNCHANGED <<fs, call, history>>
    PROVE  InterpreterStays' <=> InterpreterStays
BY DEF InterpreterStays, history

\* A call that comes to nothing for a cause.
LEMMA EndsForCause ==
    ASSUME Fails \/ Ends, UNCHANGED <<fs, call, history>>,
           OrdinaryThroughout /\ InterpreterStays /\ call.fn # "lroot" =>
               \E f \in {began, fs} : ~CanStart(f, call)
    PROVE  EndInv'
<1>1. out' \in {"failed", "gone"} /\ pc' \in {"run", "over"}
    BY DEF Fails, Ends, Leaves
<1>2. Worded' /\ OwnWay' /\ HookArrive' /\ OwnLoader'
    BY <1>1 DEF Worded, OwnWay, HookArrive, ArgsArrive, OwnLoader
<1>3. HookCause'
    <2> SUFFICES ASSUME (call.fn # "lroot")', InterpreterStays', OrdinaryThroughout'
                 PROVE  (\E f \in {began, fs} : ~CanStart(f, call))'
        BY DEF HookCause, FailsOnlyForCause
    <2>1. OrdinaryThroughout /\ InterpreterStays
        BY SameThroughout, SameInterpreter
    <2>2. PICK f \in {began, fs} : ~CanStart(f, call)
        BY <2>1
    <2>3. ~CanStart(f, call)'
        BY <2>2
    <2>4. QED BY <2>2, <2>3 DEF history
<1>4. QED BY <1>2, <1>3 DEF EndInv

\* What the arguments of the program are made of.
WordedAs(s, via) ==
    /\ argv \in {call.argv, Injected}
    /\ via = "loader" => argv = Injected
    /\ s.argv = IF via = "loader" THEN <<ptr.path>> \o Tail(argv) ELSE argv

LEMMA ArgumentsArrive ==
    ASSUME WatchInv, pc \in Steps, NEW s, NEW via, Becomes(s, via), WordedAs(s, via),
           UNCHANGED <<fs, call, forkless, history, relinks>>
    PROVE  ArgsArrive'
<1>1. /\ image'.file = s.file /\ image'.argv = s.argv /\ image'.via = via
      /\ image'.exe = ptr.path /\ call' = call
    BY DEF Becomes
<1>2. SUFFICES ASSUME OrdinaryThroughout', NamesFit'
               PROVE  Taken(s.file, s.argv) = Taken(s.file, call.argv)
    <2>1. Taken(image.file, image.argv)' = Taken(s.file, s.argv)
        BY <1>1 DEF Taken
    <2>2. Taken(image.file, call.argv)' = Taken(s.file, call.argv)
        BY <1>1 DEF Taken
    <2>3. QED BY <1>2, <2>1, <2>2 DEF ArgsArrive
<1>3. PICK args \in Seq(Path) : args = call.argv /\ args # <<>>
    BY DEF WatchInv, Typed, Called, InCall, Steps
<1>4. PICK p \in Path : p = ptr.path
    BY DEF WatchInv, Typed, TypeOK
<1>5. PICK asked : asked = Base(Orig)
    OBVIOUS
<1>6. asked \in Path
    BY <1>5, BaseTyped, TranslateInTyped DEF Orig, WatchInv, Typed, Called
<1>7. asked = Base(IF call.fn = "execvp" THEN Translated[call.path].path ELSE call.path)
    <2>1. call.path \in Path /\ call.fn # "lroot" /\ from = image.env
        BY ExecAssumption DEF WatchInv, Typed, Called, Origin
    <2>2. OrdinaryThroughout
        BY <1>2, SameThroughout
    <2>3. Rooted
        BY <2>1, <2>2 DEF OrdinaryThroughout, Rooted
    <2>4. Bare(call.path) => ~IsAbsolute(call.path)
        <3>1. call.path # <<>> => 1 \in DOMAIN call.path
            BY <2>1, LenProperties, EmptySeq DEF Path
        <3>2. QED BY <3>1 DEF Bare, IsAbsolute
    <2>5. Bare(call.path) => Translated[call.path].path = call.path
        BY <2>1, <2>4, TranslatedIs
    <2>6. QED BY <1>5, <2>3, <2>5 DEF Orig, TranslateIn
<1> DEFINE named == Programs[s.file].multi # <<>> /\ via = "loader"
<1>8. /\ asked # Base(p) => named /\ Base(p) = Programs[s.file].multi
      /\ named => Base(args[1]) = asked
    BY <1>1, <1>2, <1>3, <1>4, <1>7 DEF NamesFit
<1>9. Injected = IF asked = Base(p) THEN args ELSE <<asked>> \o args
    BY <1>3, <1>4, <1>5 DEF Injected
<1>10. CASE via # "loader"
    <2>1. s.argv = args
        BY <1>3, <1>8, <1>9, <1>10 DEF WordedAs
    <2>2. QED BY <1>3, <2>1
<1>11. CASE via = "loader" /\ asked = Base(p)
    <2>1. PICK rest \in Seq(Path) : rest = Tail(args) /\ args = <<args[1]>> \o rest
        BY <1>3, HeadAndTail
    <2>2. s.argv = <<p>> \o rest
        BY <1>4, <1>9, <1>11, <2>1 DEF WordedAs
    <2>3. args[1] \in Path
        BY <1>3, HeadAndTail
    <2>4. Programs[s.file].multi = <<>> \/ Base(p) = Base(args[1])
        BY <1>8, <1>11
    <2>5. Taken(s.file, <<p>> \o rest) = Taken(s.file, <<args[1]>> \o rest)
        BY <2>3, <2>4, TakenAlike
    <2>6. QED BY <1>3, <2>1, <2>2, <2>5
<1>12. CASE via = "loader" /\ asked # Base(p)
    <2>1. Tail(<<asked>> \o args) = args
        BY <1>6, ArgumentsTyped
    <2>2. s.argv = <<p>> \o args
        BY <1>4, <1>9, <1>12, <2>1 DEF WordedAs
    <2>3. /\ Programs[s.file].multi # <<>> /\ Base(p) = Programs[s.file].multi
          /\ Base(args[1]) # Programs[s.file].multi
        BY <1>8, <1>12
    <2>4. Taken(s.file, <<p>> \o args) = Taken(s.file, args)
        BY <1>3, <2>3, TakenFromApplet
    <2>5. QED BY <1>3, <2>2, <2>4
<1>13. QED BY <1>10, <1>11, <1>12

\* A program that is the file the kernel finds, with the loader it ought to
\* have.
LEMMA StartedRight ==
    ASSUME WatchInv, pc \in Steps, NEW s, NEW via, Becomes(s, via), WordedAs(s, via),
           UNCHANGED <<fs, call, forkless, history, relinks>>,
           via # "ptrace" /\ changes = 0 /\ call.fn = "execve" /\ OrdinaryThroughout
               /\ OfHostArch(s.file)
               /\ Programs[s.file].interp # <<>> /\ Startable(OwnLoaderOf(s.file))
               => s.loader = OwnLoaderOf(s.file)
    PROVE  EndInv'
<1>1. /\ pc' = "run" /\ out' = "started" /\ image'.file = s.file /\ image'.loader = s.loader
      /\ image'.via = via /\ call' = call /\ fs' = fs /\ changes' = changes
      /\ image'.lib = image.lib
    BY DEF Becomes, Leaves, history
<1>2. Worded' /\ OwnWay' /\ HookCause'
    BY <1>1 DEF Worded, OwnWay, HookCause, FailsOnlyForCause
<1>3. HookArrive'
    BY ArgumentsArrive DEF HookArrive
<1>4. OwnLoader'
    <2> SUFFICES ASSUME changes = 0, call.fn = "execve", via # "ptrace", OrdinaryThroughout',
                        OfHostArch(s.file),
                        Programs[s.file].interp # <<>>, Startable(OwnLoaderOf(s.file))
                 PROVE  s.loader = OwnLoaderOf(s.file)
        BY <1>1, Zenon DEF OwnLoader, OwnLoaderOf, HostFile, OfHostArch
    <2>1. OrdinaryThroughout
        BY SameThroughout
    <2>2. QED BY <2>1
<1>5. QED BY <1>2, <1>3, <1>4 DEF EndInv

LEMMA BeginEnd ==
    ASSUME WatchInv, EndInv, Take \/ Call \/ Launch
    PROVE  EndInv'
<1>1. CASE Take
    <2>1. out' = "none" /\ pc' = "launch"
        BY <1>1 DEF Take, WatchInv, Waiting
    <2>2. Worded' /\ OwnWay'
        BY <2>1 DEF Worded, OwnWay
    <2>3. QED BY <2>1, <2>2, NotOver
<1>2. CASE Call
    <2>1. out' = "none" /\ pc' = "search" /\ argv' = call'.argv
        BY <1>2 DEF Call
    <2>2. Worded' /\ OwnWay'
        BY <2>1 DEF Worded, OwnWay
    <2>3. QED BY <2>1, <2>2, NotOver
<1>3. CASE Launch
    <2>1. call'.fn = "lroot" /\ pc' \in {"run", "over"}
        BY <1>3 DEF Launch, WatchInv, Waiting, Ends
    <2>2. QED BY <2>1 DEF EndInv, Worded, OwnWay, HookCause, HookArrive, OwnLoader
<1>4. QED BY <1>1, <1>2, <1>3

\* A name that is nowhere in PATH means no file.
LEMMA NowhereMeansNothing ==
    ASSUME NEW f \in [Names -> Node], NEW c, c.path \in Path,
           c.fn \in {"lroot", "execvp"}, Bare(c.path), Hits(f, c.path) = {}
    PROVE  ~Startable(Meant(f, c)) /\ ~CanStart(f, c)
<1>1. StartsAt(f, c) = <<>>
    <2>1. Hits(f, c.path) \in SUBSET DOMAIN SearchDirs
        BY DEF Hits
    <2>2. FirstDir[Hits(f, c.path)] = 0
        BY <2>1, FirstDirIs
    <2>3. QED BY <2>2 DEF StartsAt
<1>2. PICK s \in Path : s = <<>>
    BY Files
<1>3. NodeAt(f)[s] = Absent
    <2>1. At(f, s) = Absent
        BY <1>2, ExecAssumption DEF At
    <2>2. QED BY <2>1, NodeAtTyped
<1>4. PICK g : g = GuestWay(f, s)
    OBVIOUS
<1>5. KernelTurns \in Nat /\ KernelTurns \in 0..KernelTurns /\ 0 \in 0..KernelTurns
    BY ExecAssumption
<1>6. g[0] = s /\ \A n \in 0..KernelTurns : n # KernelTurns => g[n + 1] = GuestHop(f)[g[n]]
    BY <1>4, WaySteps
<1>7. GuestHop(f)[s] = s
    BY <1>3, HopAlike DEF Absent
<1>8. \A n \in 0..KernelTurns : g[n] \in {s}
    <2>1. g[0] \in {s} /\ \A n \in 0..KernelTurns : g[n] \in {s} => GuestHop(f)[g[n]] \in {s}
        BY <1>6, <1>7
    <2>2. QED BY <1>5, <1>6, <2>1, StaysFrom
<1>9. Meant(f, c) = FileOf[Absent]
    BY <1>1, <1>2, <1>3, <1>4, <1>5, <1>8, WayIs DEF OnWay
<1>10. FileOf[Absent] = NoFile
    <2>1. Absent \in Node
        BY <1>2, <1>3, NodeAtTyped
    <2>2. QED BY <2>1 DEF FileOf, Absent
<1>11. QED BY <1>9, <1>10, Files DEF CanStart, Loads, Startable, ElfFile

LEMMA SearchEnd ==
    ASSUME WatchInv, MeantInv, EndInv, EnterExec \/ EnterRaw \/ EnterPath \/ EnterName
    PROVE  EndInv'
<1>1. /\ pc = "search" /\ UNCHANGED <<fs, call, history>> /\ argv = call.argv /\ out = "none"
    BY DEF EnterExec, EnterRaw, EnterPath, EnterName, EndInv, Worded, WatchInv, Waiting, InCall
<1>2. ASSUME NEW p, Enter(p)
      PROVE  EndInv'
    <2>1. pc' = "links" /\ out' = "none" /\ argv' = call'.argv
        BY <1>1, <1>2 DEF Enter
    <2>2. Worded' /\ OwnWay'
        BY <2>1 DEF Worded, OwnWay
    <2>3. QED BY <2>1, <2>2, NotOver
<1>3. CASE EnterExec
    BY <1>2, <1>3 DEF EnterExec
<1>4. CASE EnterPath
    BY <1>2, <1>4 DEF EnterPath
<1>5. CASE EnterRaw
    <2>1. /\ pc' = "kernel" /\ out' = "none" /\ argv' = call'.argv
          /\ call'.fn # "execve"
        BY <1>1, <1>5 DEF EnterRaw, frame
    <2>2. Worded' /\ OwnWay'
        BY <2>1 DEF Worded, OwnWay
    <2>3. QED BY <2>1, <2>2, NotOver
<1>6. CASE EnterName
    <2> DEFINE hits == {j \in DOMAIN SearchDirs : MayExecute(Join(SearchDirs[j], call.path))}
               at(k) == [place |-> "caller", path |-> Join(SearchDirs[k], call.path)]
    <2>1. /\ IF FirstDir[hits] = 0 THEN Fails ELSE Enter(at(FirstDir[hits]))
          /\ call.fn = "execvp" /\ Bare(call.path)
        BY <1>6 DEF EnterName
    <2>2. hits \in SUBSET DOMAIN SearchDirs
        OBVIOUS
    <2>3. OrdinaryThroughout => hits = Hits(fs, call.path)
        BY <1>1, <2>1, HitsAlike
    <2> HIDE DEF hits, at
    <2>4. CASE FirstDir[hits] # 0
        BY <1>2, <2>1, <2>4
    <2>5. CASE FirstDir[hits] = 0
        <3>1. hits = {} /\ Fails
            BY <2>1, <2>2, <2>5, FirstDirIs
        <3>2. OrdinaryThroughout => ~CanStart(fs, call)
            <4>1. fs \in [Names -> Node] /\ call.path \in Path
                BY DEF WatchInv, Typed, TypeOK, Called
            <4>2. QED BY <2>1, <2>3, <3>1, <4>1, NowhereMeansNothing
        <3>3. QED BY <1>1, <3>1, <3>2, EndsForCause
    <2>6. QED BY <2>4, <2>5
<1>7. QED BY <1>3, <1>4, <1>5, <1>6

LEMMA InjectedSame ==
    ASSUME UNCHANGED <<image, call, ptr>>
    PROVE  Injected' = Injected
BY DEF Injected, Orig, TranslateIn, Rooted

LEMMA LinksEnd ==
    ASSUME WatchInv, EndInv, LoseBuffer \/ FollowLink \/ StopFollowing
    PROVE  EndInv'
<1>1. /\ pc = "links" /\ pc' \in {"links", "probe"} /\ out = "none"
      /\ UNCHANGED <<call, argv, out>>
    BY DEF LoseBuffer, FollowLink, StopFollowing, frame, WatchInv, Waiting, InCall
<1>2. Worded' /\ OwnWay'
    BY <1>1 DEF EndInv, Worded, OwnWay
<1>3. QED BY <1>1, <1>2, NotOver

LEMMA RelinkEnd ==
    ASSUME WatchInv, EndInv, Relink
    PROVE  EndInv'
<1>1. /\ changes' # 0 /\ UNCHANGED <<image, pc, call, ptr, argv, out>> /\ out = "none"
    BY DEF Relink, frame, WatchInv, Waiting, Typed, TypeOK
<1>2. OwnWay'
    BY <1>1 DEF OwnWay
<1>3. Worded'
    BY <1>1, InjectedSame DEF EndInv, Worded
<1>4. QED BY <1>1, <1>2, <1>3, NotOver

LEMMA DecideEnd ==
    ASSUME WatchInv, EndInv, Probe \/ Decide \/ ForkFails
    PROVE  EndInv'
<1>1. /\ pc \in {"probe", "decide", "ptrace"} /\ out = "none"
      /\ UNCHANGED <<fs, image, call, ptr, out, history>>
    BY DEF Probe, Decide, ForkFails, WatchInv, Waiting, InCall, frame
<1>2. Injected' = Injected
    BY <1>1, InjectedSame
<1>3. PICK h : h = HostFile(fs, ptr.path)
    OBVIOUS
<1>4. HostFile(fs, ptr.path)' = h
    BY <1>1, <1>3
<1>5. CASE Probe
    <2>1. pc' = "decide" /\ argv' = WithApplet /\ argv = call.argv
        BY <1>5 DEF Probe, EndInv, Worded
    <2>2. argv' = Injected
        BY <2>1 DEF WithApplet, Injected
    <2>3. Worded' /\ OwnWay'
        BY <1>2, <2>1, <2>2 DEF Worded, OwnWay
    <2>4. QED BY <1>1, <2>3, NotOver
<1>6. CASE Decide \/ ForkFails
    <2>1. pc \in {"decide", "ptrace"} /\ pc' \in {"ptrace", "loader", "kernel"} /\ argv' = argv
        BY <1>6 DEF Decide, ForkFails, AfterPtrace, frame
    <2>2. Worded'
        BY <1>1, <1>2, <2>1 DEF EndInv, Worded
    <2>3. pc' = "kernel" /\ call.fn = "execve" =>
              info = NoFile \/ ~OfHostArch(info) \/ Programs[info].interp = <<>>
        BY <1>6 DEF Decide, ForkFails, AfterPtrace
    <2>4. changes = 0 => info = IF ElfFile(h) THEN h ELSE NoFile
        BY <1>3, <2>1 DEF WatchInv, Sighted
    <2>5. Startable(h) => ElfFile(h) /\ h # NoFile
        BY Files DEF Startable, ElfFile
    <2>6. pc' = "kernel" /\ call.fn = "execve" /\ changes = 0 /\ Startable(h) /\ OfHostArch(h)
              => Programs[h].interp = <<>>
        BY <2>3, <2>4, <2>5
    <2>7. OfHostArch(h)' <=> OfHostArch(h)
        BY <1>1, <1>4 DEF OfHostArch
    <2>8. OwnWay'
        BY <1>1, <1>4, <2>6, <2>7 DEF OwnWay, history
    <2>9. QED BY <1>1, <2>2, <2>8, NotOver
<1>7. QED BY <1>5, <1>6

\* There is no program, or the kernel does not start it.
Denied == \/ ~Startable(HostFile(fs, ptr.path))
          \/ InterpreterStays /\ Start(fs, ptr.path, argv) = Refused

\* Where the kernel refuses a program, that program could not be started.
LEMMA RefusedForCause ==
    ASSUME WatchInv, MeantInv, pc \in Steps \ {"search", "links"}, OrdinaryThroughout,
           Denied
    PROVE  \E f \in {began, fs} : ~CanStart(f, call)
<1>1. PICK h : h = HostFile(fs, ptr.path)
    OBVIOUS
<1>2. PICK f \in {began, fs} : h = Meant(f, call) /\ ~Script(h)
    BY <1>1, Reaches
<1>3. fs \in [Names -> Node] /\ ptr.path \in Path /\ h \in MaybeFile
    BY <1>1, HostFileTyped DEF WatchInv, Typed, TypeOK
<1>4. SUFFICES ASSUME CanStart(f, call) PROVE FALSE
    BY <1>2
<1>5. Startable(h) /\ (Programs[h].interp # <<>> => Startable(HostFile(f, Programs[h].interp)))
    BY <1>2, <1>4, Zenon DEF CanStart, Loads, HostFile
<1>6. InterpreterStays /\ Start(fs, ptr.path, argv) = Refused
    BY <1>1, <1>5 DEF Denied
<1>7. StartElf(fs, argv)[h] = Refused
    BY <1>1, <1>2, <1>3, <1>6, StartIs
<1>8. ~(Programs[h].interp # <<>> => Startable(HostFile(fs, Programs[h].interp)))
    BY <1>3, <1>5, <1>7, StartElfIs
<1>9. HostFile(began, Programs[h].interp) = HostFile(fs, Programs[h].interp)
    <2>1. \E i \in {Meant(f, call)} : Startable(i) =>
              HostFile(began, Programs[i].interp) = HostFile(fs, Programs[i].interp)
        BY <1>2, <1>6, Zenon DEF InterpreterStays, HostFile
    <2>2. QED BY <1>2, <1>5, <2>1
<1>10. QED BY <1>2, <1>5, <1>8, <1>9

LEMMA WaysEnd ==
    ASSUME WatchInv, MeantInv, EndInv, Ptrace \/ Loader \/ Kernel
    PROVE  EndInv'
<1>1. /\ pc \in {"ptrace", "loader", "kernel"} /\ pc \in Steps /\ pc \in Steps \ {"search", "links"}
      /\ UNCHANGED <<fs, call, forkless, history, relinks>>
      /\ UNCHANGED <<fs, call, history>>
      /\ fs \in [Names -> Node] /\ ptr.path \in Path /\ out = "none"
    BY DEF Ptrace, Loader, Kernel, Steps, WatchInv, Typed, TypeOK, Waiting, InCall
<1>2. PICK h \in MaybeFile : h = HostFile(fs, ptr.path)
    BY <1>1, HostFileTyped
<1>3. PICK s : s = Start(fs, ptr.path, argv)
    OBVIOUS
<1>4. ASSUME pc \in {"ptrace", "kernel"}, s # Refused, NEW via, via \in {"ptrace", "kernel"},
             via = "kernel" => pc = "kernel", Becomes(s, via)
      PROVE  EndInv'
    <2>1. argv \in {call.argv, Injected}
        BY <1>4 DEF EndInv, Worded
    <2>2. CASE ~OrdinaryThroughout
        <3>1. out' = "started" /\ pc' = "run"
            BY <1>4 DEF Becomes, Leaves
        <3>2. ~OrdinaryThroughout'
            BY <1>1, <2>2, SameThroughout
        <3>3. QED BY <3>1, <3>2 DEF EndInv, Worded, OwnWay, HookCause, HookArrive,
                                    FailsOnlyForCause, ArgsArrive, OwnLoader
    <2>3. CASE OrdinaryThroughout
        <3>1. ~Script(h)
            BY <1>1, <1>2, <2>3, Reaches
        <3>2. s = StartElf(fs, argv)[h]
            BY <1>1, <1>2, <1>3, <3>1, StartIs
        <3>3. Startable(h) /\ s.file = h /\ s.argv = argv
            BY <1>1, <1>4, <3>2, StartElfIs
        <3>4. WordedAs(s, via)
            BY <1>4, <2>1, <3>3 DEF WordedAs
        <3>5. via # "ptrace" /\ changes = 0 /\ call.fn = "execve" /\ OfHostArch(s.file) =>
                  Programs[s.file].interp = <<>> \/ ~Startable(OwnLoaderOf(s.file))
            <4>1. call.fn = "execve" => Rooted
                BY <1>1, <2>3 DEF OrdinaryThroughout, Rooted, WatchInv, Origin
            <4>2. QED BY <1>2, <1>4, <3>3, <4>1 DEF EndInv, OwnWay
        <3>6. QED BY <1>1, <1>4, <3>4, <3>5, StartedRight
    <2>4. QED BY <2>2, <2>3
<1>5. OrdinaryThroughout /\ InterpreterStays /\ (~Startable(h) \/ s = Refused) =>
          \E f \in {began, fs} : ~CanStart(f, call)
    <2> SUFFICES ASSUME OrdinaryThroughout, InterpreterStays, ~Startable(h) \/ s = Refused
                 PROVE  \E f \in {began, fs} : ~CanStart(f, call)
        OBVIOUS
    <2>1. Denied
        BY <1>2, <1>3 DEF Denied
    <2>2. QED BY <1>1, <2>1, RefusedForCause
<1>6. CASE Ptrace
    <2>1. pc = "ptrace" /\ IF s = Refused THEN Ends ELSE Becomes(s, "ptrace")
        BY <1>3, <1>6 DEF Ptrace
    <2>2. QED BY <1>1, <1>4, <1>5, <2>1, EndsForCause
<1>7. CASE Kernel
    <2>1. pc = "kernel" /\ IF s = Refused THEN Fails ELSE Becomes(s, "kernel")
        BY <1>3, <1>7 DEF Kernel
    <2>2. QED BY <1>1, <1>4, <1>5, <2>1, EndsForCause
<1>8. CASE Loader
    <2>1. PICK l : l = OwnLoaderOf(info)
        OBVIOUS
    <2>2. PICK rest : rest = Tail(argv)
        OBVIOUS
    <2>3. PICK r : r = RunLoader(fs, l, ptr.path, rest)
        OBVIOUS
    <2>4. /\ pc = "loader"
          /\ IF ~Rooted \/ ~Startable(l)
             THEN pc' = "kernel" /\ UNCHANGED <<image, frame, out>>
             ELSE IF r = Refused THEN Ends ELSE Becomes(r, "loader")
        BY <1>8, <2>1, <2>2, <2>3, Zenon DEF Loader, HostFile, OwnLoaderOf
    <2>5. changes = 0 => info = IF ElfFile(h) THEN h ELSE NoFile
        BY <1>2, <2>4 DEF WatchInv, Sighted
    <2>6. argv = Injected
        BY <2>4 DEF EndInv, Worded
    <2>7. CASE ~Rooted \/ ~Startable(l)
        <3>1. pc' = "kernel" /\ UNCHANGED <<image, call, ptr, argv, out>>
            BY <1>1, <2>4, <2>7 DEF frame
        <3>2. Worded'
            BY <2>6, <3>1, InjectedSame DEF Worded
        <3>3. changes = 0 /\ Startable(h) /\ Rooted => ~Startable(OwnLoaderOf(h))
            BY <2>1, <2>5, <2>7 DEF Startable
        <3>4. /\ HostFile(fs, ptr.path)' = h /\ OwnLoaderOf(h)' = OwnLoaderOf(h)
              /\ Rooted' = Rooted
            BY <1>1, <1>2, <3>1 DEF OwnLoaderOf, Rooted
        <3>5. OwnWay'
            BY <1>1, <3>1, <3>3, <3>4 DEF OwnWay, history
        <3>6. QED BY <1>1, <3>1, <3>2, <3>5, NotOver
    <2>8. CASE Rooted /\ Startable(l) /\ r = Refused
        <3>1. Ends
            BY <2>4, <2>8
        <3>2. ~Startable(h)
            BY <1>2, <2>3, <2>8, RunLoaderRuns
        <3>3. QED BY <1>1, <1>5, <3>1, <3>2, EndsForCause
    <2>9. CASE Rooted /\ Startable(l) /\ r # Refused
        <3>1. Becomes(r, "loader")
            BY <2>4, <2>9
        <3>2. r.loader = l /\ r.argv = <<ptr.path>> \o rest
            <4>1. PICK v : v = <<ptr.path>> \o rest
                OBVIOUS
            <4>2. r = IF ElfFile(h) /\ Programs[h].native
                      THEN [file |-> h, loader |-> l, argv |-> v] ELSE Refused
                BY <1>2, <2>3, <4>1 DEF RunLoader, HostFile
            <4>3. QED BY <2>9, <4>1, <4>2
        <3>3. r.file = h /\ ElfFile(h)
            BY <1>2, <2>3, <2>9, RunLoaderIs
        <3>4. WordedAs(r, "loader")
            BY <2>2, <2>6, <3>2 DEF WordedAs
        <3>5. changes = 0 => r.loader = OwnLoaderOf(r.file)
            BY <2>1, <2>5, <3>2, <3>3
        <3>6. QED BY <1>1, <3>1, <3>4, <3>5, StartedRight
    <2>10. QED BY <2>7, <2>8, <2>9
<1>9. QED BY <1>6, <1>7, <1>8

LEMMA NextEnd == WatchInv /\ MeantInv /\ EndInv /\ [Next]_vars => EndInv'
<1> SUFFICES ASSUME WatchInv, MeantInv, EndInv, [Next]_vars PROVE EndInv'
    OBVIOUS
<1>1. CASE UNCHANGED vars
    <2>1. UNCHANGED <<fs, image, pc, call, ptr, argv, out, from, began, changes>>
        BY <1>1 DEF vars, frame, history
    <2>2. OrdinaryThroughout' <=> OrdinaryThroughout
        BY <2>1, SameThroughout DEF history
    <2>3. InterpreterStays' <=> InterpreterStays
        BY <2>1, SameInterpreter DEF history
    <2>4. Worded' /\ OwnWay'
        BY <2>1, InjectedSame DEF EndInv, Worded, OwnWay, OwnLoaderOf, Rooted, OfHostArch
    <2>5. HookCause'
        BY <2>1, <2>2, <2>3 DEF EndInv, HookCause, FailsOnlyForCause
    <2>6. HookArrive'
        BY <2>1, <2>2 DEF EndInv, HookArrive, ArgsArrive, NamesFit, Taken
    <2>7. OwnLoader'
        BY <2>1, <2>2 DEF EndInv, OwnLoader, OfHostArch
    <2>8. QED BY <2>4, <2>5, <2>6, <2>7 DEF EndInv
<1>2. CASE Next
    BY <1>2, BeginEnd, SearchEnd, LinksEnd, DecideEnd, WaysEnd, RelinkEnd DEF Next, Advance
<1>3. QED BY <1>1, <1>2

\* How calls end holds in every state.
THEOREM EndInvariant ==
    ASSUME AbsoluteRoots
    PROVE  Spec => []EndInv
<1>1. Init => EndInv
    BY DEF Init, EndInv, Worded, OwnWay, HookCause, HookArrive, FailsOnlyForCause, ArgsArrive,
           OwnLoader
<1>2. WatchInv /\ MeantInv /\ EndInv /\ [Next]_vars => EndInv'
    BY NextEnd
<1>3. Spec => []WatchInv
    BY WatchInvariant
<1>4. Spec => []MeantInv
    BY MeantInvariant
<1>5. QED BY <1>1, <1>2, <1>3, <1>4, PTL DEF Spec

\* A dynamic program for the machine of the caller's library that execve
\* starts runs with the loader of the rootfs whenever the rootfs has it
\* (lib.rs:1892-2008).
THEOREM OwnLoaderRuns ==
    ASSUME AbsoluteRoots
    PROVE  Spec => []OwnLoader
<1>1. EndInv => OwnLoader
    BY DEF EndInv
<1>2. Spec => []EndInv
    BY EndInvariant
<1>3. QED BY <1>1, <1>2, PTL

(***************************************************************************)
(* The parts of a path                                                     *)
(***************************************************************************)

LEMMA SplitAt ==
    ASSUME NEW p \in Path, NEW n \in Nat, n <= Len(p)
    PROVE  /\ SubSeq(p, 1, n) \in Path /\ Len(SubSeq(p, 1, n)) = n
           /\ \A i \in 1..n : SubSeq(p, 1, n)[i] = p[i]
           /\ Drop(p, n) \in Path
           /\ p = SubSeq(p, 1, n) \o Drop(p, n)
<1>1. Len(p) \in Nat
    BY LenProperties DEF Path
<1>2. \A i \in 1..n : p[i] \in Fragment
    BY <1>1, ElementOfSeq DEF Path
<1>3. SubSeq(p, 1, n) \in Path /\ Len(SubSeq(p, 1, n)) = n
      /\ \A i \in 1..n : SubSeq(p, 1, n)[i] = p[i]
    <2>1. /\ SubSeq(p, 1, n) \in Seq(Fragment)
          /\ Len(SubSeq(p, 1, n)) = IF 1 <= n THEN n - 1 + 1 ELSE 0
          /\ \A i \in 1..n - 1 + 1 : SubSeq(p, 1, n)[i] = p[1 + i - 1]
        BY <1>1, <1>2, SubSeqProperties
    <2>2. QED BY <2>1 DEF Path
<1>4. p = SubSeq(p, 1, n) \o Drop(p, n)
    <2>1. 1 \in 1..Len(p) + 1 /\ n \in 1 - 1..Len(p) /\ Len(p) \in n..Len(p)
        BY <1>1
    <2>2. SubSeq(p, 1, n) \o SubSeq(p, n + 1, Len(p)) = SubSeq(p, 1, Len(p))
        BY <2>1, ConcatAdjacentSubSeq DEF Path
    <2>3. QED BY <2>2, SubSeqFull DEF Drop, Path
<1>5. QED BY <1>3, <1>4, DropTyped

\* Where the last slash of a path is.
LastSlash(p, i) ==
    i \in 1..Len(p) /\ p[i] = Slash /\ \A j \in (i + 1)..Len(p) : p[j] # Slash

LEMMA HasLastSlash ==
    ASSUME NEW p \in Path, ~Bare(p)
    PROVE  \E i \in 1..Len(p) : LastSlash(p, i)
<1>1. PICK N \in Nat : N = Len(p) /\ DOMAIN p = 1..N
    BY LenProperties DEF Path
<1> DEFINE T == {k \in Nat : N - k \in 1..N /\ p[N - k] = Slash}
<1>2. T # {}
    <2>1. PICK i \in 1..N : p[i] = Slash
        BY <1>1 DEF Bare
    <2>2. N - i \in Nat /\ N - (N - i) = i
        BY <1>1
    <2>3. N - i \in T
        BY <2>1, <2>2
    <2>4. QED BY <2>3
<1>3. PICK k \in T : \A m \in T : k <= m
    <2>1. T \in SUBSET Nat
        OBVIOUS
    <2>2. QED BY <1>2, <2>1, Least
<1>4. PICK i \in 1..N : i = N - k /\ p[i] = Slash
    BY <1>3
<1>5. ASSUME NEW j \in (i + 1)..N, p[j] = Slash
      PROVE  FALSE
    <2>1. PICK m \in Nat : m = N - j
        OBVIOUS
    <2>2. N - m = j /\ j \in 1..N /\ m < k
        BY <1>4, <2>1
    <2>3. N - m \in 1..N /\ p[N - m] = Slash
        BY <1>5, <2>2
    <2>4. QED BY <1>3, <2>2, <2>3
<1>6. LastSlash(p, i)
    BY <1>1, <1>4, <1>5 DEF LastSlash
<1>7. QED BY <1>1, <1>6

LEMMA ParentIs ==
    ASSUME NEW p \in Path, NEW i, LastSlash(p, i)
    PROVE  /\ Parent(p) = SubSeq(p, 1, i - 1) /\ Base(p) = Drop(p, i)
           /\ i - 1 \in Nat /\ i - 1 <= Len(p) /\ i \in Nat /\ i <= Len(p) /\ ~Bare(p)
<1>1. PICK N \in Nat : N = Len(p) /\ DOMAIN p = 1..N
    BY LenProperties DEF Path
<1>2. i \in 1..N /\ p[i] = Slash /\ \A j \in (i + 1)..N : p[j] # Slash
    BY <1>1 DEF LastSlash
<1>3. i - 1 \in Nat /\ i - 1 <= N /\ i \in Nat /\ i <= N
    BY <1>2
<1> DEFINE last == {k \in 1..Len(p) : p[k] = Slash /\ \A j \in (k + 1)..Len(p) : p[j] # Slash}
<1>4. last = {i}
    <2>1. i \in last
        BY <1>1, <1>2
    <2>2. ASSUME NEW k \in last PROVE k = i
        <3>1. k \in 1..N /\ p[k] = Slash /\ \A j \in (k + 1)..N : p[j] # Slash
            BY <1>1
        <3>2. ~(k < i)
            <4>1. k < i => i \in (k + 1)..N
                BY <1>2, <3>1
            <4>2. QED BY <1>2, <3>1, <4>1
        <3>3. ~(i < k)
            <4>1. i < k => k \in (i + 1)..N
                BY <1>2, <3>1
            <4>2. QED BY <1>2, <3>1, <4>1
        <3>4. QED BY <1>2, <3>1, <3>2, <3>3
    <2>3. QED BY <2>1, <2>2
<1>5. Parent(p) = SubSeq(p, 1, i - 1)
    <2>1. Parent(p) = IF last = {} THEN <<>> ELSE SubSeq(p, 1, (CHOOSE k \in last : TRUE) - 1)
        BY DEF Parent
    <2> HIDE DEF last
    <2>2. (CHOOSE k \in last : TRUE) = i
        BY <1>4
    <2>3. QED BY <1>4, <2>1, <2>2
<1>6. ~Bare(p)
    BY <1>1, <1>2 DEF Bare
<1>7. Len(Parent(p)) = i - 1
    BY <1>1, <1>3, <1>5, SplitAt
<1>8. Base(p) = Drop(p, i)
    <2>1. Len(Parent(p)) + 1 = i
        BY <1>3, <1>7
    <2>2. QED BY <1>6, <2>1 DEF Base
<1>9. QED BY <1>1, <1>3, <1>5, <1>6, <1>8

\* A directory in front of a path changes neither its last slash nor what
\* follows that.
LEMMA BelowDirectory ==
    ASSUME NEW d \in Path, NEW p \in Path, ~Bare(p)
    PROVE  /\ d \o p \in Path /\ ~Bare(d \o p)
           /\ Parent(d \o p) = d \o Parent(p) /\ Base(d \o p) = Base(p)
<1>1. PICK D \in Nat, N \in Nat : D = Len(d) /\ N = Len(p)
    BY LenProperties DEF Path
<1>2. PICK i : LastSlash(p, i)
    BY HasLastSlash
<1>3. i \in 1..N /\ p[i] = Slash /\ \A j \in (i + 1)..N : p[j] # Slash
    BY <1>1, <1>2 DEF LastSlash
<1>4. PICK q \in Path : q = d \o p
    BY PathConcat
<1>5. Len(q) = D + N /\ \A j \in 1..N : q[D + j] = p[j]
    BY <1>1, <1>4, ConcatProperties DEF Path
<1>6. LastSlash(q, D + i)
    <2>1. D + i \in 1..D + N /\ q[D + i] = Slash
        BY <1>1, <1>3, <1>5
    <2>2. ASSUME NEW j \in (D + i + 1)..D + N PROVE q[j] # Slash
        <3>1. j - D \in (i + 1)..N /\ j - D \in 1..N /\ D + (j - D) = j
            BY <1>1, <1>3
        <3>2. QED BY <1>3, <1>5, <3>1
    <2>3. QED BY <1>5, <2>1, <2>2 DEF LastSlash
<1>7. PICK h \in Path, r \in Path : /\ h = SubSeq(p, 1, i - 1) /\ r = Drop(p, i - 1)
                                    /\ p = h \o r /\ Len(h) = i - 1
    <2>1. i - 1 \in Nat /\ i - 1 <= Len(p)
        BY <1>1, <1>3
    <2>2. QED BY <2>1, SplitAt
<1>8. PICK a \in Path, b \in Path : /\ a = SubSeq(p, 1, i) /\ b = Drop(p, i)
                                    /\ p = a \o b /\ Len(a) = i
    <2>1. i \in Nat /\ i <= Len(p)
        BY <1>1, <1>3
    <2>2. QED BY <2>1, SplitAt
<1>9. Parent(q) = d \o h
    <2>1. PICK j : j = D + i /\ Parent(q) = SubSeq(q, 1, j - 1)
        BY <1>4, <1>6, ParentIs, Zenon
    <2>2. PICK x \in Path : x = d \o h
        BY PathConcat
    <2>3. q = x \o r
        <3>1. Associate(d, h, r)
            BY Associates
        <3>2. QED BY <1>4, <1>7, <2>2, <3>1, Zenon DEF Associate
    <2>4. Len(x) = j - 1 /\ Len(x) \in Nat
        BY <1>1, <1>3, <1>7, <2>1, <2>2, ConcatProperties DEF Path
    <2>5. SubSeq(q, 1, Len(x)) = SubSeq(x, 1, Len(x))
        <3>1. 1 \in 1..Len(x) + 1 /\ Len(x) \in 1 - 1..Len(x)
            BY <2>4
        <3>2. QED BY <2>3, <3>1, SubSeqOfConcat1 DEF Path
    <2>6. SubSeq(x, 1, Len(x)) = x
        BY SubSeqFull DEF Path
    <2>7. QED BY <2>1, <2>2, <2>4, <2>5, <2>6, Zenon
<1>10. Base(q) = b
    <2>1. Base(q) = Drop(q, D + i)
        BY <1>4, <1>6, ParentIs
    <2>2. PICK x \in Path : x = d \o a
        BY PathConcat
    <2>3. q = x \o b
        <3>1. Associate(d, a, b)
            BY Associates
        <3>2. QED BY <1>4, <1>8, <2>2, <3>1, Zenon DEF Associate
    <2>4. Len(x) = D + i
        BY <1>1, <1>3, <1>8, <2>2, ConcatProperties DEF Path
    <2>5. QED BY <2>1, <2>3, <2>4, DropOfConcat
<1>11. Parent(p) = h /\ Base(p) = b
    BY <1>2, <1>7, <1>8, ParentIs
<1>12. ~Bare(q)
    BY <1>4, <1>6, ParentIs
<1>13. QED BY <1>4, <1>9, <1>10, <1>11, <1>12

\* There is no slash in the last component of a path.
LEMMA BaseOfBase ==
    ASSUME NEW p \in Path
    PROVE  Base(Base(p)) = Base(p)
<1>1. CASE Bare(p)
    BY <1>1 DEF Base
<1>2. CASE ~Bare(p)
    <2>1. PICK N \in Nat : N = Len(p)
        BY LenProperties DEF Path
    <2>2. PICK i : LastSlash(p, i)
        BY <1>2, HasLastSlash
    <2>3. i \in 1..N /\ \A j \in (i + 1)..N : p[j] # Slash
        BY <2>1, <2>2 DEF LastSlash
    <2>4. PICK b \in Path : b = Drop(p, i) /\ Len(b) = N - i
        <3>1. i \in Nat /\ i <= Len(p)
            BY <2>1, <2>3
        <3>2. Drop(p, i) \in Path /\ Len(Drop(p, i)) = N - i
            BY <2>1, <3>1, DropTyped
        <3>3. QED BY <3>2
    <2>5. ASSUME NEW k \in DOMAIN b PROVE b[k] # Slash
        <3>1. k \in 1..N - i
            BY <2>4, <2>5, LenProperties DEF Path
        <3>2. b[k] = p[i + k]
            BY <2>1, <2>3, <2>4, <3>1, DropByIndex
        <3>3. i + k \in (i + 1)..N
            BY <2>1, <2>3, <3>1
        <3>4. QED BY <2>3, <3>2, <3>3
    <2>6. Bare(b)
        BY <2>5 DEF Bare
    <2>7. Base(p) = b
        BY <2>2, <2>4, ParentIs
    <2>8. QED BY <2>6, <2>7 DEF Base
<1>3. QED BY <1>1, <1>2

\* A path that does not end in a slash.
Proper(p) == p \in Path /\ p # <<>> /\ Last(p) # Slash

LEMMA LastBelow ==
    ASSUME NEW d \in Path, NEW p \in Path, p # <<>>
    PROVE  d \o p \in Path /\ d \o p # <<>> /\ Last(d \o p) = Last(p)
<1>1. PICK D \in Nat, N \in Nat : D = Len(d) /\ N = Len(p) /\ N # 0
    BY LenProperties, EmptySeq DEF Path
<1>2. d \o p \in Path /\ Len(d \o p) = D + N /\ (d \o p)[D + N] = p[N]
    <2>1. N \in 1..N
        BY <1>1
    <2>2. QED BY <1>1, <2>1, ConcatProperties DEF Path
<1>3. d \o p # <<>>
    BY <1>1, <1>2, EmptySeq
<1>4. QED BY <1>1, <1>2, <1>3 DEF Last

LEMMA ProperBelow ==
    ASSUME NEW d \in Path, NEW p, Proper(p)
    PROVE  Proper(d \o p) /\ Clean(p) = p
BY LastBelow DEF Proper, Clean

LEMMA AbsoluteBelow ==
    ASSUME NEW d \in Path, NEW p \in Path
    PROVE  /\ d # <<>> => (IsAbsolute(d \o p) <=> IsAbsolute(d))
           /\ d = <<>> => d \o p = p
           /\ IsAbsolute(p) => ~Bare(p) /\ p # <<>>
<1>1. PICK D \in Nat, N \in Nat : D = Len(d) /\ N = Len(p) /\ DOMAIN p = 1..N
    BY LenProperties DEF Path
<1>2. d \o p \in Path /\ Len(d \o p) = D + N /\ \A i \in 1..D : (d \o p)[i] = d[i]
    BY <1>1, ConcatProperties DEF Path
<1>3. ASSUME d # <<>> PROVE IsAbsolute(d \o p) <=> IsAbsolute(d)
    <2>1. D # 0
        BY <1>1, <1>3, EmptySeq DEF Path
    <2>2. d \o p # <<>> /\ (d \o p)[1] = d[1]
        BY <1>1, <1>2, <2>1, EmptySeq DEF Path
    <2>3. QED BY <1>3, <2>2 DEF IsAbsolute
<1>4. d = <<>> => d \o p = p
    BY ConcatEmptySeq DEF Path
<1>5. IsAbsolute(p) => ~Bare(p) /\ p # <<>>
    BY <1>1, EmptySeq DEF IsAbsolute, Bare, Path
<1>6. QED BY <1>3, <1>4, <1>5

\* What Join puts behind a directory.
Gap(d) == IF d # <<>> /\ Last(d) = Slash THEN <<>> ELSE <<Slash>>

LEMMA JoinIs ==
    ASSUME NEW d \in Path, NEW p \in Path
    PROVE  /\ Gap(d) \in Path /\ Gap(d) \o p \in Path
           /\ Join(d, p) = d \o (Gap(d) \o p)
<1>1. <<>> \in Path /\ <<Slash>> \in Path
    BY PathAssumption, EmptySeq DEF Path
<1>2. Gap(d) \in Path
    BY <1>1 DEF Gap
<1>3. Gap(d) \o p \in Path
    BY <1>2, PathConcat
<1>4. CASE d # <<>> /\ Last(d) = Slash
    BY <1>4, <1>1, AbsoluteBelow DEF Gap, Join
<1>5. CASE ~(d # <<>> /\ Last(d) = Slash)
    <2>1. PICK s \in Path : s = <<Slash>>
        BY <1>1
    <2>2. Join(d, p) = (d \o s) \o p /\ Gap(d) = s
        BY <1>5, <2>1 DEF Join, Gap
    <2>3. Associate(d, s, p)
        BY Associates
    <2>4. QED BY <1>2, <1>3, <2>2, <2>3, Zenon DEF Associate
<1>6. QED BY <1>2, <1>3, <1>4, <1>5

JoinsBelow(e, d, p) == Join(e \o d, p) = e \o Join(d, p)

LEMMA JoinBelow ==
    ASSUME NEW e \in Path, NEW d \in Path, NEW p \in Path, d # <<>>
    PROVE  JoinsBelow(e, d, p)
<1>1. PICK x \in Path : x = e \o d
    BY PathConcat
<1>2. Gap(x) = Gap(d)
    BY <1>1, LastBelow DEF Gap
<1>3. PICK t \in Path : t = Gap(d) \o p
    BY JoinIs
<1>4. Join(x, p) = x \o t /\ Join(d, p) = d \o t
    <2>1. Join(x, p) = x \o (Gap(x) \o p) /\ Join(d, p) = d \o (Gap(d) \o p)
        BY <1>1, JoinIs
    <2>2. QED BY <1>2, <1>3, <2>1, Zenon
<1>5. Associate(e, d, t)
    BY Associates
<1>6. QED BY <1>1, <1>4, <1>5, Zenon DEF Associate, JoinsBelow

LEMMA JoinProper ==
    ASSUME NEW d \in Path, NEW p, Proper(p)
    PROVE  Proper(Join(d, p)) /\ ~Bare(Join(d, p))
<1>1. p \in Path /\ p # <<>>
    BY DEF Proper
<1>2. PICK t \in Path : t = Gap(d) \o p /\ Join(d, p) = d \o t
    BY <1>1, JoinIs
<1>3. Proper(t)
    BY <1>1, <1>2, JoinIs, ProperBelow
<1>4. Proper(Join(d, p))
    BY <1>2, <1>3, ProperBelow
<1>5. ~Bare(Join(d, p))
    <2>1. CASE d # <<>> /\ Last(d) = Slash
        <3>1. PICK D \in Nat : D = Len(d) /\ D # 0 /\ d[D] = Slash /\ D \in DOMAIN d
            BY <2>1, LenProperties, EmptySeq DEF Last, Path
        <3>2. ~Bare(d)
            BY <3>1 DEF Bare
        <3>3. PICK N \in Nat, x \in Path : N = Len(t) /\ x = d \o t
            BY PathConcat, LenProperties DEF Path
        <3>4. Len(x) = D + N /\ x[D] = d[D] /\ D \in DOMAIN x
            BY <3>1, <3>3, ConcatProperties, LenProperties DEF Path
        <3>5. QED BY <1>2, <3>1, <3>3, <3>4 DEF Bare
    <2>2. CASE ~(d # <<>> /\ Last(d) = Slash)
        <3>0. <<Slash>> \in Path
            BY PathAssumption, EmptySeq DEF Path
        <3>1. PICK s \in Path : s = <<Slash>>
            BY <3>0
        <3>2. IsAbsolute(s) /\ s # <<>>
            BY <3>1, EmptySeq DEF IsAbsolute
        <3>3. IsAbsolute(s \o p) /\ t = s \o p
            BY <1>1, <1>2, <2>2, <3>1, <3>2, AbsoluteBelow DEF Gap
        <3>4. ~Bare(t)
            BY <3>3, AbsoluteBelow
        <3>5. QED BY <1>2, <3>4, BelowDirectory
    <2>3. QED BY <2>1, <2>2
<1>6. QED BY <1>4, <1>5

(***************************************************************************)
(* The links lroot follows itself                                          *)
(***************************************************************************)

LEMMA ProperResolves ==
    ASSUME NEW d \in Path, NEW p, Proper(p)
    PROVE  Resolved[d][p] = IF IsAbsolute(p) THEN p ELSE Join(d, p)
<1>1. p \in Path /\ p # <<>>
    BY DEF Proper
<1>2. Resolved[d][p] = Resolve(d, p)
    BY <1>1, ResolveTyped
<1>3. Clean(p) = p /\ Clean(Join(d, p)) = Join(d, p)
    BY JoinProper DEF Proper, Clean
<1>4. QED BY <1>1, <1>2, <1>3 DEF Resolve

LEMMA AbsoluteText ==
    ASSUME AbsoluteRoots, NEW p, Proper(p), IsAbsolute(p)
    PROVE  Proper(Rootfs \o p) /\ IsAbsolute(Rootfs \o p) /\ ~Bare(Rootfs \o p)
<1>1. p \in Path /\ Rootfs \in Path
    BY PathAssumption DEF Proper
<1>2. PICK x \in Path : x = Rootfs \o p
    BY <1>1, PathConcat
<1>3. IsAbsolute(x)
    BY <1>1, <1>2, AbsoluteBelow DEF AbsoluteRoots
<1>4. QED BY <1>1, <1>2, <1>3, ProperBelow, AbsoluteBelow

\* lroot, with the path p, is where the guest is.
Stands(p, q) == Proper(p) /\ ~Bare(p) /\ Resolved[Cwd][p] = q

LEMMA ParentAlike ==
    ASSUME NEW p, Proper(p), ~Bare(p), NEW q \in Path, q = Resolved[Cwd][p],
           NEW t, Proper(t), ~IsAbsolute(t)
    PROVE  Stands(Join(Parent(p), t), Resolved[Parent(q)][t])
<1>1. p \in Path /\ t \in Path /\ Cwd \in Path
    BY ExecAssumption DEF Proper
<1>2. PICK d \in Path : d = Parent(p)
    BY <1>1, ParentTyped
<1>3. PICK r \in Path : r = Join(d, t)
    BY <1>1, JoinIsPath
<1>4. Proper(r) /\ ~Bare(r)
    BY <1>1, <1>3, JoinProper
<1>5. PICK e \in Path : e = Parent(q)
    BY ParentTyped
<1>6. Resolved[e][t] = Join(e, t)
    BY ProperResolves
<1>7. PICK i : LastSlash(p, i) /\ d = SubSeq(p, 1, i - 1)
    BY <1>1, <1>2, HasLastSlash, ParentIs, Zenon
<1>8. /\ i - 1 \in Nat /\ i - 1 <= Len(p) /\ Len(d) = i - 1
      /\ \A k \in 1..(i - 1) : d[k] = p[k]
    BY <1>1, <1>7, ParentIs, SplitAt
<1>9. d # <<>> => (IsAbsolute(d) <=> IsAbsolute(p))
    BY <1>1, <1>8, EmptySeq DEF IsAbsolute, Proper
<1>10. d = <<>> => IsAbsolute(p)
    <2> SUFFICES ASSUME d = <<>> PROVE IsAbsolute(p)
        OBVIOUS
    <2>1. i = 1
        BY <1>7, <1>8, EmptySeq, LenProperties DEF LastSlash, Path
    <2>2. QED BY <1>7, <2>1 DEF LastSlash, IsAbsolute, Proper
<1>11. CASE IsAbsolute(p)
    <2>1. q = p
        BY <1>1, <1>11, ProperResolves
    <2>2. IsAbsolute(r)
        <3>1. PICK u \in Path : u = Gap(d) \o t /\ r = d \o u
            BY <1>1, <1>3, JoinIs
        <3>2. CASE d # <<>>
            BY <1>9, <1>11, <3>1, <3>2, AbsoluteBelow
        <3>3. CASE d = <<>>
            <4>0. <<Slash>> \in Path
                BY PathAssumption, EmptySeq DEF Path
            <4>1. PICK s \in Path : s = <<Slash>>
                BY <4>0
            <4>2. IsAbsolute(s) /\ s # <<>>
                BY <4>1, EmptySeq DEF IsAbsolute
            <4>3. u = s \o t /\ r = u
                BY <3>1, <3>3, <4>1, AbsoluteBelow DEF Gap
            <4>4. QED BY <1>1, <4>2, <4>3, AbsoluteBelow
        <3>4. QED BY <3>2, <3>3
    <2>3. Resolved[Cwd][r] = r
        BY <1>1, <1>4, <2>2, ProperResolves
    <2>4. QED BY <1>2, <1>3, <1>4, <1>5, <1>6, <2>1, <2>3 DEF Stands
<1>12. CASE ~IsAbsolute(p)
    <2>1. d # <<>> /\ ~IsAbsolute(d)
        BY <1>9, <1>10, <1>12
    <2>2. PICK g \in Path, c \in Path : g = Gap(Cwd) /\ c = Cwd \o g
        BY <1>1, JoinIs, PathConcat
    <2>3. \A x \in Path : Join(Cwd, x) = c \o x
        <3> SUFFICES ASSUME NEW x \in Path PROVE Join(Cwd, x) = c \o x
            OBVIOUS
        <3>1. Join(Cwd, x) = Cwd \o (g \o x)
            BY <1>1, <2>2, JoinIs
        <3>2. Associate(Cwd, g, x)
            BY <1>1, Associates
        <3>3. QED BY <2>2, <3>1, <3>2, Zenon DEF Associate
    <2>4. q = c \o p
        BY <1>1, <1>12, <2>3, ProperResolves
    <2>5. e = c \o d
        BY <1>1, <1>2, <1>5, <2>4, BelowDirectory
    <2>6. Join(e, t) = c \o r
        <3>1. JoinsBelow(c, d, t)
            BY <1>1, <2>1, JoinBelow
        <3>2. QED BY <1>3, <2>5, <3>1, Zenon DEF JoinsBelow
    <2>7. ~IsAbsolute(r)
        <3>1. PICK u \in Path : r = d \o u
            BY <1>1, <1>3, JoinIs
        <3>2. QED BY <2>1, <3>1, AbsoluteBelow
    <2>8. Resolved[Cwd][r] = c \o r
        BY <1>1, <1>4, <2>3, <2>7, ProperResolves
    <2>9. QED BY <1>2, <1>3, <1>4, <1>5, <1>6, <2>6, <2>8 DEF Stands
<1>13. QED BY <1>11, <1>12

\* A link leads lroot where it leads the guest.
LEMMA HopLaunches ==
    ASSUME AbsoluteRoots, NEW f \in [Names -> Node], NEW p, NEW q \in Path, Stands(p, q),
           NodeAt(f)[q].kind = "link" => LaunchesAlike(NodeAt(f)[q].text)
    PROVE  Stands(LaunchHop(f)[p], GuestHop(f)[q])
<1>1. p \in Path /\ Proper(p) /\ ~Bare(p) /\ q = Resolved[Cwd][p]
    BY DEF Stands, Proper
<1>2. PICK n : n = NodeAt(f)[q]
    OBVIOUS
<1>3. n = At(f, q) /\ (n.kind = "link" => n.text \in Path)
    BY <1>2, NodeAtTyped
<1>4. Clean(p) = p
    BY <1>1 DEF Proper, Clean
<1>5. LaunchHop(f)[p] = IF n.kind # "link" THEN p
                        ELSE IF IsAbsolute(n.text) THEN Rootfs \o n.text
                        ELSE Join(Parent(p), n.text)
    BY <1>1, <1>2, <1>4 DEF LaunchHop
<1>6. GuestHop(f)[q] = IF n.kind # "link" THEN q
                       ELSE Resolved[Parent(q)][IF IsAbsolute(n.text) THEN Translated[n.text].path
                                                                      ELSE n.text]
    BY <1>3 DEF GuestHop, Hop
<1>7. CASE n.kind # "link"
    BY <1>1, <1>5, <1>6, <1>7 DEF Stands
<1>8. ASSUME n.kind = "link"
      PROVE  Proper(n.text) /\ (IsAbsolute(n.text) => Translated[n.text].path = Rootfs \o n.text)
    BY <1>2, <1>3, <1>8 DEF LaunchesAlike, Proper
<1>9. CASE n.kind = "link" /\ IsAbsolute(n.text)
    <2>1. PICK x : x = Rootfs \o n.text
        OBVIOUS
    <2>2. Proper(x) /\ IsAbsolute(x) /\ ~Bare(x)
        BY <1>8, <1>9, <2>1, AbsoluteText
    <2>3. Resolved[Cwd][x] = x /\ Resolved[Parent(q)][x] = x
        BY <2>2, ProperResolves, ParentTyped, ExecAssumption
    <2>4. QED BY <1>5, <1>6, <1>8, <1>9, <2>1, <2>2, <2>3 DEF Stands
<1>10. CASE n.kind = "link" /\ ~IsAbsolute(n.text)
    BY <1>1, <1>5, <1>6, <1>8, <1>10, ParentAlike
<1>11. QED BY <1>7, <1>9, <1>10

Paired(R, H, G, g, N) ==
    \A x : \A n \in 0..N : <<x, g[n]>> \in R => <<H[x], G[g[n]]>> \in R

\* An iteration that stays beside another, until that stands still.
LEMMA IterationsPair ==
    ASSUME NEW M \in Nat, NEW N \in Nat, NEW H, NEW G, NEW a, NEW g, NEW R,
           NEW t, t = IF M <= N THEN M ELSE N,
           NEW p, NEW q, Iteration(a, M, p, H), Iteration(g, N, q, G),
           G[g[N]] = g[N], <<p, q>> \in R,
           Paired(R, H, G, g, N)
    PROVE  <<a[M], g[t]>> \in R
<1> DEFINE pos(n) == IF n <= N THEN n ELSE N
           T == {n \in Nat : n <= M => <<a[n], g[pos(n)]>> \in R}
<1>0. /\ a[0] = p /\ \A n \in 0..M : n # M => a[n + 1] = H[a[n]]
      /\ g[0] = q /\ \A n \in 0..N : n # N => g[n + 1] = G[g[n]]
    BY IterationSteps
<1>1. 0 \in T
    BY <1>0
<1>2. \A n \in Nat : n \in T => n + 1 \in T
    <2> SUFFICES ASSUME NEW n \in Nat, n + 1 <= M, <<a[n], g[pos(n)]>> \in R
                 PROVE  <<a[n + 1], g[pos(n + 1)]>> \in R
        OBVIOUS
    <2>1. PICK k \in 0..N : k = pos(n)
        OBVIOUS
    <2>2. a[n + 1] = H[a[n]] /\ <<H[a[n]], G[g[k]]>> \in R
        BY <1>0, <2>1 DEF Paired
    <2>3. G[g[k]] = g[pos(n + 1)]
        <3>1. CASE n < N
            <4>1. k = n /\ k # N /\ pos(n + 1) = k + 1
                BY <2>1, <3>1
            <4>2. QED BY <1>0, <4>1
        <3>2. CASE ~(n < N)
            <4>1. k = N /\ pos(n + 1) = N
                BY <2>1, <3>2
            <4>2. QED BY <4>1
        <3>3. QED BY <3>1, <3>2
    <2>4. QED BY <2>2, <2>3
<1> HIDE DEF T
<1>3. M \in T
    BY <1>1, <1>2, SetInduction
<1>4. QED BY <1>3 DEF T

\* lroot comes to the file that is meant, if it follows all absolute links, and
\* the kernel comes to it if there are none.
LEMMA LaunchFinds ==
    ASSUME AbsoluteRoots, NEW f \in [Names -> Node], NEW c, c.path \in Path, c.fn = "lroot",
           NEW way, way = Way(f, c), way[KernelTurns].kind # "link",
           ~Bare(c.path), LaunchesAlike(c.path),
           \A n \in AbsLinks(way) : n < Turns,
           \A n \in 0..KernelTurns : way[n].kind = "link" => LaunchesAlike(way[n].text)
    PROVE  /\ HostFile(f, ResolveRootfs(f, Prog(c))) = Meant(f, c)
           /\ AbsLinks(way) = {} => HostFile(f, Prog(c)) = Meant(f, c)
<1> DEFINE K == KernelTurns
<1>1. K \in Nat /\ Turns \in Nat /\ Rootfs \in Path
    BY ExecAssumption, PathAssumption
<1>2. PICK p : p = Prog(c)
    OBVIOUS
<1>3. Proper(p) /\ ~Bare(p) /\ Translated[c.path].path = p
    <2>1. Proper(c.path)
        BY DEF LaunchesAlike, Proper
    <2>2. CASE IsAbsolute(c.path)
        BY <1>2, <2>1, <2>2, AbsoluteText DEF Prog, LaunchesAlike
    <2>3. CASE ~IsAbsolute(c.path)
        BY <1>2, <2>1, <2>3, TranslatedIs DEF Prog
    <2>4. QED BY <2>2, <2>3
<1>4. PICK s \in Path : s = StartsAt(f, c)
    BY StartsAtTyped
<1>5. Stands(p, s)
    BY <1>3, <1>4 DEF Stands, StartsAt
<1>6. PICK g : g = GuestWay(f, s)
    OBVIOUS
<1>7. /\ g[0] = s /\ \A n \in 0..K : g[n] \in Path
      /\ \A n \in 0..K : n # K => g[n + 1] = GuestHop(f)[g[n]]
    BY <1>6, WaySteps
<1>8. \A n \in 0..K : way[n] = NodeAt(f)[g[n]]
    BY <1>4, <1>6, WayIs DEF OnWay
<1>9. GuestHop(f)[g[K]] = g[K]
    BY <1>1, <1>7, <1>8, HopAlike
<1>10. PICK a : Iteration(a, Turns, p, LaunchHop(f)) /\ ResolveRootfs(f, p) = a[Turns]
    BY ResolveIterates
<1>11. Iteration(g, K, s, GuestHop(f))
    BY <1>6, WalkIterates, Zenon DEF GuestWay, GuestHop
<1> DEFINE R == {x \in Path \X Path : Stands(x[1], x[2])}
<1>12. \A x, y : <<x, y>> \in R <=> y \in Path /\ Stands(x, y)
    BY DEF Stands, Proper
<1> HIDE DEF R
<1>13. \A x : \A n \in 0..K : <<x, g[n]>> \in R => <<LaunchHop(f)[x], GuestHop(f)[g[n]]>> \in R
    <2> SUFFICES ASSUME NEW x, NEW n \in 0..K, Stands(x, g[n])
                 PROVE  <<LaunchHop(f)[x], GuestHop(f)[g[n]]>> \in R
        BY <1>12
    <2>1. g[n] \in Path /\ (NodeAt(f)[g[n]].kind = "link" => LaunchesAlike(NodeAt(f)[g[n]].text))
        BY <1>7, <1>8
    <2>2. Stands(LaunchHop(f)[x], GuestHop(f)[g[n]])
        BY <2>1, HopLaunches
    <2>3. GuestHop(f)[g[n]] \in Path
        BY <2>1, HopTyped DEF GuestHop
    <2>4. QED BY <1>12, <2>2, <2>3
<1>14. PICK t \in 0..K : t = IF Turns <= K THEN Turns ELSE K
    BY <1>1
<1>15. Stands(a[Turns], g[t])
    <2>1. <<p, s>> \in R
        BY <1>4, <1>5, <1>12
    <2>2. PICK H, G : H = LaunchHop(f) /\ G = GuestHop(f)
        OBVIOUS
    <2>3. /\ Iteration(a, Turns, p, H) /\ Iteration(g, K, s, G)
          /\ G[g[K]] = g[K] /\ Paired(R, H, G, g, K)
        BY <1>9, <1>10, <1>11, <1>13, <2>2, Zenon DEF Paired
    <2>4. <<a[Turns], g[t]>> \in R
        BY <1>1, <1>14, <2>1, <2>3, IterationsPair
    <2>5. QED BY <1>12, <2>4
<1>16. \A n \in 0..K : AbsLinkAt(f, g[n]) => n \in AbsLinks(way)
    BY <1>1, <1>8 DEF AbsLinkAt, AbsLinks
<1>17. ASSUME NEW u \in 0..K, NEW x, Stands(x, g[u]), \A n \in u..K : ~AbsLinkAt(f, g[n])
       PROVE  HostFile(f, x) = Meant(f, c)
    <2>1. NodeAt(f)[g[K]].kind # "link"
        BY <1>1, <1>8
    <2>2. HostWay(f, g[u])[K] = g[K]
        BY <1>6, <1>17, <2>1, KernelGoesOn
    <2>3. Resolved[Cwd][x] = g[u]
        BY <1>17 DEF Stands
    <2>4. HostFile(f, x) = FileOf[NodeAt(f)[g[K]]]
        BY <2>2, <2>3, Zenon DEF HostFile, FileAt, HostWay
    <2>5. QED BY <1>4, <1>6, <2>4, WayIs DEF OnWay
<1>18. \A n \in t..K : ~AbsLinkAt(f, g[n])
    <2> SUFFICES ASSUME NEW n \in t..K, AbsLinkAt(f, g[n]) PROVE FALSE
        OBVIOUS
    <2>1. n \in AbsLinks(way) /\ n \in 0..K - 1
        BY <1>1, <1>16 DEF AbsLinks
    <2>2. n < Turns
        BY <2>1
    <2>3. QED BY <1>1, <1>14, <2>1, <2>2
<1>19. HostFile(f, ResolveRootfs(f, p)) = Meant(f, c)
    BY <1>10, <1>15, <1>17, <1>18
<1>20. AbsLinks(way) = {} => HostFile(f, p) = Meant(f, c)
    BY <1>1, <1>5, <1>7, <1>16, <1>17
<1>21. QED BY <1>2, <1>19, <1>20

(***************************************************************************)
(* What lroot starts                                                       *)
(***************************************************************************)

LEMMA OrdinaryLaunches ==
    ASSUME NEW f \in [Names -> Node], NEW c, c.fn = "lroot", Ordinary(f, c)
    PROVE  OrdinaryLaunch(f, c, Way(f, c), Meant(f, c)) /\ ~Script(Meant(f, c))
<1>1. PICK way : way = Way(f, c)
    OBVIOUS
<1>2. PICK i : i = FileOf[way[KernelTurns]]
    OBVIOUS
<1>3. OrdinaryLaunch(f, c, way, i) /\ (i \in DOMAIN Programs => Programs[i].kind = "elf")
    BY <1>1, <1>2, Zenon DEF Ordinary
<1>4. Meant(f, c) = i
    BY <1>1, <1>2 DEF Meant
<1>5. QED BY <1>1, <1>3, <1>4 DEF Script

\* What Launch chooses: the program as it is named and as its links lead to,
\* what it is on the host, its loader, and what becomes of all that.
Chosen(p, r, i, l, s) ==
    /\ p = Prog(call) /\ r = ResolveRootfs(fs, p)
    /\ i = ElfInterp(fs, r) /\ l = LaunchLoader(fs, i)
    /\ s = IF l = NoFile        THEN Spawned(fs, p, <<p>> \o Tail(call.argv))
           ELSE IF Startable(l) THEN RunLoader(fs, l, r, LaunchArgs(call))
           ELSE Refused

Launched(p, r, i, l, s) ==
    /\ image' = [file |-> s.file, loader |-> s.loader, argv |-> s.argv,
                 env |-> call.env, lib |-> Library(i),
                 via |-> IF l # NoFile THEN "loader" ELSE "kernel",
                 exe |-> IF l # NoFile THEN r ELSE p]
    /\ pc' = "run"
    /\ Leaves("started")

LEMMA LaunchChooses ==
    ASSUME Launch
    PROVE  /\ pc = "launch" /\ UNCHANGED <<fs, call, forkless, history, relinks>>
           /\ \E p, r, i, l, s : /\ Chosen(p, r, i, l, s)
                                 /\ IF Library(i) = <<>> \/ s = Refused THEN Ends
                                    ELSE Launched(p, r, i, l, s)
<1> DEFINE p == Prog(call)
           r == ResolveRootfs(fs, p)
           i == ElfInterp(fs, r)
           l == LaunchLoader(fs, i)
           s == IF l = NoFile        THEN Spawned(fs, p, <<p>> \o Tail(call.argv))
                ELSE IF Startable(l) THEN RunLoader(fs, l, r, LaunchArgs(call))
                ELSE Refused
<1>1. /\ pc = "launch" /\ UNCHANGED <<fs, call, forkless, history, relinks>>
      /\ IF Library(i) = <<>> \/ s = Refused THEN Ends
         ELSE /\ image' = [file |-> s.file, loader |-> s.loader, argv |-> s.argv,
                           env |-> call.env, lib |-> Library(i),
                           via |-> IF l # NoFile THEN "loader" ELSE "kernel",
                           exe |-> IF l # NoFile THEN r ELSE p]
              /\ pc' = "run"
              /\ Leaves("started")
    BY DEF Launch
<1>2. Chosen(p, r, i, l, s)
    BY Zenon DEF Chosen
<1> HIDE DEF s, l, i, r, p
<1>3. IF Library(i) = <<>> \/ s = Refused THEN Ends ELSE Launched(p, r, i, l, s)
    BY <1>1, Zenon DEF Launched
<1>4. QED BY <1>1, <1>2, <1>3

\* What lroot does right: it starts what is meant with the arguments it chose,
\* if that can be started, and knows what kind of program it is.
Right(m, p, r, i, l, s) ==
    /\ s # Refused =>
          /\ s.file = m /\ ElfFile(m)
          /\ s.argv = IF l = NoFile THEN <<p>> \o Tail(call.argv) ELSE <<r>> \o LaunchArgs(call)
    /\ IF Bare(call.path) THEN l = NoFile ELSE ElfFile(m) => i = m
    /\ CanStart(fs, call) => s # Refused /\ Library(i) # <<>>

\* A program that can be loaded the kernel starts, and nothing else.
LEMMA StartLoads ==
    ASSUME NEW f \in [Names -> Node], NEW p \in Path, NEW args, NEW m, m = HostFile(f, p),
           ~Script(m), NEW s, s = Start(f, p, args)
    PROVE  /\ s # Refused => s.file = m /\ s.argv = args /\ ElfFile(m)
           /\ Loads(f, m) => s # Refused
<1>1. m \in MaybeFile
    BY HostFileTyped
<1>2. s = StartElf(f, args)[m]
    BY StartIs
<1>3. s # Refused => Startable(m) /\ s.file = m /\ s.argv = args
    BY <1>1, <1>2, StartElfIs
<1>4. Loads(f, m) => Startable(m) /\ (Programs[m].interp # <<>> =>
                                         Startable(HostFile(f, Programs[m].interp)))
    BY Zenon DEF Loads, HostFile
<1>5. Loads(f, m) => s # Refused
    BY <1>1, <1>2, <1>4, StartElfIs
<1>6. QED BY <1>3, <1>5 DEF Startable

LEMMA PathRight ==
    ASSUME AbsoluteRoots, fs \in [Names -> Node], call.path \in Path, call.fn = "lroot",
           Ordinary(fs, call), ~Bare(call.path),
           NEW p, NEW r, NEW i, NEW l, NEW s, Chosen(p, r, i, l, s),
           NEW m, m = Meant(fs, call)
    PROVE  Right(m, p, r, i, l, s)
<1>1. PICK way : way = Way(fs, call)
    OBVIOUS
<1>2. OrdinaryLaunch(fs, call, way, m) /\ ~Script(m)
    BY <1>1, OrdinaryLaunches
<1>3. /\ way[KernelTurns].kind # "link" /\ \A n \in AbsLinks(way) : n < Turns
      /\ LaunchLoader(fs, m) = NoFile => AbsLinks(way) = {}
      /\ LaunchesAlike(call.path)
      /\ \A n \in 0..KernelTurns : way[n].kind = "link" => LaunchesAlike(way[n].text)
    BY <1>2 DEF OrdinaryLaunch
<1>4. /\ p = Prog(call) /\ r = ResolveRootfs(fs, p) /\ p \in Path
      /\ i = ElfInterp(fs, r) /\ l = LaunchLoader(fs, i)
    BY PathConcat, PathAssumption DEF Chosen, Prog
<1>5. HostFile(fs, r) = m /\ (AbsLinks(way) = {} => HostFile(fs, p) = m)
    BY <1>1, <1>3, <1>4, LaunchFinds
<1>6. i = IF ElfFile(m) THEN m ELSE NoFile
    BY <1>4, <1>5, Zenon DEF ElfInterp, ReadElfInfo, HostFile
<1>7. l = LaunchLoader(fs, m)
    <2>1. ~ElfFile(NoFile)
        BY Files DEF ElfFile
    <2>2. ~ElfFile(m) => LaunchLoader(fs, m) = NoFile /\ LaunchLoader(fs, NoFile) = NoFile
        BY <2>1 DEF LaunchLoader
    <2>3. QED BY <1>4, <1>6, <2>2
<1>8. Loads(fs, m) => ElfFile(m) /\ l = NoFile
    <2>1. Loads(fs, m) => /\ Startable(m)
                          /\ Programs[m].interp # <<>> => Startable(HostFile(fs, Programs[m].interp))
        BY Zenon DEF Loads, HostFile
    <2>2. \A j : Startable(j) => ElfFile(j) /\ j # NoFile
        BY Files DEF Startable, ElfFile
    <2>3. Loads(fs, m) => LaunchLoader(fs, m) = NoFile
        BY <2>1, <2>2, Zenon DEF LaunchLoader, HostFile
    <2>4. QED BY <1>7, <2>1, <2>2, <2>3
<1>9. PICK args : args = <<p>> \o Tail(call.argv)
    OBVIOUS
<1>10. PICK rest : rest = LaunchArgs(call)
    OBVIOUS
<1>11. s = IF l = NoFile        THEN Spawned(fs, p, args)
           ELSE IF Startable(l) THEN RunLoader(fs, l, r, rest)
           ELSE Refused
    BY <1>9, <1>10, Zenon DEF Chosen
<1>12. CASE l = NoFile
    <2>1. HostFile(fs, p) = m
        BY <1>3, <1>5, <1>7, <1>12
    <2>2. ~Bare(p)
        <3>1. IsAbsolute(call.path) => ~Bare(Rootfs \o call.path)
            BY PathAssumption, BelowDirectory
        <3>2. QED BY <1>4, <3>1 DEF Prog
    <2>3. s = Start(fs, p, args)
        BY <1>11, <1>12, <2>2 DEF Spawned
    <2>4. /\ s # Refused => s.file = m /\ s.argv = args /\ ElfFile(m)
          /\ Loads(fs, m) => s # Refused
        BY <1>2, <1>4, <2>1, <2>3, StartLoads
    <2>5. CanStart(fs, call) => Loads(fs, m) /\ Library(m) # <<>>
        BY DEF CanStart
    <2>6. QED BY <1>6, <1>8, <1>9, <1>12, <2>4, <2>5 DEF Right
<1>13. CASE l # NoFile
    <2>1. s # Refused => s = RunLoader(fs, l, r, rest)
        BY <1>11, <1>13
    <2>2. PICK v : v = <<r>> \o rest
        OBVIOUS
    <2>3. RunLoader(fs, l, r, rest) = IF ElfFile(m) /\ Programs[m].native
                                      THEN [file |-> m, loader |-> l, argv |-> v] ELSE Refused
        BY <1>5, <2>2, Zenon DEF RunLoader, HostFile
    <2>4. s # Refused => s.file = m /\ s.argv = v /\ ElfFile(m)
        BY <2>1, <2>3
    <2>5. CanStart(fs, call) => Loads(fs, m)
        BY DEF CanStart
    <2>6. QED BY <1>6, <1>8, <1>10, <1>13, <2>2, <2>4, <2>5 DEF Right
<1>14. QED BY <1>12, <1>13

\* What the kernel starts may be executed.
LEMMA StartNeeds ==
    ASSUME NEW f \in [Names -> Node], NEW p \in Path, NEW args, Start(f, p, args) # Refused
    PROVE  HostFile(f, p) \in {i \in DOMAIN Programs : Programs[i].xbit}
<1>1. PICK i \in MaybeFile : i = HostFile(f, p)
    BY HostFileTyped
<1>2. Start(f, p, args) = StartFile(f, p, args)[i]
    BY <1>1, Zenon DEF Start, HostFile
<1>3. CASE Script(i)
    <2>1. StartFile(f, p, args)[i] # Refused => Programs[i].xbit
        <3>1. PICK x : x = StartElf(f, <<Programs[i].interp, p>> \o Tail(args))
                              [FileAt(f, Programs[i].interp, FALSE)]
            OBVIOUS
        <3>2. StartFile(f, p, args)[i] = IF Programs[i].xbit THEN x ELSE Refused
            BY <1>3, <3>1 DEF StartFile, Script
        <3>3. QED BY <3>2
    <2>2. QED BY <1>1, <1>2, <1>3, <2>1 DEF Script
<1>4. CASE ~Script(i)
    <2>1. Startable(i)
        BY <1>1, <1>4, StartIs, StartElfIs
    <2>2. QED BY <1>1, <2>1 DEF Startable, ElfFile
<1>5. QED BY <1>3, <1>4

\* The program of a name that the guest means is the first lroot finds.
LEMMA BareRight ==
    ASSUME AbsoluteRoots, fs \in [Names -> Node], call.path \in Path, call.fn = "lroot",
           Ordinary(fs, call), Bare(call.path),
           NEW p, NEW r, NEW i, NEW l, NEW s, Chosen(p, r, i, l, s),
           NEW m, m = Meant(fs, call)
    PROVE  Right(m, p, r, i, l, s)
<1>1. PICK way : way = Way(fs, call)
    OBVIOUS
<1>2. OrdinaryLaunch(fs, call, way, m) /\ ~Script(m)
    BY <1>1, OrdinaryLaunches
<1>3. /\ ElfInterp(fs, ResolveRootfs(fs, call.path)) = NoFile
      /\ Loads(fs, m)
      /\ \A k \in DOMAIN SearchDirs : FoundAlike(fs, Join(SearchDirs[k], call.path))
    BY <1>2, Zenon DEF OrdinaryLaunch
<1>4. ~IsAbsolute(call.path)
    <2>1. call.path # <<>> => 1 \in DOMAIN call.path
        BY LenProperties, EmptySeq DEF Path
    <2>2. QED BY <2>1 DEF Bare, IsAbsolute
<1>5. p = call.path
    BY <1>4 DEF Chosen, Prog
<1>6. i = NoFile
    BY <1>3, <1>5, Zenon DEF Chosen
<1>7. l = NoFile
    <2>1. LaunchLoader(fs, NoFile) = NoFile
        BY Files DEF LaunchLoader, ElfFile
    <2>2. QED BY <1>6, <2>1 DEF Chosen
<1>8. PICK args : args = <<p>> \o Tail(call.argv)
    OBVIOUS
<1>9. s = Spawned(fs, p, args)
    BY <1>7, <1>8, Zenon DEF Chosen
<1>10. PICK q : q = [k \in DOMAIN SearchDirs |-> Join(SearchDirs[k], p)]
    OBVIOUS
<1>11. \A k \in DOMAIN SearchDirs : /\ q[k] = Join(SearchDirs[k], p) /\ q[k] \in Path
                                    /\ HostFile(fs, q[k]) = GuestFile(fs, Translated[q[k]].path)
    <2> SUFFICES ASSUME NEW k \in DOMAIN SearchDirs
                 PROVE  /\ q[k] = Join(SearchDirs[k], p) /\ q[k] \in Path
                        /\ HostFile(fs, q[k]) = GuestFile(fs, Translated[q[k]].path)
        OBVIOUS
    <2>1. q[k] = Join(SearchDirs[k], p)
        BY <1>10
    <2>2. q[k] \in Path
        BY <1>5, <2>1, SearchDirTyped
    <2>3. FoundAlike(fs, q[k])
        BY <1>3, <1>5, <2>1
    <2>4. QED BY <2>1, <2>2, <2>3, Zenon DEF FoundAlike, HostFile, GuestFile
<1>12. PICK got : got = [k \in DOMAIN SearchDirs |-> Start(fs, q[k], args)]
    OBVIOUS
<1>13. PICK tried : tried = {k \in DOMAIN SearchDirs : got[k] # Refused}
    OBVIOUS
<1>14. PICK hits : hits = Hits(fs, p)
    OBVIOUS
<1>15. hits = {k \in DOMAIN SearchDirs :
                 HostFile(fs, q[k]) \in {n \in DOMAIN Programs : Programs[n].xbit}}
    <2>1. \A k \in DOMAIN SearchDirs :
             k \in hits <=> GuestFile(fs, Translated[q[k]].path) \in
                               {n \in DOMAIN Programs : Programs[n].xbit}
        BY <1>10, <1>14, Zenon DEF Hits, GuestFile
    <2>2. hits \subseteq DOMAIN SearchDirs
        BY <1>14 DEF Hits
    <2>3. QED BY <1>11, <2>1, <2>2
<1>16. tried \subseteq hits
    <2> SUFFICES ASSUME NEW k \in DOMAIN SearchDirs, got[k] # Refused
                 PROVE  k \in hits
        BY <1>13
    <2>1. Start(fs, q[k], args) # Refused /\ q[k] \in Path
        BY <1>11, <1>12
    <2>2. HostFile(fs, q[k]) \in {n \in DOMAIN Programs : Programs[n].xbit}
        BY <2>1, StartNeeds
    <2>3. QED BY <1>15, <2>2
<1>17. hits # {}
    <2>1. ASSUME hits = {} PROVE FALSE
        <3>1. ~Startable(m)
            BY <1>5, <1>14, <2>1, NowhereMeansNothing
        <3>2. QED BY <1>3, <3>1 DEF Loads
    <2>2. QED BY <2>1
<1>18. hits \in SUBSET DOMAIN SearchDirs /\ tried \in SUBSET DOMAIN SearchDirs
    BY <1>13, <1>15
<1>19. PICK k \in DOMAIN SearchDirs : k = FirstDir[hits] /\ k \in hits
    BY <1>17, <1>18, FirstDirIs
<1>20. k \in Nat /\ k # 0
    BY ExecAssumption, LenProperties
<1>21. m = HostFile(fs, q[k])
    <2>1. StartsAt(fs, call) = Resolved[Cwd][Translated[q[k]].path]
        BY <1>5, <1>11, <1>14, <1>19, <1>20, Zenon DEF StartsAt
    <2>2. PICK g : g = GuestWay(fs, StartsAt(fs, call))
        OBVIOUS
    <2>3. m = FileOf[NodeAt(fs)[g[KernelTurns]]]
        BY <2>2, WayIs DEF OnWay
    <2>4. m = GuestFile(fs, Translated[q[k]].path)
        BY <2>1, <2>2, <2>3, Zenon DEF GuestFile, FileAt, GuestWay
    <2>5. QED BY <1>11, <2>4
<1>22. /\ got[k] # Refused => got[k].file = m /\ got[k].argv = args /\ ElfFile(m)
       /\ got[k] # Refused
    <2>1. got[k] = Start(fs, q[k], args) /\ q[k] \in Path
        BY <1>11, <1>12
    <2>2. QED BY <1>2, <1>3, <1>21, <2>1, StartLoads
<1>23. FirstDir[tried] = k
    <2>1. k \in tried
        BY <1>13, <1>22
    <2>2. PICK j \in tried : j = FirstDir[tried] /\ j <= k
        BY <1>18, <2>1, FirstDirIs
    <2>3. k <= j
        BY <1>16, <1>18, <1>19, <2>2, FirstDirIs
    <2>4. j \in Nat
        BY <1>18, ExecAssumption, LenProperties
    <2>5. QED BY <1>20, <2>2, <2>3, <2>4
<1>24. s = got[k]
    <2>1. tried = {n \in DOMAIN SearchDirs : Start(fs, Join(SearchDirs[n], p), args) # Refused}
        BY <1>10, <1>12, <1>13
    <2>2. s = [n \in Nat |-> IF n = 0 THEN Refused ELSE Start(fs, Join(SearchDirs[n], p), args)]
                 [FirstDir[tried]]
        BY <1>5, <1>9, <2>1, Zenon DEF Spawned
    <2>3. s = Start(fs, Join(SearchDirs[k], p), args)
        BY <1>20, <1>23, <2>2
    <2>4. QED BY <1>10, <1>12, <2>3
<1>25. CanStart(fs, call) => Library(i) # <<>>
    BY <1>6 DEF CanStart
<1>26. QED BY <1>7, <1>8, <1>22, <1>24, <1>25 DEF Right

LEMMA LaunchRight ==
    ASSUME AbsoluteRoots, fs \in [Names -> Node], call.path \in Path, call.fn = "lroot",
           Ordinary(fs, call),
           NEW p, NEW r, NEW i, NEW l, NEW s, Chosen(p, r, i, l, s),
           NEW m, m = Meant(fs, call)
    PROVE  Right(m, p, r, i, l, s)
<1>1. CASE Bare(call.path)
    BY <1>1, BareRight
<1>2. CASE ~Bare(call.path)
    BY <1>2, PathRight
<1>3. QED BY <1>1, <1>2

(***************************************************************************)
(* lroot's own call                                                        *)
(***************************************************************************)

\* lroot names a program by the path it is given.
Named == pc = "launch" => call.argv[1] = call.path

LEMMA ProgIs ==
    ASSUME NEW c, c.path \in Path
    PROVE  /\ Prog(c) \in Path /\ Base(Prog(c)) = Base(c.path)
           /\ Bare(c.path) => Prog(c) = c.path
           /\ Proper(c.path) => Clean(Prog(c)) = Prog(c)
<1>1. CASE ~IsAbsolute(c.path)
    BY <1>1 DEF Prog, Proper, Clean
<1>2. CASE IsAbsolute(c.path)
    <2>1. Prog(c) = Rootfs \o c.path
        BY <1>2 DEF Prog
    <2>2. ~Bare(c.path) /\ Rootfs \in Path
        BY <1>2, AbsoluteBelow, PathAssumption
    <2>3. Rootfs \o c.path \in Path /\ Base(Rootfs \o c.path) = Base(c.path)
        BY <2>2, BelowDirectory
    <2>4. Proper(c.path) => Clean(Rootfs \o c.path) = Rootfs \o c.path
        BY <2>2, ProperBelow
    <2>5. QED BY <2>1, <2>2, <2>3, <2>4
<1>3. QED BY <1>1, <1>2

\* A program takes the same arguments from what lroot makes of them.
LEMMA LaunchArguments ==
    ASSUME WatchInv, Named, pc = "launch",
           NEW p, NEW r, NEW i, NEW l, NEW s, Chosen(p, r, i, l, s), s # Refused,
           NEW m, m = Meant(fs, call), Right(m, p, r, i, l, s), Ordinary(fs, call),
           NEW exe, exe = IF l # NoFile THEN r ELSE p,
           NEW named, named \in BOOLEAN, named <=> Programs[m].multi # <<>> /\ l # NoFile,
           Base(call.path) # Base(exe) => named /\ Base(exe) = Programs[m].multi,
           l # NoFile /\ Base(call.path) = Base(exe) => exe = Prog(call)
    PROVE  Taken(m, s.argv) = Taken(m, call.argv)
<1>1. /\ call.fn = "lroot" /\ call.path \in Path /\ fs \in [Names -> Node]
      /\ call.argv \in Seq(Path) /\ call.argv # <<>> /\ call.argv[1] = call.path
    BY DEF WatchInv, Typed, TypeOK, Called, Waiting, InCall, Named
<1>2. PICK rest \in Seq(Path) : rest = Tail(call.argv) /\ call.argv = <<call.path>> \o rest
    BY <1>1, HeadAndTail
<1>3. p = Prog(call) /\ r = ResolveRootfs(fs, p)
    BY DEF Chosen
<1>4. p \in Path /\ r \in Path /\ Base(p) = Base(call.path)
    BY <1>1, <1>3, ProgIs, ResolveRootfsTyped
<1>5. Taken(m, <<p>> \o rest) = Taken(m, call.argv)
    <2>1. Taken(m, <<p>> \o rest) = Taken(m, <<call.path>> \o rest)
        BY <1>1, <1>4, TakenAlike
    <2>2. QED BY <1>2, <2>1, Zenon
<1>6. CASE l = NoFile
    BY <1>2, <1>5, <1>6 DEF Right
<1>7. CASE l # NoFile /\ r = p
    <2>1. LaunchArgs(call) = rest
        <3>1. LaunchArgs(call) = <<>> \o rest
            BY <1>2, <1>3, <1>7 DEF LaunchArgs
        <3>2. QED BY <3>1, ConcatEmptySeq
    <2>2. s.argv = <<p>> \o rest
        BY <1>7, <2>1 DEF Right
    <2>3. QED BY <1>5, <2>2
<1>8. CASE l # NoFile /\ r # p
    <2>1. ~Bare(call.path)
        BY <1>8 DEF Right
    <2>2. Clean(p) = p
        <3>1. PICK way : way = Way(fs, call)
            OBVIOUS
        <3>2. LaunchesAlike(call.path)
            BY <1>1, <2>1, OrdinaryLaunches DEF OrdinaryLaunch
        <3>3. Proper(call.path)
            BY <1>1, <3>2 DEF LaunchesAlike, Proper
        <3>4. QED BY <1>1, <1>3, <3>3, ProgIs
    <2>3. PICK asked \in Path : asked = Base(call.path)
        BY <1>1, BaseTyped
    <2>4. PICK more \in Seq(Path) : more = <<asked>> \o rest /\ more # <<>> /\ more[1] = asked
        BY ArgumentsTyped
    <2>5. LaunchArgs(call) = more
        BY <1>2, <1>3, <1>4, <1>8, <2>2, <2>3, <2>4 DEF LaunchArgs
    <2>6. s.argv = <<r>> \o more
        BY <1>8, <2>5 DEF Right
    <2>7. asked # Base(r) /\ Programs[m].multi # <<>> /\ Base(r) = Programs[m].multi
        BY <1>3, <1>8, <2>3
    <2>8. Base(asked) = asked
        BY <1>1, <2>3, BaseOfBase
    <2>9. Taken(m, <<r>> \o more) = Taken(m, more)
        BY <1>4, <2>4, <2>7, <2>8, TakenFromApplet
    <2>10. Taken(m, more) = Taken(m, call.argv)
        <3>1. Base(asked) = Base(call.path)
            BY <2>3, <2>8
        <3>2. Taken(m, <<asked>> \o rest) = Taken(m, <<call.path>> \o rest)
            BY <1>1, <3>1, TakenAlike
        <3>3. QED BY <1>2, <2>4, <3>2, Zenon
    <2>11. QED BY <2>6, <2>9, <2>10
<1>9. QED BY <1>6, <1>7, <1>8

\* What has to be so when lroot's call has come to its end.
LaunchGood == RunsMeant /\ FailsOnlyForCause /\ ArgsArrive /\ Watched

LEMMA LaunchEnds ==
    ASSUME AbsoluteRoots, WatchInv, Named, Launch
    PROVE  LaunchGood'
<1>1. /\ pc = "launch" /\ call.fn = "lroot" /\ call.path \in Path /\ fs \in [Names -> Node]
      /\ UNCHANGED <<fs, call, history, forkless>>
    BY LaunchChooses DEF WatchInv, Typed, TypeOK, Called, Waiting
<1>2. PICK p, r, i, l, s : /\ Chosen(p, r, i, l, s)
                           /\ IF Library(i) = <<>> \/ s = Refused THEN Ends
                              ELSE Launched(p, r, i, l, s)
    BY LaunchChooses
<1>3. OrdinaryThroughout' <=> OrdinaryThroughout
    BY <1>1, SameThroughout
<1>4. CASE ~OrdinaryThroughout
    BY <1>1, <1>3, <1>4 DEF LaunchGood, RunsMeant, FailsOnlyForCause, ArgsArrive, Watched
<1>5. CASE OrdinaryThroughout
    <2>1. Ordinary(fs, call)
        BY <1>5 DEF OrdinaryThroughout
    <2>2. PICK m : m = Meant(fs, call)
        OBVIOUS
    <2>3. Right(m, p, r, i, l, s)
        BY <1>1, <1>2, <2>1, <2>2, LaunchRight
    <2>4. CASE Library(i) = <<>> \/ s = Refused
        <3>1. out' = "gone"
            BY <1>2, <2>4 DEF Ends, Leaves
        <3>2. ~CanStart(fs, call)
            BY <2>3, <2>4 DEF Right
        <3>3. FailsOnlyForCause'
            <4>1. (~CanStart(fs, call))'
                BY <1>1, <3>2 DEF CanStart
            <4>2. QED BY <4>1 DEF FailsOnlyForCause
        <3>4. QED BY <3>1, <3>3 DEF LaunchGood, RunsMeant, ArgsArrive, Watched
    <2>5. CASE ~(Library(i) = <<>> \/ s = Refused)
        <3>1. PICK exe : exe = IF l # NoFile THEN r ELSE p
            OBVIOUS
        <3>2. PICK via : via = IF l # NoFile THEN "loader" ELSE "kernel"
            OBVIOUS
        <3>3. /\ out' = "started" /\ s.file = m /\ ElfFile(m) /\ m # NoFile
              /\ image'.file = m /\ image'.argv = s.argv /\ image'.via = via
              /\ image'.exe = exe /\ image'.lib = Library(i)
            BY <1>2, <2>3, <2>5, <3>1, <3>2, Files DEF Launched, Leaves, Right, ElfFile
        <3>4. RunsMeant'
            <4>1. (image.file = Meant(fs, call))'
                BY <1>1, <2>2, <3>3
            <4>2. QED BY <4>1 DEF RunsMeant
        <3>5. FailsOnlyForCause'
            BY <3>3 DEF FailsOnlyForCause
        <3>6. ArgsArrive'
            <4> SUFFICES ASSUME NamesFit' PROVE Taken(image.file, image.argv)' = Taken(image.file, call.argv)'
                BY DEF ArgsArrive
            <4>1. PICK named \in BOOLEAN : named <=> Programs[m].multi # <<>> /\ l # NoFile
                OBVIOUS
            <4>2. PICK asked : asked = Base(call.path)
                OBVIOUS
            <4>3. /\ asked # Base(exe) => named /\ Base(exe) = Programs[m].multi
                  /\ l # NoFile /\ asked = Base(exe) => exe = Prog(call)
                BY <1>1, <3>2, <3>3, <4>1, <4>2 DEF NamesFit
            <4>4. Taken(m, s.argv) = Taken(m, call.argv)
                BY <1>1, <1>2, <2>1, <2>2, <2>3, <2>5, <3>1, <4>1, <4>2, <4>3, LaunchArguments
            <4>5. QED BY <1>1, <3>3, <4>4 DEF Taken
        <3>7. Watched'
            <4> SUFFICES ASSUME (/\ {"LD_PRELOAD", "LITTLE_ROOTFS"} \subseteq image.env
                                 /\ ~Bare(call.path) /\ Variant(image.file) \in Libraries
                                 /\ Programs[image.file].interp # <<>>
                                 /\ ~Programs[image.file].setuid)'
                         PROVE  Hooked(image)'
                BY <1>1 DEF Watched
            <4>1. i = m
                BY <1>1, <2>3, <3>3 DEF Right
            <4>2. Library(i) = Variant(m)
                BY <3>3, <4>1 DEF Library, Variant
            <4>3. via # "ptrace"
                BY <3>2
            <4>4. QED BY <3>3, <4>2, <4>3 DEF Hooked, Fits, Variant
        <3>8. QED BY <3>4, <3>5, <3>6, <3>7 DEF LaunchGood
    <2>6. QED BY <2>4, <2>5
<1>6. QED BY <1>4, <1>5

LaunchInv == Named /\ (call.fn = "lroot" => LaunchGood)

\* Before a call has come to its end there is nothing to be said of it.
LEMMA NotEnded ==
    ASSUME out' = "none"
    PROVE  LaunchGood'
BY DEF LaunchGood, RunsMeant, FailsOnlyForCause, ArgsArrive, Watched

LEMMA NextLaunch ==
    AbsoluteRoots /\ WatchInv /\ LaunchInv /\ [Next]_vars => LaunchInv'
<1> SUFFICES ASSUME AbsoluteRoots, WatchInv, LaunchInv, [Next]_vars PROVE LaunchInv'
    OBVIOUS
<1>1. CASE UNCHANGED vars
    <2>1. UNCHANGED <<fs, image, pc, call, out, forkless, from, began, changes>>
        BY <1>1 DEF vars, frame, history
    <2>2. OrdinaryThroughout' <=> OrdinaryThroughout
        BY <2>1, SameThroughout DEF history
    <2>3. InterpreterStays' <=> InterpreterStays
        BY <2>1, SameInterpreter DEF history
    <2>4. Named'
        BY <2>1 DEF LaunchInv, Named
    <2>5. RunsMeant' <=> RunsMeant
        BY <2>1, <2>2 DEF RunsMeant
    <2>6. FailsOnlyForCause' <=> FailsOnlyForCause
        BY <2>1, <2>2, <2>3 DEF FailsOnlyForCause
    <2>7. ArgsArrive' <=> ArgsArrive
        BY <2>1, <2>2 DEF ArgsArrive, NamesFit, Taken
    <2>8. Watched' <=> Watched
        BY <2>1, <2>2 DEF Watched, OfHostArch
    <2>9. QED BY <2>1, <2>4, <2>5, <2>6, <2>7, <2>8 DEF LaunchInv, LaunchGood
<1>2. CASE Take
    <2>1. PICK c \in Commands : call'.argv = c.argv /\ call'.path = c.path
        BY <1>2 DEF Take
    <2>2. out' = "none"
        BY <1>2 DEF Take, WatchInv, Waiting
    <2>3. QED BY <2>1, <2>2, NotEnded, ExecAssumption DEF LaunchInv, Named
<1>3. CASE Call
    <2>1. pc' = "search" /\ out' = "none"
        BY <1>3 DEF Call
    <2>2. QED BY <2>1, NotEnded DEF LaunchInv, Named
<1>4. CASE Launch
    <2>1. pc' \in {"run", "over"}
        <3>1. Ends \/ pc' = "run"
            BY <1>4 DEF Launch
        <3>2. QED BY <3>1 DEF Ends
    <2>2. QED BY <1>4, <2>1, LaunchEnds DEF LaunchInv, Named
<1>5. CASE Relink
    <2>1. out' = "none" /\ UNCHANGED <<pc, call>>
        BY <1>5 DEF Relink, WatchInv, Waiting
    <2>2. QED BY <2>1, NotEnded DEF LaunchInv, Named
<1>6. ASSUME pc \in Steps, UNCHANGED call, pc' # "launch"
      PROVE  LaunchInv'
    <2>1. call.fn # "lroot"
        BY <1>6, ExecAssumption DEF WatchInv, Typed, Called
    <2>2. QED BY <1>6, <2>1 DEF LaunchInv, Named
<1>7. CASE EnterExec \/ EnterRaw \/ EnterPath \/ EnterName
    <2>1. pc = "search" /\ UNCHANGED call
        BY <1>7 DEF EnterExec, EnterRaw, EnterPath, EnterName
    <2>2. pc' # "launch"
        BY <1>7, SearchLeads DEF Fails, EnterRaw
    <2>3. QED BY <1>6, <2>1, <2>2 DEF Steps
<1>8. CASE LoseBuffer \/ FollowLink \/ StopFollowing \/ Probe \/ Decide \/ ForkFails
    <2>1. pc \in {"links", "probe", "decide", "ptrace"} /\ UNCHANGED call /\ pc' # "launch"
        BY <1>8 DEF LoseBuffer, FollowLink, StopFollowing, Probe, Decide, ForkFails, AfterPtrace
    <2>2. QED BY <1>6, <2>1 DEF Steps
<1>9. CASE Ptrace \/ Loader \/ Kernel
    <2>1. pc \in {"ptrace", "loader", "kernel"} /\ UNCHANGED call /\ pc' # "launch"
        BY <1>9 DEF Ptrace, Loader, Kernel, Becomes, Fails, Ends
    <2>2. QED BY <1>6, <2>1 DEF Steps
<1>10. QED BY <1>1, <1>2, <1>3, <1>4, <1>5, <1>7, <1>8, <1>9 DEF Next, Advance

\* What lroot's own call comes to holds in every state.
THEOREM LaunchInvariant ==
    ASSUME AbsoluteRoots
    PROVE  Spec => []LaunchInv
<1>1. Init => LaunchInv
    BY DEF Init, LaunchInv, Named, NoCall
<1>2. AbsoluteRoots /\ WatchInv /\ LaunchInv /\ [Next]_vars => LaunchInv'
    BY NextLaunch
<1>3. Spec => []WatchInv
    BY WatchInvariant
<1>4. WatchInv /\ LaunchInv /\ [Next]_vars => LaunchInv'
    BY <1>2
<1>5. QED BY <1>1, <1>3, <1>4, PTL DEF Spec

(***************************************************************************)
(* Calls of lroot and of the hooks                                         *)
(***************************************************************************)

\* What is started is what the guest meant by the path.  A hook follows the
\* absolute links and leaves the rest to the kernel, and another process may
\* change a name between any two of their steps; lroot follows all links and
\* may leave them to the kernel again (lib.rs:485-545, 1892-2008,
\* main.rs:301-456).
THEOREM MeantProgramRuns ==
    ASSUME AbsoluteRoots
    PROVE  Spec => []RunsMeant
<1>1. MeantInv /\ LaunchInv => RunsMeant
    BY DEF MeantInv, HookMeant, LaunchInv, LaunchGood
<1>2. Spec => []MeantInv
    BY MeantInvariant
<1>3. Spec => []LaunchInv
    BY LaunchInvariant
<1>4. QED BY <1>1, <1>2, <1>3, PTL

\* A call fails, or ends its caller, only if at its beginning or its end there
\* was no program to start (lib.rs:485-545, 1892-2008, 2138-2200,
\* main.rs:301-456).
THEOREM CallsFailForCause ==
    ASSUME AbsoluteRoots
    PROVE  Spec => []FailsOnlyForCause
<1>1. EndInv /\ LaunchInv => FailsOnlyForCause
    BY DEF EndInv, HookCause, LaunchInv, LaunchGood
<1>2. Spec => []EndInv
    BY EndInvariant
<1>3. Spec => []LaunchInv
    BY LaunchInvariant
<1>4. QED BY <1>1, <1>2, <1>3, PTL

\* Whichever way a program is started, with the name that was asked for put in
\* front of the arguments or not, it takes the same arguments from them as were
\* given (lib.rs:1838-1890, 485-499, main.rs:301-456).
THEOREM ArgumentsPass ==
    ASSUME AbsoluteRoots
    PROVE  Spec => []ArgsArrive
<1>1. EndInv /\ LaunchInv => ArgsArrive
    BY DEF EndInv, HookArrive, LaunchInv, LaunchGood
<1>2. Spec => []EndInv
    BY EndInvariant
<1>3. Spec => []LaunchInv
    BY LaunchInvariant
<1>4. QED BY <1>1, <1>2, <1>3, PTL

\* No program is started behind the back of lroot, by itself or, if it is for
\* the machine of the hook's library, by a hook: the library is in it or it is
\* traced (lib.rs:485-545, 1892-2008, 2138-2200, main.rs:301-456).
THEOREM ProgramsWatched ==
    ASSUME AbsoluteRoots
    PROVE  Spec => []Watched
<1>1. WatchInv /\ LaunchInv => Watched
    BY DEF WatchInv, HookWatched, LaunchInv, LaunchGood
<1>2. Spec => []WatchInv
    BY WatchInvariant
<1>3. Spec => []LaunchInv
    BY LaunchInvariant
<1>4. QED BY <1>1, <1>2, <1>3, PTL
=============================================================================
