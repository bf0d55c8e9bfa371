------------------------ MODULE TranslationsProofs ------------------------
(***************************************************************************)
(* The promises of path translation as invariants of Translations: for     *)
(* every rootfs, list of binds, buffer size, set of letters and tails, and *)
(* paths of any length.                                                    *)
(***************************************************************************)
EXTENDS Translations, PathTranslationProofs, FiniteSetTheorems

LEMMA EveryTrial == Spec => [](path \in Path /\ args \in Seq(Path))
<1>1. Init => path \in Path /\ args \in Seq(Path)
    BY EmptySeq DEF Init, Path
<1>2. path \in Path /\ args \in Seq(Path) /\ [Next]_<<path, args>>
          => (path \in Path /\ args \in Seq(Path))'
    <2> SUFFICES ASSUME path \in Path, args \in Seq(Path), [Next]_<<path, args>>
                 PROVE  (path \in Path /\ args \in Seq(Path))'
        OBVIOUS
    <2>1. CASE GrowPath
        BY <2>1, TrialsAssumption, AppendProperties DEF GrowPath, Path
    <2>2. CASE GrowArgs
        <3>1. \A a \in Arguments : a \in Path
            BY TrialsAssumption
        <3>2. QED BY <2>2, <3>1, AppendProperties DEF GrowArgs
    <2>3. CASE UNCHANGED <<path, args>>
        BY <2>3
    <2>4. QED BY <2>1, <2>2, <2>3 DEF Next
<1>3. QED BY <1>1, <1>2, PTL DEF Spec

\* Translating a path twice is translating it once (translate,
\* lib.rs:145-223).
THEOREM AlwaysIdempotent ==
    ASSUME BindsSettled
    PROVE  Spec => []TranslateIdempotent
<1>1. path \in Path => TranslateIdempotent
    BY TranslationIsIdempotent DEF TranslateIdempotent
<1>2. QED BY <1>1, EveryTrial, PTL

\* readlink gives the guest back the path that translate put under the
\* rootfs (lib.rs:1262-1272).
THEOREM AlwaysRoundTrip == Spec => []ReadlinkRoundTrip
<1>1. path \in Path => ReadlinkRoundTrip
    BY StripUndoesTranslate DEF ReadlinkRoundTrip
<1>2. QED BY <1>1, EveryTrial, PTL

\* save_path hands out no pointer into TL_BUF (lib.rs:245-256).
THEOREM AlwaysPrivate == Spec => []SaveNeverShared
<1>1. path \in Path => SaveNeverShared
    BY SavePathIsPrivate DEF SaveNeverShared
<1>2. QED BY <1>1, EveryTrial, PTL

\* The translation of a name below a directory lies below the directory's
\* (lib.rs:154-223).
THEOREM AlwaysDescends == Spec => []TranslateDescends
<1>1. path \in Path => TranslateDescends
    BY TranslationDescends, TrialsAssumption DEF TranslateDescends
<1>2. QED BY <1>1, EveryTrial, PTL

\* The runner's translator and the hooks agree (intercept/mod.rs:36-51).
THEOREM AlwaysAgree == Spec => []TranslatorsAgree
<1>1. path \in Path => TranslatorsAgree
    BY TheTranslatorsAgree DEF TranslatorsAgree
<1>2. QED BY <1>1, EveryTrial, PTL

(***************************************************************************)
(* The made-up files of /proc                                              *)
(***************************************************************************)

\* The name of a directory of the rootfs that a file of /proc shows is one by
\* which a hook reaches that directory (lib.rs:693-704, 816-829 against
\* lib.rs:145-223).
THEOREM ShownNamesLeadBack ==
    ASSUME NEW p \in Path
    PROVE  ShownLeadsBack(p)
<1> SUFFICES ASSUME Under(Rootfs, p), ~PassesThrough(Shown(p)),
                    FirstBind(Shown(p)) = 0, Len(Image(Shown(p))) < BufLen
             PROVE  Translate(Shown(p)).path = (IF p = Rootfs THEN p \o <<Slash>> ELSE p)
    BY DEF ShownLeadsBack
<1>1. /\ Len(Rootfs) \in Nat /\ Len(p) \in Nat /\ Len(Rootfs) <= Len(p)
      /\ Drop(p, Len(Rootfs)) \in Path /\ p = Rootfs \o Drop(p, Len(Rootfs))
    BY PathAssumption, PrefixAndRest, LenProperties DEF Under, Path
<1>2. Shown(p) \in Path
    BY <1>1, PathAssumption DEF Shown, Path
<1>3. Rootfs # <<>>
    BY <1>2, RootfsNotEmpty
<1>4. IsAbsolute(Shown(p)) => Translate(Shown(p)).path = Rootfs \o Shown(p)
    BY DEF Translate, Image
<1>5. CASE p = Rootfs
    <2>1. Shown(p) = <<Slash>> /\ IsAbsolute(<<Slash>>)
        BY <1>3, <1>5 DEF Shown, IsAbsolute
    <2>2. QED BY <1>4, <1>5, <2>1
<1>6. CASE p # Rootfs
    <2>1. Shown(p) = Drop(p, Len(Rootfs))
        BY <1>3, <1>6 DEF Shown
    <2>2. Len(p) > Len(Rootfs)
        <3>1. SUFFICES ASSUME Len(p) = Len(Rootfs)
                       PROVE  p = Rootfs
            BY <1>1, <1>6
        <3>2. \A i \in 1..Len(Rootfs) : Rootfs[i] = p[i]
            BY PathAssumption, PrefixByIndex DEF Under
        <3>3. QED BY <3>1, <3>2, PathAssumption, SeqEqual DEF Path
    <2>3. IsAbsolute(Drop(p, Len(Rootfs)))
        <3>1. \A i \in (Len(Rootfs) + 1)..Len(p) : p[i] \in Fragment
            BY <1>1, ElementOfSeq DEF Path
        <3>2. /\ Len(Drop(p, Len(Rootfs))) # 0
              /\ Drop(p, Len(Rootfs))[1] = p[Len(Rootfs) + 1]
            BY <1>1, <2>2, <3>1, SubSeqProperties DEF Drop
        <3>3. p[Len(Rootfs) + 1] = Slash
            BY <2>2 DEF Under
        <3>4. QED BY <3>2, <3>3, EmptySeq DEF IsAbsolute
    <2>4. QED BY <1>1, <1>4, <1>6, <2>1, <2>3
<1>7. QED BY <1>5, <1>6

\* A name that /proc shows of the rootfs leads the guest back to it (lib.rs:693-
\* 704, 816-829).
THEOREM AlwaysLeadsBack == Spec => []ProcLeadsBack
<1>1. path \in Path => ProcLeadsBack
    BY ShownNamesLeadBack DEF ProcLeadsBack
<1>2. QED BY <1>1, EveryTrial, PTL

(***************************************************************************)
(* mountinfo.  Its scanner is read backwards: what it makes of a text from *)
(* a byte on depends on what it makes of the text from later bytes on.     *)
(***************************************************************************)

\* What the scanner does at byte i if g is what it does further on.
Scan(raw, i, g) ==
    IF i > Len(raw) THEN <<>>
    ELSE IF RootfsAt(raw, i)
    THEN (IF FieldEnd(raw, i + Len(Rootfs)) THEN <<Slash>> ELSE <<>>) \o g[i + Len(Rootfs)]
    ELSE <<raw[i]>> \o g[i + 1]

\* Where the rootfs stands, byte by byte.
LEMMA RootfsByIndex ==
    ASSUME NEW raw \in Path, NEW i \in 1..Len(raw)
    PROVE  IsPrefix(Rootfs, Drop(raw, i - 1))
              <=> /\ i + Len(Rootfs) <= Len(raw) + 1
                  /\ \A k \in 1..Len(Rootfs) : Rootfs[k] = raw[i + k - 1]
<1>1. /\ Len(raw) \in Nat /\ Len(Rootfs) \in Nat /\ i - 1 \in Nat /\ i - 1 <= Len(raw)
      /\ Rootfs \in Path
    BY PathAssumption, LenProperties DEF Path
<1>2. Drop(raw, i - 1) \in Path /\ Len(Drop(raw, i - 1)) = Len(raw) - (i - 1)
    BY <1>1, DropTyped
<1>3. ASSUME NEW k \in 1..Len(raw) - (i - 1)
      PROVE  Drop(raw, i - 1)[k] = raw[i + k - 1]
    BY <1>1, DropByIndex
<1>4. IsPrefix(Rootfs, Drop(raw, i - 1))
          <=> /\ Len(Rootfs) <= Len(raw) - (i - 1)
              /\ \A k \in 1..Len(Rootfs) : Rootfs[k] = Drop(raw, i - 1)[k]
    BY <1>1, <1>2, PrefixByIndex
<1>5. Len(Rootfs) <= Len(raw) - (i - 1) <=> i + Len(Rootfs) <= Len(raw) + 1
    BY <1>1
<1>6. ASSUME Len(Rootfs) <= Len(raw) - (i - 1)
      PROVE  \A k \in 1..Len(Rootfs) : Drop(raw, i - 1)[k] = raw[i + k - 1]
    <2>1. \A k \in 1..Len(Rootfs) : k \in 1..Len(raw) - (i - 1)
        BY <1>1, <1>6
    <2>2. QED BY <1>3, <2>1
<1>7. QED BY <1>4, <1>5, <1>6

\* Where the scanner goes from byte i, it goes forward and not beyond the end.
LEMMA ScanGoesOn ==
    ASSUME NEW raw \in Path, NEW i \in 1..Len(raw), Rootfs # <<>>, RootfsAt(raw, i)
    PROVE  Len(Rootfs) \in Nat /\ i + Len(Rootfs) \in i + 1..Len(raw) + 1
<1>1. Len(Rootfs) \in Nat /\ Len(Rootfs) # 0 /\ Len(raw) \in Nat
    BY PathAssumption, LenProperties, EmptySeq DEF Path
<1>2. i + Len(Rootfs) <= Len(raw) + 1
    BY RootfsByIndex DEF RootfsAt
<1>3. QED BY <1>1, <1>2

LEMMA ScanExists ==
    ASSUME NEW raw \in Path, Rootfs # <<>>
    PROVE  \E g : g = [i \in 1..Len(raw) + 1 |-> Scan(raw, i, g)]
<1> DEFINE L == Len(raw)
           T == {k \in Nat : k <= L => \E g : g = [i \in L + 1 - k..L + 1 |-> Scan(raw, i, g)]}
<1>1. L \in Nat
    BY LenProperties DEF Path
<1> HIDE DEF L
<1>2. 0 \in T
    <2> DEFINE g == [i \in L + 1 - 0..L + 1 |-> <<>>]
    <2>1. \A i \in L + 1 - 0..L + 1 : Scan(raw, i, g) = <<>>
        BY <1>1 DEF Scan, L
    <2>2. g = [i \in L + 1 - 0..L + 1 |-> Scan(raw, i, g)]
        BY <2>1
    <2> HIDE DEF g
    <2>3. QED BY <2>2
<1>3. ASSUME NEW k \in Nat, k \in T PROVE k + 1 \in T
    <2> SUFFICES ASSUME k + 1 <= L
                 PROVE  \E g : g = [i \in L + 1 - (k + 1)..L + 1 |-> Scan(raw, i, g)]
        OBVIOUS
    <2>1. PICK g : g = [i \in L + 1 - k..L + 1 |-> Scan(raw, i, g)]
        BY <1>1, <1>3
    <2>2. PICK n \in Nat : n = L - k /\ n + 1 = L + 1 - k /\ n \in 1..L
        BY <1>1
    <2>3. L + 1 - (k + 1) = n
        BY <1>1, <2>2
    <2> DEFINE h == [i \in n..L + 1 |-> IF i = n THEN Scan(raw, n, g) ELSE g[i]]
    <2>4. \A i \in n + 1..L + 1 : h[i] = g[i]
        BY <1>1, <2>2
    <2>5. h[n] = Scan(raw, n, g)
        BY <1>1, <2>2
    <2>6. \A i \in n + 1..L + 1 : g[i] = Scan(raw, i, g)
        BY <2>1, <2>2
    <2>7. DOMAIN h = n..L + 1
        OBVIOUS
    <2>8. h = [i \in n..L + 1 |-> h[i]]
        OBVIOUS
    <2> HIDE DEF h
    <2>9. ASSUME NEW i \in n..L + 1
          PROVE  Scan(raw, i, g) = Scan(raw, i, h)
        <3>1. CASE i > L
            BY <3>1 DEF Scan, L
        <3>2. CASE i <= L
            <4>1. i \in 1..L /\ i + 1 \in n + 1..L + 1
                BY <1>1, <2>2, <3>2
            <4>2. RootfsAt(raw, i) => i + Len(Rootfs) \in n + 1..L + 1
                BY <1>1, <2>2, <4>1, ScanGoesOn DEF L
            <4>3. QED BY <2>4, <4>1, <4>2 DEF Scan
        <3>3. QED BY <1>1, <3>1, <3>2
    <2>10. \A i \in n..L + 1 : h[i] = Scan(raw, i, h)
        <3>1. ASSUME NEW i \in n..L + 1 PROVE h[i] = Scan(raw, i, g)
            <4>1. i = n \/ i \in n + 1..L + 1
                BY <2>2
            <4>2. QED BY <2>4, <2>5, <2>6, <4>1
        <3>2. QED BY <2>9, <3>1
    <2>11. h = [i \in n..L + 1 |-> Scan(raw, i, h)]
        BY <2>8, <2>10
    <2>12. QED BY <2>3, <2>11
<1> HIDE DEF T
<1>4. L \in T
    BY <1>1, <1>2, <1>3, SetInduction
<1>5. \E g : g = [i \in L + 1 - L..L + 1 |-> Scan(raw, i, g)]
    BY <1>1, <1>4 DEF T
<1>6. L + 1 - L = 1
    BY <1>1
<1>7. QED BY <1>5, <1>6 DEF L

LEMMA MountinfoFromIs ==
    ASSUME NEW raw \in Path, Rootfs # <<>>
    PROVE  /\ MountinfoFrom(raw)[Len(raw) + 1] = <<>>
           /\ \A i \in 1..Len(raw) :
                 /\ RootfsAt(raw, i) =>
                       MountinfoFrom(raw)[i] =
                          (IF FieldEnd(raw, i + Len(Rootfs)) THEN <<Slash>> ELSE <<>>)
                              \o MountinfoFrom(raw)[i + Len(Rootfs)]
                 /\ ~RootfsAt(raw, i) =>
                       MountinfoFrom(raw)[i] = <<raw[i]>> \o MountinfoFrom(raw)[i + 1]
<1> DEFINE m == MountinfoFrom(raw)
<1>1. m = CHOOSE g : g = [i \in 1..Len(raw) + 1 |-> Scan(raw, i, g)]
    BY DEF MountinfoFrom, Scan
<1> HIDE DEF m
<1>2. m = [i \in 1..Len(raw) + 1 |-> Scan(raw, i, m)]
    BY <1>1, ScanExists
<1>3. \A i \in 1..Len(raw) + 1 : m[i] = Scan(raw, i, m)
    BY <1>2
<1>4. Len(raw) \in Nat
    BY LenProperties DEF Path
<1>5. m[Len(raw) + 1] = <<>>
    <2>1. m[Len(raw) + 1] = Scan(raw, Len(raw) + 1, m)
        BY <1>3, <1>4
    <2>2. QED BY <1>4, <2>1 DEF Scan
<1>6. ASSUME NEW i \in 1..Len(raw)
      PROVE  /\ RootfsAt(raw, i) =>
                   m[i] = (IF FieldEnd(raw, i + Len(Rootfs)) THEN <<Slash>> ELSE <<>>)
                              \o m[i + Len(Rootfs)]
             /\ ~RootfsAt(raw, i) => m[i] = <<raw[i]>> \o m[i + 1]
    <2>1. m[i] = Scan(raw, i, m) /\ ~(i > Len(raw))
        BY <1>3, <1>4
    <2>2. QED BY <2>1 DEF Scan
<1>7. QED BY <1>5, <1>6 DEF m

\* What the scanner makes of a text is a text.
LEMMA MountinfoFromTyped ==
    ASSUME NEW raw \in Path, Rootfs # <<>>
    PROVE  \A i \in 1..Len(raw) + 1 : MountinfoFrom(raw)[i] \in Path
<1> DEFINE m == MountinfoFrom(raw)
           T == {i \in Nat : m[i] \in Path}
<1>1. PICK N \in Nat : N = Len(raw) + 1 /\ \A i \in 1..N : i # N => i \in 1..Len(raw)
    BY LenProperties DEF Path
<1>2. <<>> \in Path /\ <<Slash>> \in Path
    BY PathAssumption, EmptySeq DEF Path
<1>3. ASSUME NEW i \in 1..N, \A j \in 1..N : i < j => j \in T
      PROVE  m[i] \in Path
    <2>1. CASE i = N
        BY <1>1, <1>2, <2>1, MountinfoFromIs
    <2>2. CASE i # N /\ RootfsAt(raw, i)
        <3>1. i \in 1..Len(raw)
            BY <1>1, <2>2
        <3>2. i + Len(Rootfs) \in 1..N /\ i < i + Len(Rootfs)
            BY <1>1, <2>2, <3>1, ScanGoesOn
        <3>3. m[i + Len(Rootfs)] \in Path
            BY <1>3, <3>2
        <3>4. m[i] = (IF FieldEnd(raw, i + Len(Rootfs)) THEN <<Slash>> ELSE <<>>)
                         \o m[i + Len(Rootfs)]
            BY <2>2, <3>1, MountinfoFromIs
        <3> HIDE DEF m
        <3>5. QED BY <1>2, <3>3, <3>4, PathConcat
    <2>3. CASE i # N /\ ~RootfsAt(raw, i)
        <3>1. i \in 1..Len(raw) /\ i + 1 \in 1..N /\ i < i + 1
            BY <1>1, <2>3
        <3>2. m[i + 1] \in Path /\ <<raw[i]>> \in Path
            BY <1>3, <3>1, ElementOfSeq DEF Path
        <3>3. m[i] = <<raw[i]>> \o m[i + 1]
            BY <2>3, <3>1, MountinfoFromIs
        <3> HIDE DEF m
        <3>4. QED BY <3>2, <3>3, PathConcat
    <2>4. QED BY <2>1, <2>2, <2>3
<1>4. \A i \in 1..N : (\A j \in 1..N : i < j => j \in T) => i \in T
    BY <1>3
<1> HIDE DEF T
<1>5. 1..N \subseteq T
    BY <1>4, BackwardInduction
<1>6. QED BY <1>1, <1>5 DEF T

\* A text is its first byte and the rest of it.
LEMMA DropStep ==
    ASSUME NEW p \in Path, NEW i \in 1..Len(p)
    PROVE  Drop(p, i - 1) = <<p[i]>> \o Drop(p, i)
<1>1. Len(p) \in Nat
    BY LenProperties DEF Path
<1>2. Len(p) \in i..Len(p) /\ i - 1 + 1 = i
    BY <1>1
<1>3. SubSeq(p, i, Len(p)) = <<p[i]>> \o SubSeq(p, i + 1, Len(p))
    BY <1>2, SubSeqRecursiveFirst DEF Path
<1>4. QED BY <1>2, <1>3 DEF Drop

LEMMA DropAll ==
    ASSUME NEW p \in Path
    PROVE  Drop(p, Len(p)) = <<>> /\ Drop(p, 0) = p
<1>1. Len(p) \in Nat
    BY LenProperties DEF Path
<1>2. Len(Drop(p, Len(p))) = 0 /\ Drop(p, Len(p)) \in Path
    BY <1>1, DropTyped
<1>3. Drop(p, 0) = p
    BY SubSeqFull DEF Drop, Path
<1>4. QED BY <1>2, <1>3, EmptySeq DEF Path

\* Where no field starts any more, nothing changes any more.
LEMMA ScanLeaves ==
    ASSUME NEW raw \in Path, Rootfs # <<>>, NEW n \in Nat, n > 0,
           \A i \in n..Len(raw) : ~FieldStart(raw, i)
    PROVE  \A i \in n..Len(raw) + 1 : MountinfoFrom(raw)[i] = Drop(raw, i - 1)
<1> DEFINE m == MountinfoFrom(raw)
           T == {i \in Nat : i >= n => m[i] = Drop(raw, i - 1)}
<1>1. PICK N \in Nat : /\ N = Len(raw) + 1 /\ N - 1 = Len(raw)
                       /\ \A i \in 1..N : i # N => i \in 1..Len(raw)
    BY LenProperties DEF Path
<1>2. ASSUME NEW i \in 1..N, i >= n, \A j \in 1..N : i < j => j \in T
      PROVE  m[i] = Drop(raw, i - 1)
    <2>1. CASE i = N
        <3>1. m[i] = <<>> /\ i - 1 = Len(raw)
            BY <1>1, <2>1, MountinfoFromIs
        <3>2. QED BY <3>1, DropAll
    <2>2. CASE i # N
        <3>1. /\ i \in 1..Len(raw) /\ i \in n..Len(raw)
              /\ i + 1 \in 1..N /\ i < i + 1 /\ i + 1 >= n /\ i + 1 - 1 = i
            BY <1>1, <1>2, <2>2
        <3>2. ~RootfsAt(raw, i)
            BY <3>1 DEF RootfsAt
        <3>3. m[i] = <<raw[i]>> \o m[i + 1]
            BY <3>1, <3>2, MountinfoFromIs
        <3>4. m[i + 1] = Drop(raw, i + 1 - 1)
            BY <1>2, <3>1
        <3> HIDE DEF m
        <3>5. m[i + 1] = Drop(raw, i)
            BY <3>1, <3>4
        <3>6. QED BY <3>1, <3>3, <3>5, DropStep
    <2>3. QED BY <2>1, <2>2
<1>3. \A i \in 1..N : (\A j \in 1..N : i < j => j \in T) => i \in T
    BY <1>2
<1> HIDE DEF T
<1>4. 1..N \subseteq T
    BY <1>3, BackwardInduction
<1>5. \A i \in n..Len(raw) + 1 : i \in 1..N /\ i >= n
    BY <1>1
<1>6. QED BY <1>4, <1>5 DEF T

\* A text of the rootfs's length that begins with it is it.
LEMMA RootfsItself ==
    ASSUME NEW p \in Path, IsPrefix(Rootfs, p)
    PROVE  p = Rootfs <=> Len(p) = Len(Rootfs)
<1>1. Rootfs \in Path /\ Len(p) \in Nat
    BY PathAssumption, LenProperties DEF Path
<1>2. \A i \in 1..Len(Rootfs) : Rootfs[i] = p[i]
    BY <1>1, PrefixByIndex
<1>3. Len(p) = Len(Rootfs) => p = Rootfs
    BY <1>1, <1>2, SeqEqual DEF Path
<1>4. QED BY <1>3

\* The scanner shows one field as Shown does.
LEMMA MountinfoOfField ==
    ASSUME NEW raw \in Path, Blankless(raw)
    PROVE  Mountinfo(raw) = Shown(raw)
<1> SUFFICES ASSUME Rootfs # <<>> PROVE MountinfoFrom(raw)[1] = Shown(raw)
    BY DEF Mountinfo, Shown
<1> DEFINE m == MountinfoFrom(raw)
           R == Len(Rootfs)
<1>1. Len(raw) \in Nat /\ R \in Nat /\ R # 0 /\ Rootfs \in Path
    BY PathAssumption, LenProperties, EmptySeq DEF Path
<1>2. DOMAIN raw = 1..Len(raw) /\ \A i \in 1..Len(raw) : ~BlankAt(raw, i)
    BY LenProperties DEF Blankless, Path
<1>3. \A i \in 2..Len(raw) + 1 : m[i] = Drop(raw, i - 1)
    <2>1. \A i \in 2..Len(raw) : ~FieldStart(raw, i)
        BY <1>1, <1>2 DEF FieldStart
    <2>2. PICK n \in Nat : n = 2 /\ n > 0
        OBVIOUS
    <2>3. \A i \in n..Len(raw) : ~FieldStart(raw, i)
        BY <2>1, <2>2
    <2>4. \A i \in n..Len(raw) + 1 : MountinfoFrom(raw)[i] = Drop(raw, i - 1)
        BY <2>2, <2>3, ScanLeaves
    <2>5. QED BY <2>2, <2>4
<1>4. /\ m[Len(raw) + 1] = <<>>
      /\ 1 \in 1..Len(raw) /\ RootfsAt(raw, 1) =>
            m[1] = (IF FieldEnd(raw, 1 + R) THEN <<Slash>> ELSE <<>>) \o m[1 + R]
      /\ 1 \in 1..Len(raw) /\ ~RootfsAt(raw, 1) => m[1] = <<raw[1]>> \o m[1 + 1]
    BY MountinfoFromIs
<1> HIDE DEF m, R
<1>5. CASE raw = <<>>
    <2>1. Len(raw) = 0
        BY <1>5, EmptySeq
    <2>2. ~IsPrefix(Rootfs, raw)
        BY <1>1, <2>1, PrefixByIndex DEF R
    <2>3. m[1] = <<>>
        BY <1>4, <2>1
    <2>4. QED BY <1>5, <2>2, <2>3 DEF Shown, Under, m
<1>6. CASE raw # <<>>
    <2>1. Len(raw) > 0 /\ 1 \in 1..Len(raw) /\ 1 - 1 = 0
        BY <1>1, <1>6, EmptySeq DEF Path
    <2>2. RootfsAt(raw, 1) <=> Under(Rootfs, raw)
        <3>1. IsPrefix(Rootfs, Drop(raw, 1 - 1)) <=> IsPrefix(Rootfs, raw)
            BY <2>1, DropAll
        <3>2. FieldEnd(raw, 1 + R) <=> Len(raw) <= R
            BY <1>1, <1>2 DEF FieldEnd
        <3>3. FieldStart(raw, 1)
            BY DEF FieldStart
        <3>4. 1 + R = R + 1
            BY <1>1
        <3>5. QED BY <1>1, <3>1, <3>2, <3>3, <3>4 DEF RootfsAt, Under, R
    <2>3. CASE RootfsAt(raw, 1)
        <3>1. m[1] = (IF FieldEnd(raw, 1 + R) THEN <<Slash>> ELSE <<>>) \o m[1 + R]
            BY <1>4, <2>1, <2>3
        <3>2. 1 + R \in 2..Len(raw) + 1 /\ 1 + R - 1 = R
            BY <1>1, <2>1, <2>3, ScanGoesOn DEF R
        <3>3. m[1 + R] = Drop(raw, R)
            <4>1. PICK a \in 2..Len(raw) + 1 : a = 1 + R
                BY <3>2
            <4>2. m[a] = Drop(raw, a - 1)
                BY <1>3
            <4>3. a - 1 = R
                BY <1>1, <4>1
            <4>4. QED BY <4>1, <4>2, <4>3
        <3>4. FieldEnd(raw, 1 + R) <=> Len(raw) <= R
            BY <1>1, <1>2 DEF FieldEnd
        <3>5. Under(Rootfs, raw) /\ IsPrefix(Rootfs, raw)
            BY <2>2, <2>3 DEF Under
        <3>6. raw = Rootfs <=> Len(raw) <= R
            BY <1>1, <3>2, <3>5, RootfsItself DEF R
        <3>7. CASE raw = Rootfs
            <4>1. Drop(raw, R) = <<>>
                BY <3>7, DropAll DEF R
            <4>2. m[1] = <<Slash>> \o <<>>
                BY <3>1, <3>3, <3>4, <3>6, <3>7, <4>1
            <4>3. <<Slash>> \o <<>> = <<Slash>>
                BY PathAssumption, ConcatEmptySeq
            <4>4. QED BY <3>5, <3>7, <4>2, <4>3 DEF Shown, m
        <3>8. CASE raw # Rootfs
            <4>1. Drop(raw, R) \in Path
                BY <1>1, <3>2, DropTyped
            <4>2. m[1] = <<>> \o Drop(raw, R)
                BY <3>1, <3>3, <3>4, <3>6, <3>8
            <4>3. <<>> \o Drop(raw, R) = Drop(raw, R)
                BY <4>1, ConcatEmptySeq DEF Path
            <4>4. QED BY <3>5, <3>8, <4>2, <4>3 DEF Shown, m, R
        <3>9. QED BY <3>7, <3>8
    <2>4. CASE ~RootfsAt(raw, 1)
        <3>1. m[1] = <<raw[1]>> \o m[2]
            BY <1>4, <2>1, <2>4
        <3>2. 2 \in 2..Len(raw) + 1 /\ 2 - 1 = 1
            BY <1>1, <2>1
        <3>3. m[2] = Drop(raw, 1)
            BY <1>3, <3>2
        <3>4. m[1] = Drop(raw, 0)
            BY <2>1, <3>1, <3>3, DropStep
        <3>5. QED BY <2>2, <2>4, <3>4, DropAll DEF Shown, m
    <2>5. QED BY <2>3, <2>4
<1>7. QED BY <1>5, <1>6

\* What precedes a byte of a text, byte by byte.
LEMMA FrontByIndex ==
    ASSUME NEW p \in Path, NEW n \in Nat, n <= Len(p)
    PROVE  /\ SubSeq(p, 1, n) \in Path /\ Len(SubSeq(p, 1, n)) = n
           /\ \A k \in 1..n : SubSeq(p, 1, n)[k] = p[k]
<1>1. Len(p) \in Nat
    BY LenProperties DEF Path
<1>2. \A i \in 1..n : p[i] \in Fragment
    BY <1>1, ElementOfSeq DEF Path
<1>3. /\ SubSeq(p, 1, n) \in Seq(Fragment)
      /\ Len(SubSeq(p, 1, n)) = IF 1 <= n THEN n - 1 + 1 ELSE 0
      /\ \A k \in 1..n - 1 + 1 : SubSeq(p, 1, n)[k] = p[1 + k - 1]
    BY <1>2, SubSeqProperties
<1>4. \A k \in 1..n : k \in 1..n - 1 + 1 /\ 1 + k - 1 = k
    OBVIOUS
<1>5. QED BY <1>3, <1>4 DEF Path

LEMMA BlankByIndex ==
    ASSUME NEW p \in Path, NEW i
    PROVE  BlankAt(p, i) <=> i \in 1..Len(p) /\ p[i] \in Blanks
BY LenProperties DEF BlankAt, Path

\* Behind a blank the scanner goes on as if the text began there.
LEMMA ScanAfterBlank ==
    ASSUME NEW raw \in Path, Rootfs # <<>>, NEW i \in 1..Len(raw), BlankAt(raw, i),
           NEW v \in Path, v = Drop(raw, i)
    PROVE  MountinfoFrom(raw)[i + 1] = MountinfoFrom(v)[1]
<1> DEFINE m == MountinfoFrom(raw)
           w == MountinfoFrom(v)
           R == Len(Rootfs)
           T == {j \in Nat : m[i + j] = w[j]}
<1>v. /\ Len(raw) \in Nat /\ Len(v) \in Nat /\ Len(v) = Len(raw) - i
      /\ \A k \in 1..Len(v) : v[k] = raw[i + k]
    <2>1. Len(raw) \in Nat /\ i \in Nat /\ i <= Len(raw)
        BY LenProperties DEF Path
    <2>2. Len(Drop(raw, i)) = Len(raw) - i
        BY <2>1, DropTyped
    <2>3. \A k \in 1..Len(raw) - i : Drop(raw, i)[k] = raw[i + k]
        BY <2>1, DropByIndex
    <2>4. QED BY <2>1, <2>2, <2>3
<1>2. PICK N \in Nat : N = Len(v) + 1
    <2>1. Len(v) \in Nat
        BY <1>v
    <2>2. QED BY <2>1
<1> HIDE DEF R
<1>1. /\ Len(raw) \in Nat /\ i \in Nat /\ R \in Nat /\ R # 0
      /\ v \in Path /\ Len(v) \in Nat /\ Len(v) = Len(raw) - i
      /\ \A k \in 1..Len(v) : v[k] = raw[i + k]
    <2>1. R \in Nat /\ R # 0
        BY PathAssumption, LenProperties, EmptySeq DEF Path, R
    <2>2. QED BY <1>v, <2>1
<1>3. ASSUME NEW j \in 1..Len(v)
      PROVE  /\ RootfsAt(raw, i + j) <=> RootfsAt(v, j)
             /\ RootfsAt(v, j) => (FieldEnd(raw, i + j + R) <=> FieldEnd(v, j + R))
    <2>1. i + j \in 1..Len(raw) /\ i + j + R \in Nat /\ j + R \in Nat
        BY <1>1
    <2>2. FieldStart(raw, i + j) <=> FieldStart(v, j)
        <3>1. CASE j = 1
            <4>1. i + j - 1 = i
                BY <1>1, <3>1
            <4>2. QED BY <3>1, <4>1 DEF FieldStart
        <3>2. CASE j # 1
            <4>1. i + j # 1 /\ i + j - 1 = i + (j - 1) /\ j - 1 \in 1..Len(v)
                  /\ i + (j - 1) \in 1..Len(raw)
                BY <1>1, <3>2
            <4>2. v[j - 1] = raw[i + (j - 1)]
                BY <1>1, <4>1
            <4>3. BlankAt(v, j - 1) <=> BlankAt(raw, i + j - 1)
                BY <1>1, <4>1, <4>2, BlankByIndex
            <4>4. QED BY <3>2, <4>1, <4>3 DEF FieldStart
        <3>3. QED BY <3>1, <3>2
    <2>3. IsPrefix(Rootfs, Drop(raw, i + j - 1)) <=> IsPrefix(Rootfs, Drop(v, j - 1))
        <3>1. i + j + R <= Len(raw) + 1 <=> j + R <= Len(v) + 1
            BY <1>1
        <3>2. ASSUME j + R <= Len(v) + 1, NEW k \in 1..R
              PROVE  raw[i + j + k - 1] = v[j + k - 1]
            <4>1. j + k - 1 \in 1..Len(v) /\ i + j + k - 1 = i + (j + k - 1)
                BY <1>1, <3>2
            <4>2. QED BY <1>1, <4>1
        <3>3. IsPrefix(Rootfs, Drop(raw, i + j - 1))
                  <=> /\ i + j + R <= Len(raw) + 1
                      /\ \A k \in 1..R : Rootfs[k] = raw[i + j + k - 1]
            BY <2>1, RootfsByIndex DEF R
        <3>4. IsPrefix(Rootfs, Drop(v, j - 1))
                  <=> /\ j + R <= Len(v) + 1
                      /\ \A k \in 1..R : Rootfs[k] = v[j + k - 1]
            BY <1>1, RootfsByIndex DEF R
        <3>5. QED BY <3>1, <3>2, <3>3, <3>4
    <2>4. FieldEnd(raw, i + j + R) <=> FieldEnd(v, j + R)
        <3>1. CASE j + R > Len(v)
            BY <1>1, <2>1, <3>1 DEF FieldEnd
        <3>2. CASE j + R <= Len(v)
            <4>1. j + R \in 1..Len(v) /\ i + (j + R) \in 1..Len(raw) /\ i + j + R = i + (j + R)
                  /\ ~(i + j + R > Len(raw)) /\ ~(j + R > Len(v))
                BY <1>1, <3>2
            <4>2. v[j + R] = raw[i + (j + R)]
                BY <1>1, <4>1
            <4>3. BlankAt(v, j + R) <=> BlankAt(raw, i + (j + R))
                BY <1>1, <4>1, <4>2, BlankByIndex
            <4>4. QED BY <4>1, <4>3 DEF FieldEnd
        <3>3. QED BY <1>1, <3>1, <3>2
    <2>5. ASSUME ~FieldEnd(v, j + R)
          PROVE  raw[i + j + R] = v[j + R]
        <3>1. j + R \in 1..Len(v) /\ i + j + R = i + (j + R)
            BY <1>1, <2>5 DEF FieldEnd
        <3>2. QED BY <1>1, <3>1
    <2>6. QED BY <2>2, <2>3, <2>4, <2>5 DEF RootfsAt, R
<1>4. ASSUME NEW j \in 1..N, \A k \in 1..N : j < k => k \in T
      PROVE  m[i + j] = w[j]
    <2>1. CASE j = N
        <3>1. m[Len(raw) + 1] = <<>> /\ w[Len(v) + 1] = <<>>
            BY <1>1, MountinfoFromIs
        <3>2. i + j = Len(raw) + 1
            BY <1>1, <1>2, <2>1
        <3>3. QED BY <1>2, <2>1, <3>1, <3>2
    <2>2. CASE j # N
        <3>1. /\ j \in 1..Len(v) /\ j + 1 \in 1..N /\ j < j + 1
              /\ i + j \in 1..Len(raw) /\ i + j + 1 = i + (j + 1)
            <4> HIDE DEF T, m, w
            <4>1. QED BY <1>1, <1>2, <2>2
        <3>2. v[j] = raw[i + j]
            BY <1>1, <3>1
        <3>3. CASE RootfsAt(v, j)
            <4>1. j + R \in 1..N /\ j < j + R /\ i + j + R = i + (j + R)
                BY <1>1, <1>2, <3>1, <3>3, ScanGoesOn DEF R
            <4>2. m[i + (j + R)] = w[j + R]
                BY <1>4, <4>1
            <4>3. w[j] = (IF FieldEnd(v, j + R) THEN <<Slash>> ELSE <<>>) \o w[j + R]
                BY <1>1, <3>1, <3>3, MountinfoFromIs DEF R
            <4>4. m[i + j] = (IF FieldEnd(raw, i + j + R) THEN <<Slash>> ELSE <<>>)
                                 \o m[i + j + R]
                BY <1>3, <3>1, <3>3, MountinfoFromIs DEF R
            <4> HIDE DEF m, w
            <4>5. QED BY <1>3, <3>1, <3>3, <4>1, <4>2, <4>3, <4>4
        <3>4. CASE ~RootfsAt(v, j)
            <4>1. m[i + (j + 1)] = w[j + 1]
                BY <1>4, <3>1
            <4>2. w[j] = <<v[j]>> \o w[j + 1]
                BY <1>1, <3>1, <3>4, MountinfoFromIs
            <4>3. m[i + j] = <<raw[i + j]>> \o m[i + j + 1]
                BY <1>3, <3>1, <3>4, MountinfoFromIs
            <4> HIDE DEF m, w
            <4>4. QED BY <3>1, <3>2, <4>1, <4>2, <4>3
        <3>5. QED BY <3>3, <3>4
    <2>3. QED BY <2>1, <2>2
<1>5. \A j \in 1..N : (\A k \in 1..N : j < k => k \in T) => j \in T
    BY <1>4
<1> HIDE DEF T
<1>6. 1..N \subseteq T
    BY <1>5, BackwardInduction
<1>7. 1 \in T
    BY <1>1, <1>2, <1>6
<1>8. QED BY <1>7 DEF T

\* Up to a blank the scanner goes on as if the text ended there.  The rootfs,
\* without a blank in it, does not reach across.
LEMMA ScanBeforeBlank ==
    ASSUME NEW raw \in Path, Rootfs # <<>>, Blankless(Rootfs),
           NEW i \in 1..Len(raw), BlankAt(raw, i),
           NEW u \in Path, u = SubSeq(raw, 1, i - 1)
    PROVE  /\ MountinfoFrom(raw)[1] = MountinfoFrom(u)[1] \o MountinfoFrom(raw)[i]
           /\ MountinfoFrom(raw)[i] = <<raw[i]>> \o MountinfoFrom(raw)[i + 1]
<1> DEFINE m == MountinfoFrom(raw)
           w == MountinfoFrom(u)
           R == Len(Rootfs)
           T == {j \in Nat : m[j] = w[j] \o m[i]}
<1>1. /\ Len(raw) \in Nat /\ i \in Nat /\ i <= Len(raw) /\ i > 0
      /\ Len(u) \in Nat /\ Len(u) = i - 1
      /\ \A k \in 1..i - 1 : u[k] = raw[k]
    <2>1. Len(raw) \in Nat /\ i \in Nat /\ i <= Len(raw) /\ i > 0 /\ i - 1 \in Nat /\ i - 1 <= Len(raw)
        BY LenProperties DEF Path
    <2>2. QED BY <2>1, FrontByIndex
<1>2. PICK N \in Nat : N = i
    BY <1>1
<1>3. R \in Nat /\ R # 0 /\ \A k \in 1..R : Rootfs[k] \notin Blanks
    <2>1. Rootfs \in Path
        BY PathAssumption
    <2>2. R \in Nat /\ R # 0 /\ DOMAIN Rootfs = 1..R
        BY <2>1, LenProperties, EmptySeq DEF Path
    <2>3. \A k \in 1..R : ~BlankAt(Rootfs, k)
        BY <2>2 DEF Blankless
    <2>4. QED BY <2>1, <2>2, <2>3, BlankByIndex
<1>4. raw[i] \in Blanks
    BY BlankByIndex
<1>5. MountinfoFrom(raw)[i] = <<raw[i]>> \o MountinfoFrom(raw)[i + 1]
    <2>1. ~RootfsAt(raw, i)
        <3>1. SUFFICES ASSUME RootfsAt(raw, i) PROVE FALSE
            OBVIOUS
        <3>2. \A k \in 1..Len(Rootfs) : Rootfs[k] = raw[i + k - 1]
            BY <3>1, RootfsByIndex DEF RootfsAt
        <3>3. 1 \in 1..R /\ i + 1 - 1 = i
            BY <1>1, <1>3
        <3>4. Rootfs[1] = raw[i]
            BY <3>2, <3>3
        <3>5. QED BY <1>3, <1>4, <3>3, <3>4
    <2>2. QED BY <2>1, MountinfoFromIs
<1> HIDE DEF R
<1>6. ASSUME NEW j \in 1..Len(u)
      PROVE  /\ RootfsAt(raw, j) <=> RootfsAt(u, j)
             /\ RootfsAt(u, j) => (FieldEnd(raw, j + R) <=> FieldEnd(u, j + R))
    <2>1. j \in 1..Len(raw) /\ j \in 1..i - 1 /\ j + R \in Nat
        BY <1>1, <1>3
    <2>2. FieldStart(raw, j) <=> FieldStart(u, j)
        <3>1. j # 1 => j - 1 \in 1..Len(u) /\ j - 1 \in 1..Len(raw) /\ j - 1 \in 1..i - 1
            BY <1>1
        <3>2. j # 1 => (BlankAt(u, j - 1) <=> BlankAt(raw, j - 1))
            BY <1>1, <3>1, BlankByIndex
        <3>3. QED BY <3>2 DEF FieldStart
    <2>3. IsPrefix(Rootfs, Drop(raw, j - 1)) <=> IsPrefix(Rootfs, Drop(u, j - 1))
        <3>1. IsPrefix(Rootfs, Drop(raw, j - 1))
                  <=> /\ j + R <= Len(raw) + 1
                      /\ \A k \in 1..R : Rootfs[k] = raw[j + k - 1]
            BY <2>1, RootfsByIndex DEF R
        <3>2. IsPrefix(Rootfs, Drop(u, j - 1))
                  <=> /\ j + R <= Len(u) + 1
                      /\ \A k \in 1..R : Rootfs[k] = u[j + k - 1]
            BY RootfsByIndex DEF R
        <3>3. ASSUME j + R <= Len(u) + 1
              PROVE  \A k \in 1..R : raw[j + k - 1] = u[j + k - 1]
            <4>1. \A k \in 1..R : j + k - 1 \in 1..i - 1
                BY <1>1, <1>3, <3>3
            <4>2. QED BY <1>1, <4>1
        <3>4. ASSUME ~(j + R <= Len(u) + 1), \A k \in 1..R : Rootfs[k] = raw[j + k - 1]
              PROVE  FALSE
            <4>1. i - j + 1 \in 1..R /\ j + (i - j + 1) - 1 = i
                BY <1>1, <1>3, <2>1, <3>4
            <4>2. Rootfs[i - j + 1] = raw[i]
                BY <3>4, <4>1
            <4>3. QED BY <1>3, <1>4, <4>1, <4>2
        <3>5. j + R <= Len(u) + 1 => j + R <= Len(raw) + 1
            BY <1>1, <2>1
        <3>6. QED BY <3>1, <3>2, <3>3, <3>4, <3>5
    <2>4. ASSUME IsPrefix(Rootfs, Drop(u, j - 1))
          PROVE  /\ FieldEnd(raw, j + R) <=> FieldEnd(u, j + R)
                 /\ ~FieldEnd(u, j + R) => raw[j + R] = u[j + R]
        <3>1. j + R <= Len(u) + 1
            BY <2>4, RootfsByIndex DEF R
        <3>2. CASE j + R = i
            <4>1. j + R > Len(u)
                BY <1>1, <2>1, <3>2
            <4>2. QED BY <3>2, <4>1 DEF FieldEnd
        <3>3. CASE j + R # i
            <4>1. /\ j + R \in 1..Len(u) /\ j + R \in 1..Len(raw) /\ j + R \in 1..i - 1
                  /\ ~(j + R > Len(u)) /\ ~(j + R > Len(raw))
                BY <1>1, <1>3, <2>1, <3>1, <3>3
            <4>2. u[j + R] = raw[j + R]
                BY <1>1, <4>1
            <4>3. BlankAt(u, j + R) <=> BlankAt(raw, j + R)
                BY <4>1, <4>2, BlankByIndex
            <4>4. QED BY <4>1, <4>2, <4>3 DEF FieldEnd
        <3>4. QED BY <3>2, <3>3
    <2>5. QED BY <2>2, <2>3, <2>4 DEF RootfsAt, R
<1>7. /\ \A j \in 1..Len(raw) + 1 : m[j] \in Path
      /\ \A j \in 1..Len(u) + 1 : w[j] \in Path
      /\ m[i] \in Path
    <2>1. \A j \in 1..Len(raw) + 1 : m[j] \in Path
        BY MountinfoFromTyped
    <2>2. \A j \in 1..Len(u) + 1 : w[j] \in Path
        BY MountinfoFromTyped
    <2>3. i \in 1..Len(raw) + 1
        BY <1>1
    <2> HIDE DEF m, w
    <2>4. QED BY <2>1, <2>2, <2>3
<1>8. ASSUME NEW j \in 1..N, \A k \in 1..N : j < k => k \in T
      PROVE  m[j] = w[j] \o m[i]
    <2>1. CASE j = N
        <3>1. w[Len(u) + 1] = <<>>
            BY MountinfoFromIs
        <3> HIDE DEF m, w
        <3>2. w[j] = <<>> /\ j = i
            BY <1>1, <1>2, <2>1, <3>1
        <3>3. m[i] = <<>> \o m[i]
            BY <1>7, ConcatEmptySeq DEF Path
        <3>4. QED BY <3>2, <3>3
    <2>2. CASE j # N
        <3>1. /\ j \in 1..Len(u) /\ j \in 1..Len(raw) /\ j + 1 \in 1..N /\ j < j + 1
              /\ j + 1 \in 1..Len(u) + 1 /\ j \in 1..i - 1
            <4> HIDE DEF T, m, w
            <4>1. QED BY <1>1, <1>2, <2>2
        <3>2. u[j] = raw[j]
            BY <1>1, <3>1
        <3>3. <<Slash>> \in Path /\ <<>> \in Path /\ <<raw[j]>> \in Path
            BY <3>1, PathAssumption, EmptySeq, ElementOfSeq DEF Path
        <3>4. CASE RootfsAt(u, j)
            <4>1. j + R \in 1..N /\ j < j + R /\ j + R \in 1..Len(u) + 1
                <5>1. R \in Nat /\ j + R \in j + 1..Len(u) + 1
                    BY <3>1, <3>4, ScanGoesOn DEF R
                <5> HIDE DEF T, m, w
                <5>2. QED BY <1>1, <1>2, <3>1, <5>1
            <4>2. m[j + R] = w[j + R] \o m[i]
                BY <1>8, <4>1
            <4>3. w[j] = (IF FieldEnd(u, j + R) THEN <<Slash>> ELSE <<>>) \o w[j + R]
                BY <3>1, <3>4, MountinfoFromIs DEF R
            <4>4. m[j] = (IF FieldEnd(raw, j + R) THEN <<Slash>> ELSE <<>>) \o m[j + R]
                BY <1>6, <3>1, <3>4, MountinfoFromIs DEF R
            <4>5. FieldEnd(raw, j + R) <=> FieldEnd(u, j + R)
                BY <1>6, <3>1, <3>4
            <4> HIDE DEF m, w
            <4>6. w[j + R] \in Path
                BY <1>7, <4>1
            <4>7. PICK e \in Path : e = IF FieldEnd(u, j + R) THEN <<Slash>> ELSE <<>>
                BY <3>3
            <4>8. e = IF FieldEnd(raw, j + R) THEN <<Slash>> ELSE <<>>
                BY <4>5, <4>7
            <4>9. w[j] = e \o w[j + R]
                BY <4>3, <4>7
            <4>10. m[j] = e \o m[j + R]
                BY <4>4, <4>8
            <4>11. PICK a \in Path, b \in Path : a = w[j + R] /\ b = m[i]
                BY <1>7, <4>6
            <4>12. Associate(e, a, b)
                BY Associates
            <4>13. QED BY <4>2, <4>9, <4>10, <4>11, <4>12 DEF Associate
        <3>5. CASE ~RootfsAt(u, j)
            <4>1. m[j + 1] = w[j + 1] \o m[i]
                BY <1>8, <3>1
            <4>2. w[j] = <<u[j]>> \o w[j + 1]
                BY <3>1, <3>5, MountinfoFromIs
            <4>3. m[j] = <<raw[j]>> \o m[j + 1]
                BY <1>6, <3>1, <3>5, MountinfoFromIs
            <4> HIDE DEF m, w
            <4>4. w[j + 1] \in Path
                BY <1>7, <3>1
            <4>5. PICK e \in Path : e = <<raw[j]>>
                BY <3>3
            <4>6. e = <<u[j]>>
                BY <3>2, <4>5
            <4>7. w[j] = e \o w[j + 1]
                BY <4>2, <4>6
            <4>8. m[j] = e \o m[j + 1]
                BY <4>3, <4>5
            <4>9. PICK a \in Path, b \in Path : a = w[j + 1] /\ b = m[i]
                BY <1>7, <4>4
            <4>10. Associate(e, a, b)
                BY Associates
            <4>11. QED BY <4>1, <4>7, <4>8, <4>9, <4>10 DEF Associate
        <3>6. QED BY <3>4, <3>5
    <2>3. QED BY <2>1, <2>2
<1>9. \A j \in 1..N : (\A k \in 1..N : j < k => k \in T) => j \in T
    <2> HIDE DEF m, w
    <2>1. ASSUME NEW j \in 1..N, m[j] = w[j] \o m[i]
          PROVE  j \in T
        <3>1. j \in Nat
            BY <1>2
        <3>2. QED BY <2>1, <3>1
    <2> HIDE DEF T
    <2>2. QED BY <1>8, <2>1
<1> HIDE DEF T
<1>10. 1..N \subseteq T
    BY <1>9, BackwardInduction
<1>11. 1 \in T
    BY <1>1, <1>2, <1>10
<1>12. QED BY <1>5, <1>11 DEF T

\* mountinfo shows each field on its own.
LEMMA EachFieldShown ==
    ASSUME NEW raw \in Path, Blankless(Rootfs)
    PROVE  ShowsEachField(raw)
<1>1. Blankless(raw) => Mountinfo(raw) = Shown(raw)
    BY MountinfoOfField
<1>2. ASSUME NEW i \in DOMAIN raw, BlankAt(raw, i)
      PROVE  Mountinfo(raw) = Mountinfo(SubSeq(raw, 1, i - 1)) \o <<raw[i]>>
                                  \o Mountinfo(Drop(raw, i))
    <2>1. /\ Len(raw) \in Nat /\ i \in 1..Len(raw) /\ i \in Nat /\ i <= Len(raw)
          /\ i - 1 \in Nat /\ i - 1 <= Len(raw)
        BY LenProperties DEF Path
    <2>2. PICK u : u \in Path /\ u = SubSeq(raw, 1, i - 1)
        BY <2>1, FrontByIndex
    <2>3. PICK v : v \in Path /\ v = Drop(raw, i)
        BY <2>1, DropTyped
    <2>4. <<raw[i]>> \in Path
        BY <2>1, ElementOfSeq DEF Path
    <2>5. CASE Rootfs = <<>>
        <3>1. v = SubSeq(raw, i + 1, Len(raw)) /\ <<raw[i]>> \o SubSeq(raw, i + 1, Len(raw)) = SubSeq(raw, i, Len(raw))
            <4>1. Len(raw) \in i..Len(raw)
                BY <2>1
            <4>2. QED BY <2>1, <2>3, <4>1, SubSeqRecursiveFirst DEF Drop, Path
        <3>2. u \o SubSeq(raw, i, Len(raw)) = raw
            <4>1. /\ 1 \in 1..Len(raw) + 1 /\ i - 1 \in 1 - 1..Len(raw)
                  /\ Len(raw) \in i - 1..Len(raw) /\ i - 1 + 1 = i
                BY <2>1
            <4>2. SubSeq(raw, 1, i - 1) \o SubSeq(raw, i - 1 + 1, Len(raw)) = SubSeq(raw, 1, Len(raw))
                BY <4>1, ConcatAdjacentSubSeq DEF Path
            <4>3. SubSeq(raw, 1, Len(raw)) = raw
                BY SubSeqFull DEF Path
            <4>4. QED BY <2>2, <4>1, <4>2, <4>3
        <3>3. PICK b \in Path : b = <<raw[i]>>
            BY <2>4
        <3>6. (u \o b) \o v = u \o (b \o v)
            <4>1. PICK a \in Path, c \in Path : a = u /\ c = v
                BY <2>2, <2>3
            <4>2. Associate(a, b, c)
                BY Associates
            <4>3. QED BY <4>1, <4>2 DEF Associate
        <3>4. Mountinfo(u) = u /\ Mountinfo(v) = v /\ Mountinfo(raw) = raw
            BY <2>5 DEF Mountinfo
        <3>5. QED BY <2>2, <2>3, <3>1, <3>2, <3>3, <3>4, <3>6
    <2>6. CASE Rootfs # <<>>
        <3>1. MountinfoFrom(raw)[1] = MountinfoFrom(u)[1] \o (<<raw[i]>> \o MountinfoFrom(v)[1])
            <4>1. MountinfoFrom(raw)[i + 1] = MountinfoFrom(v)[1]
                BY <1>2, <2>1, <2>3, <2>6, ScanAfterBlank
            <4>2. /\ MountinfoFrom(raw)[1] = MountinfoFrom(u)[1] \o MountinfoFrom(raw)[i]
                  /\ MountinfoFrom(raw)[i] = <<raw[i]>> \o MountinfoFrom(raw)[i + 1]
                BY <1>2, <2>1, <2>2, <2>6, ScanBeforeBlank
            <4>3. QED BY <4>1, <4>2
        <3>2. MountinfoFrom(u)[1] \in Path /\ MountinfoFrom(v)[1] \in Path
            <4>1. 1 \in 1..Len(u) + 1 /\ 1 \in 1..Len(v) + 1
                BY <2>2, <2>3, LenProperties DEF Path
            <4>2. QED BY <2>2, <2>3, <2>6, <4>1, MountinfoFromTyped
        <3>3. MountinfoFrom(u)[1] \o (<<raw[i]>> \o MountinfoFrom(v)[1])
                  = (MountinfoFrom(u)[1] \o <<raw[i]>>) \o MountinfoFrom(v)[1]
            <4>1. PICK b \in Path : b = <<raw[i]>>
                BY <2>4
            <4>2. PICK a \in Path, c \in Path : a = MountinfoFrom(u)[1] /\ c = MountinfoFrom(v)[1]
                BY <3>2
            <4>3. Associate(a, b, c)
                BY Associates
            <4>4. QED BY <4>1, <4>2, <4>3 DEF Associate
        <3>4. QED BY <2>2, <2>3, <2>6, <3>1, <3>3 DEF Mountinfo
    <2>7. QED BY <2>5, <2>6
<1>3. QED BY <1>1, <1>2 DEF ShowsEachField


(***************************************************************************)
(* maps                                                                    *)
(***************************************************************************)

\* A text of three parts, byte by byte.
LEMMA ThreeParts ==
    ASSUME NEW b \in Path, NEW p \in Path, NEW r \in Path,
           NEW s, s = (b \o p) \o r,
           NEW B \in Nat, B = Len(b), NEW P \in Nat, P = Len(p), NEW E \in Nat, E = Len(r)
    PROVE  /\ s \in Path /\ Len(s) = B + P + E
           /\ \A i \in 1..B : s[i] = b[i]
           /\ \A i \in 1..P : s[B + i] = p[i]
           /\ \A i \in 1..E : s[B + P + i] = r[i]
<1>1. PICK bp \in Path : bp = b \o p
    BY PathConcat
<1>2. /\ Len(bp) = B + P
      /\ \A i \in 1..B + P : bp[i] = IF i <= B THEN b[i] ELSE p[i - B]
    BY <1>1, ConcatProperties DEF Path
<1>3. s \in Path /\ s = bp \o r
    BY <1>1, PathConcat
<1>4. /\ Len(s) = B + P + E
      /\ \A i \in 1..B + P + E : s[i] = IF i <= B + P THEN bp[i] ELSE r[i - (B + P)]
    <2>1. /\ Len(s) = Len(bp) + Len(r)
          /\ \A i \in 1..Len(bp) + Len(r) : s[i] = IF i <= Len(bp) THEN bp[i] ELSE r[i - Len(bp)]
        BY <1>3, ConcatProperties DEF Path
    <2>2. Len(bp) = B + P /\ Len(r) = E
        BY <1>2
    <2>3. QED BY <2>1, <2>2
<1>5. ASSUME NEW i \in 1..B PROVE s[i] = b[i]
    <2>1. i \in 1..B + P /\ i \in 1..B + P + E /\ i <= B /\ i <= B + P
        OBVIOUS
    <2>2. QED BY <1>2, <1>4, <2>1
<1>6. ASSUME NEW i \in 1..P PROVE s[B + i] = p[i]
    <2>1. /\ B + i \in 1..B + P /\ B + i \in 1..B + P + E /\ ~(B + i <= B) /\ B + i <= B + P
          /\ B + i - B = i
        OBVIOUS
    <2>2. QED BY <1>2, <1>4, <2>1
<1>7. ASSUME NEW i \in 1..E PROVE s[B + P + i] = r[i]
    <2>1. /\ B + P + i \in 1..B + P + E /\ ~(B + P + i <= B + P) /\ B + P + i - (B + P) = i
        OBVIOUS
    <2>2. QED BY <1>4, <2>1
<1>8. QED BY <1>3, <1>4, <1>5, <1>6, <1>7

\* p is the part of s that begins behind n bytes.
PartAt(s, n, p) == n + Len(p) <= Len(s) /\ \A i \in 1..Len(p) : s[n + i] = p[i]

\* A part of a text, cut out.
LEMMA Cut ==
    ASSUME NEW s \in Path, NEW p \in Path, NEW B \in Nat, PartAt(s, B, p)
    PROVE  SubSeq(s, B + 1, B + Len(p)) = p
<1> DEFINE P == Len(p)
<1>0. P \in Nat /\ B + P <= Len(s) /\ \A i \in 1..P : s[B + i] = p[i]
    BY LenProperties DEF Path, PartAt
<1> HIDE DEF P
<1>x. PICK x, y : x = B + 1 /\ y = B + Len(p)
    OBVIOUS
<1>1. Len(s) \in Nat /\ x \in Int /\ y \in Int
    BY <1>0, <1>x, LenProperties DEF Path, P
<1>2. \A i \in x..y : s[i] \in Fragment
    <2>1. \A i \in x..y : i \in 1..Len(s)
        BY <1>0, <1>x, <1>1 DEF P
    <2>2. QED BY <2>1, ElementOfSeq DEF Path
<1>3. /\ SubSeq(s, x, y) \in Seq(Fragment)
      /\ Len(SubSeq(s, x, y)) = IF x <= y THEN y - x + 1 ELSE 0
      /\ \A i \in 1..y - x + 1 : SubSeq(s, x, y)[i] = s[x + i - 1]
    BY <1>1, <1>2, SubSeqProperties
<1>4. Len(SubSeq(s, x, y)) = P
    BY <1>0, <1>x, <1>3 DEF P
<1>5. ASSUME NEW i \in 1..P PROVE SubSeq(s, x, y)[i] = p[i]
    <2>1. i \in 1..y - x + 1 /\ x + i - 1 = B + i
        BY <1>0, <1>x DEF P
    <2>2. SubSeq(s, x, y)[i] = s[x + i - 1]
        BY <1>3, <2>1
    <2>3. QED BY <1>0, <1>x, <2>1, <2>2
<1>6. SubSeq(s, x, y) = p
    BY <1>3, <1>4, <1>5, SeqEqual DEF Path, P
<1>7. QED BY <1>x, <1>6

\* The scanner of maps finds the path behind the other fields.
LEMMA MapsPathFound ==
    ASSUME NEW b \in Path, NEW p \in Path, NEW r \in Path,
           NEW s \in Path, s = (b \o p) \o r,
           NEW B \in Nat, B = Len(b), NEW P \in Nat, P = Len(p), NEW E \in Nat, E = Len(r),
           LineStart(b), Blankless(p), IsAbsolute(p)
    PROVE  /\ P > 0 /\ B + 1 \in PathStart(s)
           /\ \A i \in PathStart(s) : i \in Nat /\ B + 1 <= i
<1>1. /\ Len(s) = B + P + E
      /\ \A i \in 1..B : s[i] = b[i]
      /\ \A i \in 1..P : s[B + i] = p[i]
      /\ DOMAIN s = 1..B + P + E /\ DOMAIN b = 1..B
    BY ThreeParts, LenProperties DEF Path
<1>2. P > 0 /\ s[B + 1] = Slash
    BY <1>1, EmptySeq DEF IsAbsolute, Path
<1>3. Slash \notin Blanks
    BY ProcAssumption
<1>4. \A i \in 1..B + 1 : BlankAt(s, i) <=> BlankAt(b, i)
    <2>1. ASSUME NEW i \in 1..B PROVE BlankAt(s, i) <=> BlankAt(b, i)
        <3>1. i \in 1..B + P + E
            OBVIOUS
        <3>2. QED BY <1>1, <3>1 DEF BlankAt
    <2>2. ~BlankAt(s, B + 1) /\ ~BlankAt(b, B + 1)
        BY <1>1, <1>2, <1>3 DEF BlankAt
    <2>3. QED BY <2>1, <2>2
<1>5. ASSUME NEW i \in 1..B + 1
      PROVE  /\ FieldStart(s, i) <=> FieldStart(b, i)
             /\ FieldsBefore(s, i) = FieldsBefore(b, i)
    <2>1. i # 1 => i - 1 \in 1..B + 1
        OBVIOUS
    <2>2. \A j \in 1..i - 1 : j \in 1..B + 1 /\ j + 1 \in 1..B + 1
        OBVIOUS
    <2>3. {j \in 1..i - 1 : ~BlankAt(s, j) /\ BlankAt(s, j + 1)}
              = {j \in 1..i - 1 : ~BlankAt(b, j) /\ BlankAt(b, j + 1)}
        BY <1>4, <2>2
    <2>4. QED BY <1>4, <2>1, <2>3 DEF FieldStart, FieldsBefore
<1>6. B + 1 \in PathStart(s)
    <2>1. B + 1 \in 1..B + 1 /\ B + 1 \in 1..B + P + E
        BY <1>2
    <2>2. FieldStart(b, B + 1) /\ FieldsBefore(b, B + 1) >= Fields
        BY DEF LineStart
    <2>3. QED BY <1>1, <1>2, <1>5, <2>1, <2>2 DEF PathStart
<1>7. ASSUME NEW i \in PathStart(s) PROVE i \in Nat /\ B + 1 <= i
    <2>1. i \in 1..B + P + E /\ s[i] = Slash /\ FieldStart(s, i) /\ FieldsBefore(s, i) >= Fields
        BY <1>1 DEF PathStart
    <2>2. SUFFICES ASSUME i <= B PROVE FALSE
        BY <2>1
    <2>3. i \in 1..B /\ i \in 1..B + 1
        BY <2>1, <2>2
    <2>4. b[i] = Slash /\ FieldStart(b, i) /\ FieldsBefore(b, i) >= Fields
        BY <1>1, <1>5, <2>1, <2>3
    <2>5. i \in DOMAIN b
        BY <1>1, <2>3
    <2>6. QED BY <2>4, <2>5 DEF LineStart
<1>8. QED BY <1>2, <1>6, <1>7

\* In a line of maps the path is shown as Shown does, and the rest stays.
LEMMA MapsLineShows ==
    ASSUME NEW b \in Path, NEW p \in Path, NEW r \in Path,
           LineStart(b), LineEnd(r), Blankless(p), IsAbsolute(p)
    PROVE  MapsLine((b \o p) \o r) = (b \o Shown(p)) \o r
<1>1. PICK B \in Nat, P \in Nat, E \in Nat : B = Len(b) /\ P = Len(p) /\ E = Len(r)
    BY LenProperties DEF Path
<1>2. PICK s \in Path : s = (b \o p) \o r
    BY PathConcat
<1>3. /\ Len(s) = B + P + E
      /\ \A i \in 1..P : s[B + i] = p[i]
      /\ \A i \in 1..E : s[B + P + i] = r[i]
      /\ SubSeq(s, 1, B) = b /\ SubSeq(s, B + 1, B + P) = p /\ Drop(s, B + P) = r
    <2>1. s = (b \o p) \o r /\ B = Len(b) /\ P = Len(p) /\ E = Len(r)
        BY <1>1, <1>2
    <2>2. /\ Len(s) = B + P + E
          /\ \A i \in 1..B : s[i] = b[i]
          /\ \A i \in 1..P : s[B + i] = p[i]
          /\ \A i \in 1..E : s[B + P + i] = r[i]
        BY <2>1, ThreeParts
    <2>3. SubSeq(s, 1, B) = b
        <3>1. PICK n \in Nat : n = 0
            OBVIOUS
        <3>2. PartAt(s, n, b)
            BY <1>1, <2>2, <3>1 DEF PartAt
        <3>3. SubSeq(s, n + 1, n + Len(b)) = b
            BY <3>2, Cut
        <3>4. QED BY <1>1, <3>1, <3>3
    <2>4. SubSeq(s, B + 1, B + P) = p
        <3>1. PartAt(s, B, p)
            BY <1>1, <2>2 DEF PartAt
        <3>2. SubSeq(s, B + 1, B + Len(p)) = p
            BY <3>1, Cut
        <3>3. QED BY <1>1, <3>2
    <2>5. Drop(s, B + P) = r
        <3>1. PICK n \in Nat : n = B + P
            OBVIOUS
        <3>2. PartAt(s, n, r) /\ Len(s) = n + Len(r)
            BY <1>1, <2>2, <3>1 DEF PartAt
        <3>3. SubSeq(s, n + 1, n + Len(r)) = r
            BY <3>2, Cut
        <3>4. QED BY <3>1, <3>2, <3>3 DEF Drop
    <2>6. QED BY <2>2, <2>3, <2>4, <2>5
<1>4. P > 0 /\ B + 1 \in PathStart(s) /\ \A i \in PathStart(s) : i \in Nat /\ B + 1 <= i
    BY <1>1, <1>2, MapsPathFound
<1> DEFINE I == CHOOSE i \in PathStart(s) : \A j \in PathStart(s) : i <= j
           X == CHOOSE e \in I..Len(s) : /\ e = Len(s) \/ BlankAt(s, e + 1)
                                        /\ \A j \in I..e : ~BlankAt(s, j)
<1>12. MapsLine(s) = SubSeq(s, 1, I - 1) \o Shown(SubSeq(s, I, X)) \o Drop(s, X)
    <2>1. PathStart(s) # {}
        BY <1>4
    <2>2. QED BY <2>1 DEF MapsLine
<1> HIDE DEF X
<1>5. I = B + 1
    <2>1. ASSUME NEW i \in PathStart(s), \A j \in PathStart(s) : i <= j
          PROVE  i = B + 1
        BY <1>4, <2>1
    <2>2. \A j \in PathStart(s) : B + 1 <= j
        BY <1>4
    <2>3. QED BY <1>4, <2>1, <2>2
<1> HIDE DEF I
<1> DEFINE Ends(e) == /\ e = Len(s) \/ BlankAt(s, e + 1)
                      /\ \A j \in B + 1..e : ~BlankAt(s, j)
<1>6. /\ DOMAIN s = 1..B + P + E /\ DOMAIN p = 1..P /\ DOMAIN r = 1..E
    BY <1>1, <1>3, LenProperties DEF Path
<1>7. \A j \in B + 1..B + P : ~BlankAt(s, j)
    <2>1. ASSUME NEW j \in B + 1..B + P PROVE ~BlankAt(s, j)
        <3>1. j - B \in 1..P /\ B + (j - B) = j
            OBVIOUS
        <3>2. ~BlankAt(p, j - B)
            BY <1>6, <3>1 DEF Blankless
        <3>3. s[j] = p[j - B]
            BY <1>3, <3>1
        <3>4. QED BY <1>6, <3>1, <3>2, <3>3 DEF BlankAt
    <2>2. QED BY <2>1
<1>8. E > 0 => BlankAt(s, B + P + 1)
    <2>1. SUFFICES ASSUME E > 0 PROVE BlankAt(s, B + P + 1)
        OBVIOUS
    <2>2. BlankAt(r, 1) /\ 1 \in 1..E
        BY <1>1, <2>1 DEF LineEnd, FieldEnd
    <2>3. s[B + P + 1] = r[1] /\ B + P + 1 \in 1..B + P + E
        BY <1>3, <2>2
    <2>4. QED BY <1>6, <2>2, <2>3 DEF BlankAt
<1>9. X = B + P
    <2>1. B + P \in B + 1..Len(s) /\ Ends(B + P)
        <3>1. B + P \in B + 1..Len(s) /\ (E = 0 => B + P = Len(s))
            BY <1>3, <1>4
        <3>2. QED BY <1>7, <1>8, <3>1
    <2>2. ASSUME NEW e \in B + 1..Len(s), Ends(e) PROVE e = B + P
        <3>1. ~(e < B + P)
            <4>1. SUFFICES ASSUME e < B + P PROVE FALSE
                OBVIOUS
            <4>2. e # Len(s) /\ e + 1 \in B + 1..B + P
                BY <1>3, <4>1
            <4>3. QED BY <1>7, <2>2, <4>2
        <3>2. ~(e > B + P)
            <4>1. SUFFICES ASSUME e > B + P PROVE FALSE
                OBVIOUS
            <4>2. B + P + 1 \in B + 1..e /\ E > 0
                BY <1>3, <4>1
            <4>3. QED BY <1>8, <2>2, <4>2
        <3>3. QED BY <1>3, <3>1, <3>2
    <2>3. X = CHOOSE e \in B + 1..Len(s) : Ends(e)
        BY <1>5 DEF X
    <2> HIDE DEF Ends
    <2>4. QED BY <2>1, <2>2, <2>3
<1>10. B + 1 - 1 = B
    OBVIOUS
<1>11. SubSeq(s, 1, I - 1) = b /\ SubSeq(s, I, X) = p /\ Drop(s, X) = r
    BY <1>3, <1>5, <1>9, <1>10
<1>13. QED BY <1>2, <1>11, <1>12
LEMMA ShownTyped ==
    ASSUME NEW p \in Path
    PROVE  Shown(p) \in Path
<1>1. CASE Rootfs = <<>> \/ ~Under(Rootfs, p)
    BY <1>1 DEF Shown
<1>2. CASE Under(Rootfs, p)
    <2>1. Len(Rootfs) \in Nat /\ Len(p) \in Nat /\ Len(Rootfs) <= Len(p)
        BY <1>2, PathAssumption, PrefixAndRest, LenProperties DEF Under, Path
    <2>2. Drop(p, Len(Rootfs)) \in Path /\ <<Slash>> \in Path
        BY <2>1, DropTyped, PathAssumption DEF Path
    <2>3. QED BY <2>2 DEF Shown
<1>3. QED BY <1>1, <1>2

\* The scanners of mountinfo and maps keep all but the paths they rewrite, if
\* the rootfs has no blank in its name (lib.rs:656-712, 873-901): one with a
\* blank could begin in one field of mountinfo and end in the next.
THEOREM AlwaysKeepShape ==
    ASSUME Blankless(Rootfs)
    PROVE  Spec => []ScannersKeepShape
<1>1. ASSUME path \in Path
      PROVE  ScannersKeepShape
    <2>1. ASSUME NEW t \in After
          PROVE  ShowsEachField(path \o t)
        <3>1. t \in Path
            BY TrialsAssumption
        <3>2. PICK s \in Path : s = path \o t
            BY <1>1, <3>1, PathConcat
        <3>3. QED BY <3>2, EachFieldShown
    <2>2. ASSUME NEW b \in Before, NEW t \in After
          PROVE  ShowsOnlyThePath(b, path, t)
        <3>1. b \in Path /\ t \in Path
            BY TrialsAssumption
        <3>2. QED BY <1>1, <3>1, MapsLineShows DEF ShowsOnlyThePath
    <2>3. QED BY <2>1, <2>2 DEF ScannersKeepShape
<1>2. QED BY <1>1, EveryTrial, PTL

\* Four scanners, one result.
LEMMA ScannersAsShown ==
    ASSUME NEW b \in Path, NEW p \in Path
    PROVE  ReadersAgree(b, p)
<1> SUFFICES ASSUME LineStart(b), IsAbsolute(p), Blankless(p),
                    IsPrefix(Rootfs, p) => Under(Rootfs, p)
             PROVE  Cardinality({StripRootfs(p), Cmdline(<<p>>)[1], Mountinfo(p),
                                 Drop(MapsLine(b \o p), Len(b))}) = 1
    BY DEF ReadersAgree
<1>1. StripRootfs(p) = Shown(p)
    BY DEF StripRootfs, Shown, Under
<1>2. Cmdline(<<p>>)[1] = Shown(p)
    <2>1. DOMAIN <<p>> = {1} /\ <<p>>[1] = p
        OBVIOUS
    <2>2. QED BY <2>1 DEF Cmdline
<1>3. Mountinfo(p) = Shown(p)
    BY MountinfoOfField
<1>4. Drop(MapsLine(b \o p), Len(b)) = Shown(p)
    <2>1. <<>> \in Path /\ LineEnd(<<>>)
        BY EmptySeq DEF Path, LineEnd, FieldEnd
    <2>2. b \o p \in Path /\ Shown(p) \in Path /\ b \o Shown(p) \in Path
        BY ShownTyped, PathConcat
    <2>3. MapsLine((b \o p) \o <<>>) = (b \o Shown(p)) \o <<>>
        BY <2>1, MapsLineShows
    <2>4. (b \o p) \o <<>> = b \o p /\ (b \o Shown(p)) \o <<>> = b \o Shown(p)
        BY <2>2, ConcatEmptySeq DEF Path
    <2>5. Drop(b \o Shown(p), Len(b)) = Shown(p)
        BY <2>2, DropOfConcat
    <2>6. QED BY <2>3, <2>4, <2>5
<1>5. {StripRootfs(p), Cmdline(<<p>>)[1], Mountinfo(p), Drop(MapsLine(b \o p), Len(b))} = {Shown(p)}
    BY <1>1, <1>2, <1>3, <1>4
<1>6. QED BY <1>5, FS_Singleton

\* readlink, cmdline, mountinfo and maps show the guest one name of one path
\* (lib.rs:693-704, 816-829, 876-896, 1262-1272).
THEOREM AlwaysAgreeInProc == Spec => []ScannersAgree
<1>1. ASSUME path \in Path
      PROVE  ScannersAgree
    <2>1. \A b \in Before : b \in Path
        BY TrialsAssumption
    <2>2. QED BY <1>1, <2>1, ScannersAsShown DEF ScannersAgree
<1>2. QED BY <1>1, EveryTrial, PTL

(***************************************************************************)
(* The command line                                                        *)
(***************************************************************************)

\* What parse_args has read at argument i if g is what it had before.
ReadAt(args_, i, g) == IF i = 0 THEN NoArgs ELSE TakeArg(g[i - 1], args_[i])

LEMMA ReadingsExist ==
    ASSUME NEW a, NEW L \in Nat, L = Len(a)
    PROVE  \E g : g = [i \in 0..L |-> ReadAt(a, i, g)]
<1> DEFINE T == {n \in Nat : \E g : g = [i \in 0..n |-> ReadAt(a, i, g)]}
<1>1. 0 \in T
    <2> DEFINE g == [i \in 0..0 |-> NoArgs]
    <2>1. \A i \in 0..0 : ReadAt(a, i, g) = NoArgs
        BY DEF ReadAt
    <2>2. g = [i \in 0..0 |-> ReadAt(a, i, g)]
        BY <2>1
    <2> HIDE DEF g
    <2>3. QED BY <2>2
<1>2. ASSUME NEW n \in Nat, n \in T PROVE n + 1 \in T
    <2>1. PICK g : g = [i \in 0..n |-> ReadAt(a, i, g)]
        BY <1>2
    <2> DEFINE h == [i \in 0..n + 1 |-> IF i = n + 1 THEN ReadAt(a, n + 1, g) ELSE g[i]]
    <2>2. \A i \in 0..n : h[i] = g[i] /\ g[i] = ReadAt(a, i, g)
        BY <2>1
    <2>3. h[n + 1] = ReadAt(a, n + 1, g)
        OBVIOUS
    <2>4. h = [i \in 0..n + 1 |-> h[i]]
        OBVIOUS
    <2> HIDE DEF h
    <2>5. ASSUME NEW i \in 0..n + 1 PROVE h[i] = ReadAt(a, i, h)
        <3>1. i # 0 => i - 1 \in 0..n
            OBVIOUS
        <3>2. ReadAt(a, i, g) = ReadAt(a, i, h)
            BY <2>2, <3>1 DEF ReadAt
        <3>3. i = n + 1 \/ i \in 0..n
            OBVIOUS
        <3>4. QED BY <2>2, <2>3, <3>2, <3>3
    <2>6. h = [i \in 0..n + 1 |-> ReadAt(a, i, h)]
        BY <2>4, <2>5
    <2>7. QED BY <2>6
<1> HIDE DEF T
<1>3. L \in T
    BY <1>1, <1>2, SetInduction
<1>4. QED BY <1>3 DEF T

LEMMA ReadingsIs ==
    ASSUME NEW a, NEW L \in Nat, L = Len(a)
    PROVE  /\ Readings(a)[0] = NoArgs
           /\ \A n \in 1..L : Readings(a)[n] = TakeArg(Readings(a)[n - 1], a[n])
<1> DEFINE m == Readings(a)
<1>1. m = CHOOSE g : g = [i \in 0..L |-> ReadAt(a, i, g)]
    BY DEF Readings, ReadAt
<1> HIDE DEF m
<1>2. m = [i \in 0..L |-> ReadAt(a, i, m)]
    BY <1>1, ReadingsExist
<1>3. \A i \in 0..L : m[i] = ReadAt(a, i, m)
    BY <1>2
<1>4. m[0] = NoArgs
    BY <1>3 DEF ReadAt
<1>5. ASSUME NEW n \in 1..L PROVE m[n] = TakeArg(m[n - 1], a[n])
    <2>1. n \in 0..L /\ n # 0
        OBVIOUS
    <2>2. QED BY <1>3, <2>1 DEF ReadAt
<1>6. QED BY <1>4, <1>5 DEF m

\* What is read of the first arguments does not depend on the later ones.
LEMMA ReadingsOfFront ==
    ASSUME NEW a, NEW b, NEW L \in Nat, L = Len(a), NEW K \in Nat, K = Len(b), K <= L,
           \A i \in 1..K : b[i] = a[i]
    PROVE  \A i \in 0..K : Readings(b)[i] = Readings(a)[i]
<1> DEFINE T == {n \in Nat : n <= K => Readings(b)[n] = Readings(a)[n]}
<1>1. 0 \in T
    BY ReadingsIs
<1>2. ASSUME NEW n \in Nat, n \in T PROVE n + 1 \in T
    <2> SUFFICES ASSUME n + 1 <= K PROVE Readings(b)[n + 1] = Readings(a)[n + 1]
        OBVIOUS
    <2>1. n + 1 \in 1..K /\ n + 1 \in 1..L /\ n + 1 - 1 = n
        OBVIOUS
    <2>2. Readings(b)[n] = Readings(a)[n]
        BY <1>2, <2>1
    <2>3. Readings(b)[n + 1] = TakeArg(Readings(b)[n + 1 - 1], b[n + 1])
        BY <2>1, ReadingsIs
    <2>4. Readings(a)[n + 1] = TakeArg(Readings(a)[n + 1 - 1], a[n + 1])
        BY <2>1, ReadingsIs
    <2>5. QED BY <2>1, <2>2, <2>3, <2>4
<1> HIDE DEF T
<1>3. Nat \subseteq T
    BY <1>1, <1>2, SetInduction
<1>4. QED BY <1>3 DEF T

ArgFields == {"reading", "pending", "rootfs", "binds", "set", "command"}

\* No part of the command has been read.
NotYet(a) ==
    /\ DOMAIN a = ArgFields
    /\ a.reading \in {"option", "value", "positional", "quit"} /\ a.command = <<>>

\* b is a with arg for the beginning of the command.
Begins(a, arg, b) ==
    /\ DOMAIN b = ArgFields
    /\ a.reading \in {"option", "positional"} /\ a.rootfs # <<>>
    /\ b.reading = "command" /\ b.command = <<arg>>
    /\ <<a.rootfs, a.binds, a.set>> = <<b.rootfs, b.binds, b.set>>

LEMMA PositionalBegins ==
    ASSUME NEW a, NEW arg, NotYet(a), a.reading \in {"option", "positional"}
    PROVE  NotYet(Positional(a, arg)) \/ Begins(a, arg, Positional(a, arg))
<1>1. CASE a.rootfs = <<>>
    BY <1>1 DEF Positional, NotYet, ArgFields
<1>2. CASE a.rootfs # <<>>
    <2>1. Positional(a, arg) = [a EXCEPT !.command = <<arg>>, !.reading = "command"]
        BY <1>2 DEF Positional
    <2>2. QED BY <1>2, <2>1 DEF Begins, NotYet, ArgFields
<1>3. QED BY <1>1, <1>2

LEMMA ValueBefore ==
    ASSUME NEW a, NEW arg, NotYet(a)
    PROVE  NotYet(Value(a, arg))
<1>1. CASE a.pending = "-r"
    BY <1>1 DEF Value, NotYet, ArgFields
<1>2. CASE a.pending = "-b"
    BY <1>2 DEF Value, NotYet, ArgFields
<1>3. CASE a.pending \notin {"-r", "-b"}
    <2>1. PICK set : set = {o \in a.set : o[1] # a.pending} \cup {<<a.pending, arg>>}
        OBVIOUS
    <2>2. Value(a, arg) = [a EXCEPT !.set = set, !.reading = "option"]
        BY <1>3, <2>1 DEF Value
    <2>3. QED BY <2>2 DEF NotYet, ArgFields
<1>4. QED BY <1>1, <1>2, <1>3

LEMMA OptionBefore ==
    ASSUME NEW a, NEW arg, NotYet(a)
    PROVE  NotYet(Option(a, arg))
<1>1. CASE arg = <<"--">>
    <2>1. Option(a, arg) = [a EXCEPT !.reading = "positional"]
        <3>1. Len(arg) = 1 /\ arg[1] = "--" /\ "--" \notin Valued /\ "--" \notin Simple
            BY <1>1 DEF Valued, Simple
        <3>2. QED BY <1>1, <3>1 DEF Option
    <2>2. QED BY <2>1 DEF NotYet, ArgFields
<1>2. CASE arg # <<"--">> /\ Len(arg) = 1 /\ arg[1] \in Valued
    <2>1. PICK o : o = arg[1]
        OBVIOUS
    <2>2. Option(a, arg) = [a EXCEPT !.pending = o, !.reading = "value"]
        <3>1. arg[1] \notin Simple
            BY <1>2 DEF Valued, Simple
        <3>2. QED BY <1>2, <2>1, <3>1 DEF Option
    <2>3. QED BY <2>2 DEF NotYet, ArgFields
<1>3. CASE arg # <<"--">> /\ ~(Len(arg) = 1 /\ arg[1] \in Valued) /\ Len(arg) = 1 /\ arg[1] \in Simple
    <2>1. PICK set : set = a.set \cup {arg}
        OBVIOUS
    <2>2. Option(a, arg) = [a EXCEPT !.set = set]
        BY <1>3, <2>1 DEF Option
    <2>3. QED BY <2>2 DEF NotYet, ArgFields
<1>4. CASE /\ arg # <<"--">> /\ ~(Len(arg) = 1 /\ arg[1] \in Valued)
           /\ ~(Len(arg) = 1 /\ arg[1] \in Simple)
    <2>1. Option(a, arg) = [a EXCEPT !.reading = "quit"]
        BY <1>4 DEF Option
    <2>2. QED BY <2>1 DEF NotYet, ArgFields
<1>5. QED BY <1>1, <1>2, <1>3, <1>4

LEMMA TakeArgBefore ==
    ASSUME NEW a, NEW arg, NotYet(a)
    PROVE  NotYet(TakeArg(a, arg)) \/ Begins(a, arg, TakeArg(a, arg))
<1>1. CASE a.reading = "quit"
    BY <1>1 DEF TakeArg
<1>2. CASE a.reading = "value"
    BY <1>2, ValueBefore DEF TakeArg
<1>3. CASE a.reading = "option" /\ arg # <<>> /\ arg[1] \in Dashed
    BY <1>3, OptionBefore DEF TakeArg
<1>4. CASE /\ a.reading \in {"option", "positional"}
           /\ ~(a.reading = "option" /\ arg # <<>> /\ arg[1] \in Dashed)
    BY <1>4, PositionalBegins DEF TakeArg
<1>5. QED BY <1>1, <1>2, <1>3, <1>4 DEF NotYet

LEMMA TakeArgAfter ==
    ASSUME NEW a, NEW arg, DOMAIN a = ArgFields, a.reading = "command"
    PROVE  LET b == TakeArg(a, arg)
           IN  /\ DOMAIN b = ArgFields /\ b.reading = "command" /\ b.command = Append(a.command, arg)
               /\ <<a.rootfs, a.binds, a.set>> = <<b.rootfs, b.binds, b.set>>
<1>1. TakeArg(a, arg) = [a EXCEPT !.command = Append(@, arg)]
    BY DEF TakeArg
<1>2. QED BY <1>1 DEF ArgFields

LEMMA SubSeqGrows ==
    ASSUME NEW S, NEW a \in Seq(S), NEW m \in Nat, NEW n \in Nat,
           m > 0, m <= n + 1, n + 1 <= Len(a)
    PROVE  SubSeq(a, m, n + 1) = Append(SubSeq(a, m, n), a[n + 1])
<1>1. PICK N \in Nat : N = n + 1
    OBVIOUS
<1>2. m \in 1..Len(a) /\ N \in m..Len(a) /\ N - 1 = n
    BY <1>1, LenProperties
<1>3. SubSeq(a, m, N) = SubSeq(a, m, n) \o <<a[N]>>
    BY <1>2, SubSeqRecursiveSecond
<1>4. SubSeq(a, m, n) \in Seq(S) /\ a[N] \in S
    <2>1. Len(a) \in Nat /\ \A i \in m..n : i \in 1..Len(a)
        BY LenProperties
    <2>2. \A i \in m..n : a[i] \in S
        BY <2>1, ElementOfSeq
    <2>3. SubSeq(a, m, n) \in Seq(S)
        BY <2>2, SubSeqProperties
    <2>4. N \in 1..Len(a)
        BY <1>2, <2>1
    <2>5. QED BY <2>3, <2>4, ElementOfSeq
<1>5. SubSeq(a, m, n) \o <<a[N]>> = Append(SubSeq(a, m, n), a[N])
    BY <1>4, AppendIsConcat
<1>6. QED BY <1>1, <1>3, <1>5

LEMMA SubSeqOfOne ==
    ASSUME NEW S, NEW a \in Seq(S), NEW n \in Nat, n < Len(a)
    PROVE  SubSeq(a, n + 1, n + 1) = <<a[n + 1]>>
<1>1. PICK N \in Nat : N = n + 1
    OBVIOUS
<1>2. Len(a) \in Nat /\ N \in 1..Len(a) /\ N - 1 = n
    BY <1>1, LenProperties
<1>3. a[N] \in S
    BY <1>2, ElementOfSeq
<1>4. SubSeq(a, N, n) = <<>>
    BY <1>1, SubSeqEmpty
<1>5. SubSeq(a, N, N) = SubSeq(a, N, n) \o <<a[N]>>
    <2>1. N \in N..Len(a)
        BY <1>2
    <2>2. QED BY <1>2, <2>1, SubSeqRecursiveSecond
<1>6. <<>> \o <<a[N]>> = <<a[N]>>
    BY <1>3, ConcatEmptySeq
<1>7. QED BY <1>1, <1>4, <1>5, <1>6

\* After n arguments the command has begun behind k of them.
CommandFrom(a, k, n) ==
    LET b == Readings(a)[k]
        c == Readings(a)[n]
    IN  /\ NotYet(b) /\ b.reading \in {"option", "positional"} /\ b.rootfs # <<>>
        /\ DOMAIN c = ArgFields /\ c.reading = "command" /\ c.command = SubSeq(a, k + 1, n)
        /\ <<b.rootfs, b.binds, b.set>> = <<c.rootfs, c.binds, c.set>>

LEMMA CommandGrows ==
    ASSUME NEW a \in Seq(Path), NEW L \in Nat, L = Len(a)
    PROVE  \A n \in 0..L :
               NotYet(Readings(a)[n]) \/ \E k \in 0..L : k < n /\ CommandFrom(a, k, n)
<1> DEFINE m == Readings(a)
           Inv(n) == NotYet(m[n]) \/ \E k \in 0..L : k < n /\ CommandFrom(a, k, n)
           T == {n \in Nat : n <= L => Inv(n)}
<1>1. Inv(0)
    BY ReadingsIs DEF NoArgs, NotYet, ArgFields
<1>2. ASSUME NEW n \in Nat, n + 1 <= L, Inv(n) PROVE Inv(n + 1)
    <2>1. n \in 0..L /\ n + 1 \in 1..L /\ n + 1 - 1 = n
        <3> HIDE DEF m, Inv, T
        <3>1. QED BY <1>2
    <2>2. m[n + 1] = TakeArg(m[n], a[n + 1])
        BY <2>1, ReadingsIs
    <2>3. PICK b, c, x : b = m[n] /\ c = m[n + 1] /\ x = a[n + 1] /\ c = TakeArg(b, x)
        BY <2>2
    <2>4. CASE NotYet(m[n])
        <3>1. NotYet(c) \/ Begins(b, x, c)
            BY <2>3, <2>4, TakeArgBefore
        <3>2. CASE Begins(b, x, c)
            <4>1. c.command = SubSeq(a, n + 1, n + 1)
                BY <2>1, <2>3, <3>2, SubSeqOfOne DEF Begins
            <4>2. CommandFrom(a, n, n + 1)
                BY <2>3, <2>4, <3>2, <4>1 DEF CommandFrom, Begins
            <4>3. QED BY <2>1, <4>2
        <3>3. QED BY <2>3, <3>1, <3>2
    <2>5. CASE \E k \in 0..L : k < n /\ CommandFrom(a, k, n)
        <3>1. PICK k \in 0..L : k < n /\ CommandFrom(a, k, n)
            BY <2>5
        <3>2. /\ DOMAIN c = ArgFields /\ c.reading = "command" /\ c.command = Append(b.command, x)
              /\ <<b.rootfs, b.binds, b.set>> = <<c.rootfs, c.binds, c.set>>
            <4>1. DOMAIN b = ArgFields /\ b.reading = "command"
                BY <2>3, <3>1 DEF CommandFrom
            <4>2. LET d == TakeArg(b, x)
                  IN  /\ DOMAIN d = ArgFields /\ d.reading = "command"
                      /\ d.command = Append(b.command, x)
                      /\ <<b.rootfs, b.binds, b.set>> = <<d.rootfs, d.binds, d.set>>
                BY <4>1, TakeArgAfter
            <4>3. QED BY <2>3, <4>2
        <3>3. b.command = SubSeq(a, k + 1, n)
            BY <2>3, <3>1 DEF CommandFrom
        <3>4. Append(SubSeq(a, k + 1, n), x) = SubSeq(a, k + 1, n + 1)
            <4>1. PICK j \in Nat : j = k + 1
                OBVIOUS
            <4>2. j > 0 /\ j <= n + 1 /\ n + 1 <= Len(a)
                BY <1>2, <3>1, <4>1
            <4>3. SubSeq(a, j, n + 1) = Append(SubSeq(a, j, n), a[n + 1])
                BY <4>2, SubSeqGrows
            <4>4. QED BY <2>3, <4>1, <4>3
        <3>5. c.command = SubSeq(a, k + 1, n + 1)
            BY <3>2, <3>3, <3>4
        <3>6. CommandFrom(a, k, n + 1)
            BY <2>3, <3>1, <3>2, <3>5 DEF CommandFrom
        <3>7. k < n + 1
            BY <3>1
        <3>8. QED BY <3>6, <3>7
    <2>6. QED BY <1>2, <2>4, <2>5
<1>3. 0 \in T
    BY <1>1
<1>4. ASSUME NEW n \in Nat, n \in T PROVE n + 1 \in T
    <2> SUFFICES ASSUME n + 1 <= L PROVE Inv(n + 1)
        OBVIOUS
    <2>1. n <= L
        OBVIOUS
    <2>2. Inv(n)
        BY <1>4, <2>1
    <2> HIDE DEF Inv
    <2>3. QED BY <1>2, <2>2
<1> HIDE DEF Inv, T
<1>5. Nat \subseteq T
    BY <1>3, <1>4, SetInduction
<1>6. \A n \in 0..L : Inv(n)
    BY <1>5 DEF T
<1>7. QED BY <1>6 DEF Inv

\* The command line ends in the command.
LEMMA CommandLineEnds ==
    ASSUME NEW a \in Seq(Path)
    PROVE  CommandIsRest(a)
<1>1. PICK L \in Nat : L = Len(a)
    BY LenProperties
<1>2. PICK r : r = Readings(a)[L]
    OBVIOUS
<1>3. NotYet(r) \/ \E k \in 0..L : k < L /\ CommandFrom(a, k, L)
    <2>1. L \in 0..L
        OBVIOUS
    <2>2. QED BY <1>1, <1>2, <2>1, CommandGrows
<1>4. DOMAIN r = ArgFields
    BY <1>2, <1>3 DEF NotYet, CommandFrom
<1>5. ParseArgs(a) = IF r.reading \in {"value", "quit"} \/ r.rootfs = <<>>
                     THEN [r EXCEPT !.reading = "quit"]
                     ELSE IF r.command = <<>> THEN [r EXCEPT !.command = <<Shell>>] ELSE r
    BY <1>1, <1>2 DEF ParseArgs
<1> SUFFICES ASSUME ParseArgs(a).reading # "quit"
             PROVE  \E n \in 0..Len(a) :
                        /\ ParseArgs(a).command = IF n = Len(a) THEN <<Shell>> ELSE Drop(a, n)
                        /\ ParseArgs(SubSeq(a, 1, n)).reading # "quit"
                        /\ <<ParseArgs(SubSeq(a, 1, n)).rootfs, ParseArgs(SubSeq(a, 1, n)).binds,
                             ParseArgs(SubSeq(a, 1, n)).set>>
                               = <<ParseArgs(a).rootfs, ParseArgs(a).binds, ParseArgs(a).set>>
    BY DEF CommandIsRest
<1>6. r.reading \notin {"value", "quit"} /\ r.rootfs # <<>>
    BY <1>4, <1>5 DEF ArgFields
<1>7. CASE NotYet(r)
    <2>1. ParseArgs(a) = [r EXCEPT !.command = <<Shell>>]
        BY <1>5, <1>6, <1>7 DEF NotYet
    <2>2. ParseArgs(a).command = <<Shell>>
        BY <1>4, <2>1 DEF ArgFields
    <2>3. SubSeq(a, 1, L) = a
        BY <1>1, SubSeqFull
    <2>4. L \in 0..Len(a) /\ L = Len(a)
        BY <1>1
    <2>5. QED BY <2>2, <2>3, <2>4
<1>8. CASE \E k \in 0..L : k < L /\ CommandFrom(a, k, L)
    <2>1. PICK k \in 0..L : k < L /\ CommandFrom(a, k, L)
        BY <1>8
    <2>2. PICK b : b = Readings(a)[k]
        OBVIOUS
    <2>3. /\ DOMAIN b = ArgFields /\ b.reading \in {"option", "positional"} /\ b.rootfs # <<>>
          /\ b.command = <<>> /\ r.command = SubSeq(a, k + 1, L)
          /\ <<b.rootfs, b.binds, b.set>> = <<r.rootfs, r.binds, r.set>>
        BY <1>2, <2>1, <2>2 DEF CommandFrom, NotYet
    <2>4. r.command # <<>>
        <3>1. \A i \in k + 1..L : i \in 1..Len(a)
            BY <1>1
        <3>2. \A i \in k + 1..L : a[i] \in Path
            BY <3>1, ElementOfSeq
        <3>3. Len(SubSeq(a, k + 1, L)) = IF k + 1 <= L THEN L - (k + 1) + 1 ELSE 0
            BY <3>2, SubSeqProperties
        <3>4. Len(r.command) # 0
            BY <2>1, <2>3, <3>3
        <3>5. QED BY <3>4
    <2>5. ParseArgs(a) = r
        BY <1>5, <1>6, <2>4
    <2>6. PICK f : f = SubSeq(a, 1, k)
        OBVIOUS
    <2>7. Len(f) = k /\ \A i \in 1..k : f[i] = a[i]
        <3>1. \A i \in 1..k : i \in 1..Len(a)
            BY <1>1
        <3>2. \A i \in 1..k : a[i] \in Path
            BY <3>1, ElementOfSeq
        <3>3. /\ Len(SubSeq(a, 1, k)) = IF 1 <= k THEN k - 1 + 1 ELSE 0
              /\ \A i \in 1..k - 1 + 1 : SubSeq(a, 1, k)[i] = a[1 + i - 1]
            BY <3>2, SubSeqProperties
        <3>4. \A i \in 1..k : i \in 1..k - 1 + 1 /\ 1 + i - 1 = i
            OBVIOUS
        <3>5. QED BY <2>6, <3>3, <3>4
    <2>8. Readings(f)[k] = b
        <3>1. k \in Nat /\ k <= L /\ k \in 0..k
            OBVIOUS
        <3>2. QED BY <1>1, <2>2, <2>7, <3>1, ReadingsOfFront
    <2>9. ParseArgs(f) = [b EXCEPT !.command = <<Shell>>]
        <3>1. b.reading \notin {"value", "quit"}
            BY <2>3
        <3>2. QED BY <2>3, <2>7, <2>8, <3>1 DEF ParseArgs
    <2>10. /\ ParseArgs(f).reading # "quit"
           /\ <<ParseArgs(f).rootfs, ParseArgs(f).binds, ParseArgs(f).set>>
                  = <<b.rootfs, b.binds, b.set>>
        BY <2>3, <2>9 DEF ArgFields
    <2>11. ParseArgs(a).command = Drop(a, k) /\ k \in 0..Len(a) /\ k # Len(a)
        BY <1>1, <2>1, <2>3, <2>5 DEF Drop
    <2>12. QED BY <2>3, <2>5, <2>6, <2>10, <2>11
<1>9. QED BY <1>3, <1>7, <1>8

\* No option of the command's is taken for lroot's (parse_args,
\* main.rs:195-260).
THEOREM AlwaysUntouched == Spec => []CommandUntouched
<1>1. args \in Seq(Path) => CommandUntouched
    BY CommandLineEnds DEF CommandUntouched
<1>2. QED BY <1>1, EveryTrial, PTL

(***************************************************************************)
(* LITTLE_BINDS                                                            *)
(***************************************************************************)

BindPair == [src : Path, dst : Path]

\* The text of a pair.
PairText(g) == (g.src \o <<Colon>>) \o g.dst

\* An option without semicolons is two paths without semicolons, the first
\* one without a colon.
LEMMA BindOptionParts ==
    ASSUME NEW b \in Path, \A i \in DOMAIN b : b[i] # Semicolon
    PROVE  /\ BindOption(b) \in BindPair
           /\ \A i \in 1..Len(BindOption(b).src) :
                 BindOption(b).src[i] # Colon /\ BindOption(b).src[i] # Semicolon
           /\ \A i \in 1..Len(BindOption(b).dst) : BindOption(b).dst[i] # Semicolon
<1>1. Len(b) \in Nat /\ DOMAIN b = 1..Len(b)
    BY LenProperties DEF Path
<1>2. CASE \A i \in DOMAIN b : b[i] # Colon
    <2>1. BindOption(b) = [src |-> b, dst |-> b]
        BY <1>2 DEF BindOption
    <2>2. QED BY <1>1, <1>2, <2>1 DEF BindPair
<1>3. CASE \E i \in DOMAIN b : b[i] = Colon
    <2> DEFINE I == CHOOSE i \in DOMAIN b : b[i] = Colon /\ \A j \in 1..i - 1 : b[j] # Colon
    <2>1. BindOption(b) = [src |-> SubSeq(b, 1, I - 1), dst |-> Drop(b, I)]
        BY <1>3 DEF BindOption
    <2>2. \E i \in DOMAIN b : b[i] = Colon /\ \A j \in 1..i - 1 : b[j] # Colon
        <3> DEFINE C == {i \in 1..Len(b) : b[i] = Colon}
        <3>1. C \in SUBSET Nat /\ C # {}
            BY <1>1, <1>3
        <3>2. PICK i \in C : \A j \in C : i <= j
            BY <3>1, Least
        <3>3. \A j \in 1..i - 1 : j \in 1..Len(b) /\ ~(i <= j)
            BY <1>1
        <3>4. QED BY <1>1, <3>2, <3>3
    <2>3. I \in DOMAIN b /\ b[I] = Colon /\ \A j \in 1..I - 1 : b[j] # Colon
        BY <2>2
    <2> HIDE DEF I
    <2>4. PICK n \in Nat, m \in Nat : n = I - 1 /\ m = I /\ n <= Len(b) /\ m <= Len(b)
        BY <1>1, <2>3
    <2>5. /\ SubSeq(b, 1, n) \in Path /\ Len(SubSeq(b, 1, n)) = n
          /\ \A k \in 1..n : SubSeq(b, 1, n)[k] = b[k]
        BY <2>4, FrontByIndex
    <2>6. /\ Drop(b, m) \in Path /\ Len(Drop(b, m)) = Len(b) - m
          /\ \A k \in 1..Len(b) - m : Drop(b, m)[k] = b[m + k]
        BY <2>4, DropTyped, DropByIndex
    <2>7. BindOption(b) = [src |-> SubSeq(b, 1, n), dst |-> Drop(b, m)]
        BY <2>1, <2>4
    <2>8. \A k \in 1..n : b[k] # Colon /\ b[k] # Semicolon
        <3>1. \A k \in 1..n : k \in 1..Len(b) /\ k \in 1..I - 1
            BY <1>1, <2>4
        <3>2. QED BY <1>1, <2>3, <3>1
    <2>9. \A k \in 1..Len(b) - m : b[m + k] # Semicolon
        <3>1. \A k \in 1..Len(b) - m : m + k \in 1..Len(b)
            BY <1>1, <2>4
        <3>2. QED BY <1>1, <3>1
    <2>10. BindOption(b).src = SubSeq(b, 1, n) /\ BindOption(b).dst = Drop(b, m)
        BY <2>7
    <2>11. BindOption(b) \in BindPair
        BY <2>5, <2>6, <2>7 DEF BindPair
    <2>12. QED BY <2>5, <2>6, <2>8, <2>9, <2>10, <2>11
<1>4. QED BY <1>2, <1>3

\* A pair is read as it was written.
LEMMA PairReads ==
    ASSUME NEW g \in BindPair,
           \A i \in 1..Len(g.src) : g.src[i] # Colon /\ g.src[i] # Semicolon,
           \A i \in 1..Len(g.dst) : g.dst[i] # Semicolon
    PROVE  /\ PairText(g) \in Path
           /\ HasColon(PairText(g)) /\ BindOption(PairText(g)) = g
           /\ \A i \in 1..Len(PairText(g)) : PairText(g)[i] # Semicolon
<1>1. PICK b \in Path, r \in Path : b = g.src /\ r = g.dst
    BY DEF BindPair
<1>2. PICK p \in Path : p = <<Colon>> /\ Len(p) = 1 /\ p[1] = Colon
    <2>1. <<Colon>> \in Path
        BY OptionsAssumption DEF Path
    <2>2. QED BY <2>1
<1>3. PICK B \in Nat, P \in Nat, E \in Nat : B = Len(b) /\ P = Len(p) /\ E = Len(r)
    BY LenProperties DEF Path
<1>4. PICK q \in Path : q = (b \o p) \o r
    BY PathConcat
<1>5. q = PairText(g) /\ P = 1
    BY <1>1, <1>2, <1>3, <1>4 DEF PairText
<1>6. /\ Len(q) = B + P + E
      /\ \A i \in 1..B : q[i] = b[i]
      /\ \A i \in 1..P : q[B + i] = p[i]
      /\ \A i \in 1..E : q[B + P + i] = r[i]
    BY <1>3, <1>4, ThreeParts
<1>7. DOMAIN q = 1..B + 1 + E
    BY <1>5, <1>6, LenProperties DEF Path
<1>8. q[B + 1] = Colon /\ B + 1 \in DOMAIN q
    BY <1>2, <1>5, <1>6, <1>7
<1>9. \A j \in 1..B : q[j] # Colon /\ q[j] # Semicolon
    BY <1>1, <1>3, <1>6
<1> DEFINE I == CHOOSE i \in DOMAIN q : q[i] = Colon /\ \A j \in 1..i - 1 : q[j] # Colon
<1>10. BindOption(q) = [src |-> SubSeq(q, 1, I - 1), dst |-> Drop(q, I)]
    BY <1>8 DEF BindOption
<1>11. I = B + 1
    <2>1. \A j \in 1..B + 1 - 1 : q[j] # Colon
        BY <1>9
    <2>2. I \in DOMAIN q /\ q[I] = Colon /\ \A j \in 1..I - 1 : q[j] # Colon
        BY <1>8, <2>1
    <2> HIDE DEF I
    <2>3. ~(I <= B)
        BY <1>7, <1>9, <2>2
    <2>4. ~(I > B + 1)
        <3>1. I > B + 1 => B + 1 \in 1..I - 1
            BY <1>7, <2>2
        <3>2. QED BY <1>8, <2>2, <3>1
    <2>5. QED BY <1>7, <2>2, <2>3, <2>4
<1> HIDE DEF I
<1>12. SubSeq(q, 1, I - 1) = b
    <2>1. PICK n \in Nat : n = 0
        OBVIOUS
    <2>2. PartAt(q, n, b)
        BY <1>3, <1>6, <2>1 DEF PartAt
    <2>3. SubSeq(q, n + 1, n + Len(b)) = b
        BY <2>2, Cut
    <2>4. QED BY <1>3, <1>11, <2>1, <2>3
<1>13. Drop(q, I) = r
    <2>1. PICK n \in Nat : n = B + 1
        OBVIOUS
    <2>2. PartAt(q, n, r) /\ Len(q) = n + Len(r)
        BY <1>3, <1>5, <1>6, <2>1 DEF PartAt
    <2>3. SubSeq(q, n + 1, n + Len(r)) = r
        BY <2>2, Cut
    <2>4. QED BY <1>11, <2>1, <2>2, <2>3 DEF Drop
<1>14. BindOption(q) = g
    <2>1. g = [src |-> g.src, dst |-> g.dst]
        BY DEF BindPair
    <2>2. QED BY <1>1, <1>10, <1>12, <1>13, <2>1
<1>15. ASSUME NEW i \in 1..Len(q) PROVE q[i] # Semicolon
    <2>1. CASE i <= B
        BY <1>9, <2>1
    <2>2. CASE i = B + 1
        BY <1>8, <2>2, OptionsAssumption
    <2>3. CASE i > B + 1
        <3>1. PICK k \in 1..E : i = B + P + k
            <4>1. i - (B + 1) \in 1..E /\ i = B + P + (i - (B + 1))
                BY <1>5, <1>6, <2>3
            <4>2. QED BY <4>1
        <3>2. q[i] = r[k]
            BY <1>6, <3>1
        <3>3. QED BY <1>1, <1>3, <3>2
    <2>4. QED BY <2>1, <2>2, <2>3
<1>16. HasColon(q)
    BY <1>8 DEF HasColon
<1>17. QED BY <1>5, <1>14, <1>15, <1>16

\* What is read of the variable up to byte i if g is what was before.
ByteAt(s, i, g) ==
    IF i = 0 THEN [binds |-> <<>>, pair |-> <<>>] ELSE TakeByte(g[i - 1], s[i])

LEMMA BytesExist ==
    ASSUME NEW a, NEW L \in Nat, L = Len(a)
    PROVE  \E g : g = [i \in 0..L |-> ByteAt(a, i, g)]
<1> DEFINE T == {n \in Nat : \E g : g = [i \in 0..n |-> ByteAt(a, i, g)]}
<1>1. 0 \in T
    <2> DEFINE g == [i \in 0..0 |-> [binds |-> <<>>, pair |-> <<>>]]
    <2>1. \A i \in 0..0 : ByteAt(a, i, g) = [binds |-> <<>>, pair |-> <<>>]
        BY DEF ByteAt
    <2>2. g = [i \in 0..0 |-> ByteAt(a, i, g)]
        BY <2>1
    <2> HIDE DEF g
    <2>3. QED BY <2>2
<1>2. ASSUME NEW n \in Nat, n \in T PROVE n + 1 \in T
    <2>1. PICK g : g = [i \in 0..n |-> ByteAt(a, i, g)]
        BY <1>2
    <2> DEFINE h == [i \in 0..n + 1 |-> IF i = n + 1 THEN ByteAt(a, n + 1, g) ELSE g[i]]
    <2>2. \A i \in 0..n : h[i] = g[i] /\ g[i] = ByteAt(a, i, g)
        BY <2>1
    <2>3. h[n + 1] = ByteAt(a, n + 1, g)
        OBVIOUS
    <2>4. h = [i \in 0..n + 1 |-> h[i]]
        OBVIOUS
    <2> HIDE DEF h
    <2>5. ASSUME NEW i \in 0..n + 1 PROVE h[i] = ByteAt(a, i, h)
        <3>1. i # 0 => i - 1 \in 0..n
            OBVIOUS
        <3>2. ByteAt(a, i, g) = ByteAt(a, i, h)
            BY <2>2, <3>1 DEF ByteAt
        <3>3. i = n + 1 \/ i \in 0..n
            OBVIOUS
        <3>4. QED BY <2>2, <2>3, <3>2, <3>3
    <2>6. h = [i \in 0..n + 1 |-> ByteAt(a, i, h)]
        BY <2>4, <2>5
    <2>7. QED BY <2>6
<1> HIDE DEF T
<1>3. L \in T
    BY <1>1, <1>2, SetInduction
<1>4. QED BY <1>3 DEF T

LEMMA BytesIs ==
    ASSUME NEW a, NEW L \in Nat, L = Len(a)
    PROVE  /\ BindReadings(a)[0] = [binds |-> <<>>, pair |-> <<>>]
           /\ \A n \in 1..L : BindReadings(a)[n] = TakeByte(BindReadings(a)[n - 1], a[n])
<1> DEFINE m == BindReadings(a)
<1>1. m = CHOOSE g : g = [i \in 0..L |-> ByteAt(a, i, g)]
    BY DEF BindReadings, ByteAt
<1> HIDE DEF m
<1>2. m = [i \in 0..L |-> ByteAt(a, i, m)]
    BY <1>1, BytesExist
<1>3. \A i \in 0..L : m[i] = ByteAt(a, i, m)
    BY <1>2
<1>4. m[0] = [binds |-> <<>>, pair |-> <<>>]
    BY <1>3 DEF ByteAt
<1>5. ASSUME NEW n \in 1..L PROVE m[n] = TakeByte(m[n - 1], a[n])
    <2>1. n \in 0..L /\ n # 0
        OBVIOUS
    <2>2. QED BY <1>3, <2>1 DEF ByteAt
<1>6. QED BY <1>4, <1>5 DEF m

\* What is read of the first bytes does not depend on the later ones.
Begun(a, b) == Len(b) <= Len(a) /\ \A i \in 1..Len(b) : b[i] = a[i]

LEMMA BytesOfFront ==
    ASSUME NEW a \in Path, NEW b \in Path, Begun(a, b)
    PROVE  BindReadings(b)[Len(b)] = BindReadings(a)[Len(b)]
<1>a. PICK L \in Nat, K \in Nat : L = Len(a) /\ K = Len(b)
    BY LenProperties DEF Path
<1>b. K <= L /\ \A i \in 1..K : b[i] = a[i]
    BY <1>a DEF Begun
<1> DEFINE T == {n \in Nat : n <= K => BindReadings(b)[n] = BindReadings(a)[n]}
<1>1. 0 \in T
    BY <1>a, BytesIs
<1>2. ASSUME NEW n \in Nat, n \in T PROVE n + 1 \in T
    <2> SUFFICES ASSUME n + 1 <= K PROVE BindReadings(b)[n + 1] = BindReadings(a)[n + 1]
        OBVIOUS
    <2>1. n + 1 \in 1..K /\ n + 1 \in 1..L /\ n + 1 - 1 = n
        BY <1>b
    <2>2. BindReadings(b)[n] = BindReadings(a)[n]
        BY <1>2, <2>1
    <2>3. BindReadings(b)[n + 1] = TakeByte(BindReadings(b)[n + 1 - 1], b[n + 1])
        BY <1>a, <2>1, BytesIs
    <2>4. BindReadings(a)[n + 1] = TakeByte(BindReadings(a)[n + 1 - 1], a[n + 1])
        BY <1>a, <2>1, BytesIs
    <2>5. QED BY <1>b, <2>1, <2>2, <2>3, <2>4
<1> HIDE DEF T
<1>3. Nat \subseteq T
    BY <1>1, <1>2, SetInduction
<1>4. K \in T
    BY <1>3
<1>5. QED BY <1>a, <1>4 DEF T

\* What is read after n bytes of s.
HasRead(s, n, binds, pair) == BindReadings(s)[n] = [binds |-> binds, pair |-> pair]

\* No semicolon is in q.
Unbroken(q) == \A i \in 1..Len(q) : q[i] # Semicolon

\* A text without semicolons is taken for a part of a pair, byte by byte.
LEMMA PairIsRead ==
    ASSUME NEW s \in Path, NEW q \in Path, NEW n \in Nat, PartAt(s, n, q),
           Unbroken(q),
           NEW binds, HasRead(s, n, binds, <<>>)
    PROVE  HasRead(s, n + Len(q), binds, q)
<1>1. PICK L \in Nat, Q \in Nat : L = Len(s) /\ Q = Len(q)
    BY LenProperties DEF Path
<1>2. n + Q <= L /\ \A i \in 1..Q : s[n + i] = q[i]
    BY <1>1 DEF PartAt
<1> DEFINE m == BindReadings(s)
           T == {k \in Nat : k <= Q => m[n + k] = [binds |-> binds, pair |-> SubSeq(q, 1, k)]}
<1>3. 0 \in T
    <2>1. SubSeq(q, 1, 0) = <<>> /\ n + 0 = n
        BY SubSeqEmpty
    <2>2. QED BY <2>1 DEF HasRead
<1>4. ASSUME NEW k \in Nat, k \in T PROVE k + 1 \in T
    <2> SUFFICES ASSUME k + 1 <= Q
                 PROVE  m[n + (k + 1)] = [binds |-> binds, pair |-> SubSeq(q, 1, k + 1)]
        OBVIOUS
    <2>1. m[n + k] = [binds |-> binds, pair |-> SubSeq(q, 1, k)]
        BY <1>4
    <2>2. PICK i : i = n + (k + 1) /\ i \in 1..L /\ i - 1 = n + k
        BY <1>2
    <2>3. m[i] = TakeByte(m[i - 1], s[i])
        BY <1>1, <2>2, BytesIs
    <2>4. s[i] = q[k + 1] /\ s[i] # Semicolon
        BY <1>1, <1>2, <2>2 DEF Unbroken
    <2>5. SubSeq(q, 1, k + 1) = Append(SubSeq(q, 1, k), q[k + 1])
        <3>1. PICK j \in Nat : j = 1
            OBVIOUS
        <3>2. j > 0 /\ j <= k + 1 /\ k + 1 <= Len(q)
            BY <1>1, <3>1
        <3>3. SubSeq(q, j, k + 1) = Append(SubSeq(q, j, k), q[k + 1])
            BY <3>2, SubSeqGrows DEF Path
        <3>4. QED BY <3>1, <3>3
    <2> HIDE DEF m, T
    <2>6. PICK r : r = m[i - 1] /\ r = [binds |-> binds, pair |-> SubSeq(q, 1, k)]
        BY <2>1, <2>2
    <2>7. TakeByte(r, s[i]) = [binds |-> r.binds, pair |-> Append(r.pair, s[i])]
        BY <2>4 DEF TakeByte
    <2>8. r.binds = binds /\ r.pair = SubSeq(q, 1, k)
        BY <2>6
    <2>9. m[i] = [binds |-> binds, pair |-> Append(SubSeq(q, 1, k), q[k + 1])]
        BY <2>3, <2>4, <2>6, <2>7, <2>8
    <2>10. QED BY <2>2, <2>5, <2>9
<1> HIDE DEF T
<1>5. Nat \subseteq T
    BY <1>3, <1>4, SetInduction
<1>6. Q \in T /\ Q <= Q
    BY <1>5
<1>7. SubSeq(q, 1, Q) = q
    BY <1>1, SubSeqFull DEF Path
<1>8. QED BY <1>1, <1>6, <1>7 DEF T, HasRead

\* What of the variable has been written at bind i if g is what was before.
JoinAt(binds, i, g) ==
    (IF i = 1 THEN <<>> ELSE g[i - 1] \o <<Semicolon>>) \o binds[i].src \o <<Colon>> \o binds[i].dst

Join(binds) == CHOOSE g : g = [i \in DOMAIN binds |-> JoinAt(binds, i, g)]

LEMMA JoinExists ==
    ASSUME NEW a, NEW L \in Nat, DOMAIN a = 1..L
    PROVE  \E g : g = [i \in 1..L |-> JoinAt(a, i, g)]
<1> DEFINE T == {n \in Nat : \E g : g = [i \in 1..n |-> JoinAt(a, i, g)]}
<1>1. 0 \in T
    <2> DEFINE g == [i \in 1..0 |-> <<>>]
    <2>1. g = [i \in 1..0 |-> JoinAt(a, i, g)]
        OBVIOUS
    <2> HIDE DEF g
    <2>2. QED BY <2>1
<1>2. ASSUME NEW n \in Nat, n \in T PROVE n + 1 \in T
    <2>1. PICK g : g = [i \in 1..n |-> JoinAt(a, i, g)]
        BY <1>2
    <2>8. \A i \in 1..n : g[i] = JoinAt(a, i, g)
        BY <2>1
    <2> DEFINE h == [i \in 1..n + 1 |-> IF i = n + 1 THEN JoinAt(a, n + 1, g) ELSE g[i]]
    <2>2. \A i \in 1..n : h[i] = g[i] /\ g[i] = JoinAt(a, i, g)
        BY <2>8
    <2>3. h[n + 1] = JoinAt(a, n + 1, g)
        OBVIOUS
    <2>4. h = [i \in 1..n + 1 |-> h[i]]
        OBVIOUS
    <2> HIDE DEF h
    <2>5. ASSUME NEW i \in 1..n + 1 PROVE h[i] = JoinAt(a, i, h)
        <3>1. i # 1 => i - 1 \in 1..n
            OBVIOUS
        <3>2. JoinAt(a, i, g) = JoinAt(a, i, h)
            BY <2>2, <3>1 DEF JoinAt
        <3>3. i = n + 1 \/ i \in 1..n
            OBVIOUS
        <3>4. QED BY <2>2, <2>3, <3>2, <3>3
    <2>6. h = [i \in 1..n + 1 |-> JoinAt(a, i, h)]
        BY <2>4, <2>5
    <2>7. QED BY <2>6
<1> HIDE DEF T
<1>3. L \in T
    BY <1>1, <1>2, SetInduction
<1>4. QED BY <1>3 DEF T

LEMMA JoinIs ==
    ASSUME NEW a, NEW L \in Nat, DOMAIN a = 1..L
    PROVE  \A i \in 1..L : Join(a)[i] = JoinAt(a, i, Join(a))
<1> DEFINE m == Join(a)
<1>1. m = CHOOSE g : g = [i \in 1..L |-> JoinAt(a, i, g)]
    BY DEF Join
<1> HIDE DEF m
<1>2. m = [i \in 1..L |-> JoinAt(a, i, m)]
    BY <1>1, JoinExists
<1>3. \A i \in 1..L : m[i] = JoinAt(a, i, m)
    BY <1>2
<1>4. QED BY <1>3 DEF m

LEMMA JoinedIs ==
    ASSUME NEW a
    PROVE  Joined(a) = Join(a)[Len(a)]
BY DEF Joined, Join, JoinAt

FourAsTwo(x, a, c, d) == ((x \o a) \o c) \o d = x \o ((a \o c) \o d)

LEMMA FourParts ==
    ASSUME NEW x \in Path, NEW a \in Path, NEW c \in Path, NEW d \in Path
    PROVE  FourAsTwo(x, a, c, d)
<1>1. Associate(x, a, c)
    BY Associates
<1>2. PICK ac : ac = a \o c /\ ac \in Path
    BY PathConcat
<1>3. Associate(x, ac, d)
    BY <1>2, Associates
<1>4. QED BY <1>1, <1>2, <1>3 DEF FourAsTwo, Associate

\* The variable is the pairs with a semicolon before all but the first.
LEMMA JoinTexts ==
    ASSUME NEW given \in Seq(BindPair), NEW K \in Nat, K = Len(given), K > 0
    PROVE  /\ Join(given)[1] = PairText(given[1])
           /\ \A k \in 1..K : k + 1 <= K /\ Join(given)[k] \in Path =>
                 Join(given)[k + 1] = (Join(given)[k] \o <<Semicolon>>) \o PairText(given[k + 1])
<1>1. DOMAIN given = 1..K
    BY LenProperties
<1>2. \A k \in 1..K : Join(given)[k] = JoinAt(given, k, Join(given))
    BY <1>1, JoinIs
<1>3. ASSUME NEW k \in 1..K
      PROVE  given[k].src \in Path /\ given[k].dst \in Path
    <2>1. given[k] \in BindPair
        BY ElementOfSeq
    <2>2. QED BY <2>1 DEF BindPair
<1>4. <<Colon>> \in Path /\ <<Semicolon>> \in Path
    BY OptionsAssumption DEF Path
<1>5. Join(given)[1] = PairText(given[1])
    <2>1. 1 \in 1..K
        OBVIOUS
    <2>2. Join(given)[1] = ((<<>> \o given[1].src) \o <<Colon>>) \o given[1].dst
        BY <1>2, <2>1 DEF JoinAt
    <2>3. <<>> \o given[1].src = given[1].src
        BY <1>3, <2>1, ConcatEmptySeq DEF Path
    <2>4. QED BY <2>2, <2>3 DEF PairText
<1>6. ASSUME NEW k \in 1..K, k + 1 <= K, Join(given)[k] \in Path
      PROVE  Join(given)[k + 1] = (Join(given)[k] \o <<Semicolon>>) \o PairText(given[k + 1])
    <2>1. PICK n : n = k + 1 /\ n \in 1..K /\ n # 1 /\ n - 1 = k
        BY <1>6
    <2>2. PICK u \in Path, z \in Path : u = Join(given)[k] /\ z = <<Semicolon>>
        BY <1>4, <1>6
    <2>3. PICK a \in Path, c \in Path, d \in Path : a = given[n].src /\ c = <<Colon>> /\ d = given[n].dst
        BY <1>3, <1>4, <2>1
    <2>4. Join(given)[n] = (((u \o z) \o a) \o c) \o d
        <3>1. Join(given)[n] = JoinAt(given, n, Join(given))
            BY <1>2, <2>1
        <3>2. JoinAt(given, n, Join(given))
                  = (((Join(given)[n - 1] \o <<Semicolon>>) \o given[n].src) \o <<Colon>>) \o given[n].dst
            BY <2>1 DEF JoinAt
        <3>3. QED BY <2>1, <2>2, <2>3, <3>1, <3>2
    <2>5. PICK x \in Path : x = u \o z
        BY PathConcat
    <2>6. FourAsTwo(x, a, c, d)
        BY FourParts
    <2>7. PairText(given[n]) = (a \o c) \o d
        BY <2>3 DEF PairText
    <2>8. QED BY <2>1, <2>2, <2>4, <2>5, <2>6, <2>7 DEF FourAsTwo
<1>7. QED BY <1>5, <1>6

\* One more pair is read.
LEMMA NextPairRead ==
    ASSUME NEW u \in Path, NEW g \in BindPair, NEW binds, NEW q \in Path,
           HasColon(PairText(g)), BindOption(PairText(g)) = g,
           HasRead(u, Len(u), binds, PairText(g)),
           Unbroken(q),
           NEW s \in Path, s = (u \o <<Semicolon>>) \o q
    PROVE  HasRead(s, Len(s), Append(binds, g), q)
<1>1. PICK z \in Path : z = <<Semicolon>> /\ Len(z) = 1 /\ z[1] = Semicolon
    <2>1. <<Semicolon>> \in Path
        BY OptionsAssumption DEF Path
    <2>2. QED BY <2>1
<1>2. PICK U \in Nat, P \in Nat, E \in Nat : U = Len(u) /\ P = Len(z) /\ E = Len(q)
    BY LenProperties DEF Path
<1>3. /\ P = 1 /\ Len(s) = U + P + E
      /\ \A i \in 1..U : s[i] = u[i]
      /\ \A i \in 1..P : s[U + i] = z[i]
      /\ \A i \in 1..E : s[U + P + i] = q[i]
    BY <1>1, <1>2, ThreeParts
<1>4. HasRead(s, U, binds, PairText(g))
    <2>1. Begun(s, u)
        BY <1>2, <1>3 DEF Begun
    <2>2. BindReadings(u)[Len(u)] = BindReadings(s)[Len(u)]
        BY <2>1, BytesOfFront
    <2>3. QED BY <1>2, <2>2 DEF HasRead
<1>5. PICK n \in Nat : n = U + 1
    OBVIOUS
<1>6. HasRead(s, n, Append(binds, g), <<>>)
    <2>1. PICK L \in Nat : L = Len(s) /\ n \in 1..L /\ n - 1 = U
        <3>1. PICK L \in Nat : L = U + P + E /\ L = Len(s) /\ P = 1
            BY <1>3
        <3>2. n \in 1..L /\ n - 1 = U
            BY <1>5, <3>1
        <3>3. QED BY <3>1, <3>2
    <2>2. BindReadings(s)[n] = TakeByte(BindReadings(s)[n - 1], s[n])
        BY <2>1, BytesIs
    <2>3. s[n] = Semicolon
        BY <1>1, <1>3, <1>5
    <2>4. PICK r : r = BindReadings(s)[n - 1] /\ r.binds = binds /\ r.pair = PairText(g)
        BY <1>4, <2>1 DEF HasRead
    <2>5. TakeByte(r, s[n]) = [binds |-> WithPair(r.binds, r.pair), pair |-> <<>>]
        BY <2>3 DEF TakeByte
    <2>6. WithPair(binds, PairText(g)) = Append(binds, g)
        BY DEF WithPair
    <2>7. QED BY <2>2, <2>4, <2>5, <2>6 DEF HasRead
<1>7. PartAt(s, n, q) /\ Len(s) = n + Len(q)
    BY <1>2, <1>3, <1>5 DEF PartAt
<1>8. HasRead(s, n + Len(q), Append(binds, g), q)
    BY <1>6, <1>7, PairIsRead
<1>9. QED BY <1>7, <1>8

\* No colon in the source of a bind and no semicolon in either path.
Plain(g) ==
    /\ \A i \in 1..Len(g.src) : g.src[i] # Colon /\ g.src[i] # Semicolon
    /\ \A i \in 1..Len(g.dst) : g.dst[i] # Semicolon

\* The library reads the binds that lroot wrote.
LEMMA BindsReadBack ==
    ASSUME NEW given \in Seq(BindPair), NEW K \in Nat, K = Len(given), K > 0,
           \A k \in 1..K : Plain(given[k])
    PROVE  BindsOf(Joined(given)) = given
<1> DEFINE J == Join(given)
           Inv(k) == /\ J[k] \in Path
                     /\ HasRead(J[k], Len(J[k]), SubSeq(given, 1, k - 1), PairText(given[k]))
           T == {n \in Nat : n + 1 <= K => Inv(n + 1)}
<1>1. ASSUME NEW k \in 1..K
      PROVE  /\ given[k] \in BindPair /\ PairText(given[k]) \in Path
             /\ HasColon(PairText(given[k])) /\ BindOption(PairText(given[k])) = given[k]
             /\ Unbroken(PairText(given[k]))
    <2>1. given[k] \in BindPair /\ Plain(given[k])
        BY ElementOfSeq
    <2>2. PICK g \in BindPair : g = given[k]
        BY <2>1
    <2>3. /\ PairText(g) \in Path /\ HasColon(PairText(g)) /\ BindOption(PairText(g)) = g
          /\ Unbroken(PairText(g))
        BY <2>1, <2>2, PairReads DEF Plain, Unbroken
    <2>4. QED BY <2>2, <2>3
<1>2. Inv(1)
    <2>1. 1 \in 1..K
        OBVIOUS
    <2>2. PICK s \in Path : s = J[1] /\ s = PairText(given[1])
        BY <1>1, <2>1, JoinTexts
    <2>3. PICK n \in Nat : n = 0
        OBVIOUS
    <2>4. HasRead(s, n, <<>>, <<>>)
        <3>1. PICK L \in Nat : L = Len(s)
            BY LenProperties DEF Path
        <3>2. QED BY <2>3, <3>1, BytesIs DEF HasRead
    <2>5. PartAt(s, n, s)
        BY <2>3, LenProperties DEF PartAt, Path
    <2>6. Unbroken(s)
        BY <1>1, <2>1, <2>2
    <2>7. HasRead(s, n + Len(s), <<>>, s)
        BY <2>4, <2>5, <2>6, PairIsRead
    <2>8. n + Len(s) = Len(s)
        BY <2>3, LenProperties DEF Path
    <2>9. SubSeq(given, 1, 1 - 1) = <<>>
        BY SubSeqEmpty
    <2>10. QED BY <2>2, <2>7, <2>8, <2>9
<1>3. ASSUME NEW k \in 1..K, k + 1 <= K, Inv(k)
      PROVE  Inv(k + 1)
    <2>1. PICK n \in 1..K : n = k + 1 /\ n - 1 = k
        BY <1>3
    <2>2. PICK u \in Path :
              u = J[k] /\ HasRead(u, Len(u), SubSeq(given, 1, k - 1), PairText(given[k]))
        BY <1>3
    <2>3. PICK q \in Path : q = PairText(given[n])
        BY <1>1
    <2>4. PICK s \in Path : s = (u \o <<Semicolon>>) \o q
        <3>1. PICK z \in Path : z = <<Semicolon>>
            <4>1. <<Semicolon>> \in Path
                BY OptionsAssumption DEF Path
            <4>2. QED BY <4>1
        <3>2. QED BY <3>1, PathConcat
    <2>5. J[n] = s
        BY <1>3, <2>1, <2>2, <2>3, <2>4, JoinTexts
    <2>6. Unbroken(q)
        BY <1>1, <2>3
    <2>7. PICK g \in BindPair : /\ g = given[k] /\ HasColon(PairText(g))
                                /\ BindOption(PairText(g)) = g
        BY <1>1
    <2>8. HasRead(s, Len(s), Append(SubSeq(given, 1, k - 1), g), q)
        BY <2>2, <2>4, <2>6, <2>7, NextPairRead
    <2>9. Append(SubSeq(given, 1, k - 1), g) = SubSeq(given, 1, k)
        <3>1. PICK m \in Nat, j \in Nat : m = 1 /\ j = k - 1 /\ j + 1 = k
            OBVIOUS
        <3>2. m > 0 /\ m <= j + 1 /\ j + 1 <= Len(given)
            BY <3>1
        <3>3. SubSeq(given, m, j + 1) = Append(SubSeq(given, m, j), given[j + 1])
            BY <3>2, SubSeqGrows
        <3>4. QED BY <2>7, <3>1, <3>3
    <2>10. QED BY <2>1, <2>3, <2>5, <2>8, <2>9
<1>4. 0 \in T
    BY <1>2
<1>5. ASSUME NEW n \in Nat, n \in T PROVE n + 1 \in T
    <2> SUFFICES ASSUME n + 1 + 1 <= K PROVE Inv(n + 1 + 1)
        OBVIOUS
    <2>1. n + 1 \in 1..K
        OBVIOUS
    <2>2. Inv(n + 1)
        BY <1>5, <2>1
    <2> HIDE DEF Inv
    <2>3. QED BY <1>3, <2>1, <2>2
<1> HIDE DEF Inv, T
<1>6. Nat \subseteq T
    BY <1>4, <1>5, SetInduction
<1>7. Inv(K)
    <2>1. K - 1 \in Nat /\ K - 1 + 1 = K
        OBVIOUS
    <2>2. QED BY <1>6, <2>1 DEF T
<1>8. Joined(given) = J[K]
    BY JoinedIs
<1>9. BindsOf(J[K]) = WithPair(SubSeq(given, 1, K - 1), PairText(given[K]))
    <2>1. PICK r : /\ r = BindReadings(J[K])[Len(J[K])] /\ r.binds = SubSeq(given, 1, K - 1)
                   /\ r.pair = PairText(given[K])
        BY <1>7 DEF Inv, HasRead
    <2>2. QED BY <2>1 DEF BindsOf
<1>10. WithPair(SubSeq(given, 1, K - 1), PairText(given[K])) = Append(SubSeq(given, 1, K - 1), given[K])
    BY <1>1 DEF WithPair
<1>11. Append(SubSeq(given, 1, K - 1), given[K]) = given
    <2>1. PICK m \in Nat, j \in Nat : m = 1 /\ j = K - 1 /\ j + 1 = K
        OBVIOUS
    <2>2. m > 0 /\ m <= j + 1 /\ j + 1 <= Len(given)
        BY <2>1
    <2>3. SubSeq(given, m, j + 1) = Append(SubSeq(given, m, j), given[j + 1])
        BY <2>2, SubSeqGrows
    <2>4. SubSeq(given, 1, Len(given)) = given
        BY SubSeqFull
    <2>5. QED BY <2>1, <2>3, <2>4
<1>12. QED BY <1>8, <1>9, <1>10, <1>11

\* The library has the binds of the command line, all of them and in their
\* order (main.rs:244-248, 424-430; lib.rs:62-84).
LEMMA BindsAreRead ==
    ASSUME NEW options \in Seq(Path), NEW inherited
    PROVE  BindsArrive(options, inherited)
<1> DEFINE given == [k \in DOMAIN options |-> BindOption(options[k])]
<1> SUFFICES ASSUME options # <<>>,
                    \A k \in DOMAIN options : \A i \in DOMAIN options[k] : options[k][i] # Semicolon
             PROVE  BindsOf(BindsVar(given, inherited)) = given
    BY DEF BindsArrive
<1>1. PICK K \in Nat : K = Len(options) /\ K > 0 /\ DOMAIN options = 1..K
    BY EmptySeq, LenProperties
<1>2. ASSUME NEW k \in 1..K
      PROVE  given[k] \in BindPair /\ Plain(given[k])
    <2>1. options[k] \in Path /\ given[k] = BindOption(options[k])
        BY <1>1, ElementOfSeq
    <2>2. PICK b \in Path : b = options[k] /\ \A i \in DOMAIN b : b[i] # Semicolon
        BY <1>1, <2>1
    <2>3. BindOption(b) \in BindPair /\ Plain(BindOption(b))
        BY <2>2, BindOptionParts DEF Plain
    <2>4. QED BY <2>1, <2>2, <2>3
<1>3. given \in Seq(BindPair) /\ Len(given) = K /\ given # <<>>
    <2>1. DOMAIN given = 1..K
        BY <1>1
    <2>2. given = [k \in 1..K |-> given[k]]
        BY <1>1
    <2> HIDE DEF given
    <2>3. given \in [1..K -> BindPair]
        BY <1>2, <2>2
    <2>4. given \in Seq(BindPair)
        BY <2>3, SeqDef
    <2>5. Len(given) = K
        BY <2>1, <2>4, LenProperties
    <2>6. QED BY <1>1, <2>4, <2>5, EmptySeq
<1> HIDE DEF given
<1>4. BindsVar(given, inherited) = Joined(given)
    BY <1>3 DEF BindsVar
<1>5. BindsOf(Joined(given)) = given
    BY <1>1, <1>2, <1>3, BindsReadBack
<1>6. QED BY <1>4, <1>5

\* The binds of a command line reach the library as they were given, whatever
\* colons are in them and whatever LITTLE_BINDS was before.
THEOREM AlwaysIntact == Spec => []BindsIntact
<1>1. ASSUME path \in Path
      PROVE  BindsIntact
    <2>1. \A b \in OtherBinds : b \in Path
        BY TrialsAssumption
    <2>2. ASSUME NEW b \in OtherBinds, NEW c \in OtherBinds
          PROVE  /\ BindsArrive(<<path>>, Inherited)
                 /\ BindsArrive(<<path, b>>, Inherited)
                 /\ BindsArrive(<<b, path, c>>, Inherited)
        <3>1. b \in Path /\ c \in Path
            BY <2>1
        <3>2. <<path>> \in Seq(Path) /\ <<path, b>> \in Seq(Path) /\ <<b, path, c>> \in Seq(Path)
            BY <1>1, <3>1
        <3>3. QED BY <3>2, BindsAreRead
    <2>3. QED BY <2>2 DEF BindsIntact
<1>2. QED BY <1>1, EveryTrial, PTL
=============================================================================
