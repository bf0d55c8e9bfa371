----------------------- MODULE PathTranslationProofs -----------------------
(***************************************************************************)
(* What translate, save_path and do_readlink promise, for every rootfs,    *)
(* every list of binds, every buffer size and every path.                  *)
(***************************************************************************)
EXTENDS PathTranslation, SequenceTheorems, WellFoundedInduction, TLAPS

(***************************************************************************)
(* Induction.  The definitions that are recursive functions need it.  It   *)
(* is drawn from the fact that < is well-founded on the naturals, with a   *)
(* set in the place of a predicate.                                        *)
(***************************************************************************)

LEMMA Least ==
    ASSUME NEW T \in SUBSET Nat, T # {}
    PROVE  \E n \in T : \A m \in T : n <= m
<1> DEFINE less == OpToRel(<, Nat)
<1>1. \A m, n \in Nat : m < n => <<m, n>> \in less
    <2> SUFFICES ASSUME NEW m \in Nat, NEW n \in Nat, m < n PROVE <<m, n>> \in less
        OBVIOUS
    <2>1. <<m, n>> \in Nat \X Nat /\ <<m, n>>[1] < <<m, n>>[2]
        OBVIOUS
    <2>2. QED BY <2>1, Zenon DEF OpToRel
<1>2. PICK n \in T : \A m \in T : ~(<<m, n>> \in less)
    <2>1. IsWellFoundedOn(less, Nat)
        BY NatLessThanWellFounded
    <2> HIDE DEF less
    <2>2. QED BY <2>1, WFMin
<1> HIDE DEF less
<1>3. \A m \in T : m \in Nat /\ n \in Nat
    OBVIOUS
<1>4. \A m \in T : ~(m < n)
    BY <1>1, <1>2, <1>3, Zenon
<1>5. QED BY <1>3, <1>4

LEMMA SetInduction ==
    ASSUME NEW T, 0 \in T, \A n \in Nat : n \in T => n + 1 \in T
    PROVE  Nat \subseteq T
<1> SUFFICES ASSUME Nat \ T # {} PROVE FALSE
    OBVIOUS
<1>1. PICK n \in Nat \ T : \A m \in Nat \ T : n <= m
    <2>1. Nat \ T \in SUBSET Nat
        OBVIOUS
    <2>2. QED BY <2>1, Least
<1>2. n # 0 /\ n - 1 \in Nat /\ n - 1 \in T
    BY <1>1
<1>3. QED BY <1>1, <1>2

\* Induction from the end of a sequence to its beginning.
LEMMA BackwardInduction ==
    ASSUME NEW N \in Nat, NEW T,
           \A i \in 1..N : (\A j \in 1..N : i < j => j \in T) => i \in T
    PROVE  1..N \subseteq T
<1> DEFINE Left == {k \in Nat : N - k \in 1..N /\ N - k \notin T}
<1>1. ASSUME NEW i \in 1..N, i \notin T
      PROVE  N - i \in Left
    <2>1. PICK k \in Nat : k = N - i /\ N - k = i
        OBVIOUS
    <2>2. N - k \in 1..N /\ N - k \notin T
        BY <1>1, <2>1
    <2>3. QED BY <2>1, <2>2
<1>2. CASE Left # {}
    <2>1. PICK k \in Left : \A m \in Left : k <= m
        <3>1. Left \in SUBSET Nat
            OBVIOUS
        <3>2. QED BY <1>2, <3>1, Least
    <2>2. ASSUME NEW j \in 1..N, N - k < j
          PROVE  j \in T
        <3>1. N - j < k
            BY <2>2
        <3>2. QED BY <1>1, <2>1, <3>1
    <2>3. N - k \in 1..N /\ N - k \notin T
        BY <2>1
    <2>4. QED BY <2>2, <2>3
<1>3. QED
    <2>1. Left = {} => \A i \in 1..N : i \in T
        BY <1>1
    <2>2. QED BY <1>2, <2>1

(***************************************************************************)
(* Prefixes                                                                *)
(***************************************************************************)

LEMMA PrefixByIndex ==
    ASSUME NEW s \in Path, NEW t \in Path
    PROVE  IsPrefix(s, t) <=> /\ Len(s) <= Len(t)
                              /\ \A i \in 1..Len(s) : s[i] = t[i]
<1>1. /\ SubSeq(s, 1, Len(s)) = s
      /\ Len(s) \in Nat /\ Len(t) \in Nat
    BY SubSeqFull, LenProperties DEF Path
<1>2. ASSUME Len(s) <= Len(t)
      PROVE  (s = SubSeq(t, 1, Len(s))) <=> \A i \in 1..Len(s) : s[i] = t[i]
    <2>1. /\ SubSeq(t, 1, Len(s)) \in Path
          /\ Len(SubSeq(t, 1, Len(s))) = Len(s)
          /\ \A i \in 1..Len(s) : SubSeq(t, 1, Len(s))[i] = t[i]
        <3>1. \A i \in 1..Len(s) : t[i] \in Fragment
            BY <1>1, <1>2, ElementOfSeq DEF Path
        <3>2. QED BY <1>1, <3>1, SubSeqProperties DEF Path
    <2>2. (\A i \in 1..Len(s) : s[i] = t[i]) => s = SubSeq(t, 1, Len(s))
        <3>1. HAVE \A i \in 1..Len(s) : s[i] = t[i]
        <3>2. \A i \in 1..Len(s) : s[i] = SubSeq(t, 1, Len(s))[i]
            BY <2>1, <3>1
        <3>3. QED BY <2>1, <3>2, SeqEqual DEF Path
    <2>3. QED BY <2>1, <2>2
<1>3. QED BY <1>1, <1>2 DEF IsPrefix

\* What a text is a prefix of, a longer text is too.
LEMMA PrefixOfConcat ==
    ASSUME NEW s \in Path, NEW t \in Path, NEW u \in Path, IsPrefix(s, t)
    PROVE  IsPrefix(s, t \o u)
<1>1. Len(s) \in Nat /\ Len(t) \in Nat /\ Len(u) \in Nat
    BY LenProperties DEF Path
<1>2. /\ t \o u \in Path
      /\ Len(t \o u) = Len(t) + Len(u)
      /\ \A i \in 1..Len(t) : (t \o u)[i] = t[i]
    BY <1>1, ConcatProperties DEF Path
<1>3. Len(s) <= Len(t) /\ \A i \in 1..Len(s) : s[i] = t[i]
    BY PrefixByIndex
<1>4. Len(s) <= Len(t \o u) /\ \A i \in 1..Len(s) : s[i] = (t \o u)[i]
    BY <1>1, <1>2, <1>3
<1>5. QED BY <1>2, <1>4, PrefixByIndex

LEMMA PrefixOfItself ==
    ASSUME NEW s \in Path
    PROVE  IsPrefix(s, s)
BY PrefixByIndex, LenProperties DEF Path

LEMMA DropTyped ==
    ASSUME NEW p \in Path, NEW n \in Nat, n <= Len(p)
    PROVE  Drop(p, n) \in Path /\ Len(Drop(p, n)) = Len(p) - n
<1>1. Len(p) \in Nat
    BY LenProperties DEF Path
<1>2. \A i \in (n + 1)..Len(p) : p[i] \in Fragment
    BY <1>1, ElementOfSeq DEF Path
<1>3. /\ SubSeq(p, n + 1, Len(p)) \in Seq(Fragment)
      /\ Len(SubSeq(p, n + 1, Len(p)))
            = IF n + 1 <= Len(p) THEN Len(p) - (n + 1) + 1 ELSE 0
    BY <1>1, <1>2, SubSeqProperties
<1>4. QED BY <1>1, <1>3 DEF Drop, Path

LEMMA DropByIndex ==
    ASSUME NEW p \in Path, NEW n \in Nat, n <= Len(p), NEW k \in 1..Len(p) - n
    PROVE  Drop(p, n)[k] = p[n + k]
<1>1. Len(p) \in Nat
    BY LenProperties DEF Path
<1>2. \A i \in (n + 1)..Len(p) : p[i] \in Fragment
    BY <1>1, ElementOfSeq DEF Path
<1>3. SubSeq(p, n + 1, Len(p))[k] = p[n + 1 + k - 1]
    BY <1>1, <1>2, SubSeqProperties
<1>4. n + 1 + k - 1 = n + k
    BY <1>1
<1>5. QED BY <1>3, <1>4 DEF Drop

LEMMA DropOfConcat ==
    ASSUME NEW s \in Path, NEW t \in Path
    PROVE  Drop(s \o t, Len(s)) = t
<1>1. Len(s) \in Nat /\ Len(t) \in Nat
    BY LenProperties DEF Path
<1>2. /\ s \o t \in Path
      /\ Len(s \o t) = Len(s) + Len(t)
      /\ \A i \in 1..Len(t) : (s \o t)[Len(s) + i] = t[i]
    BY <1>1, ConcatProperties DEF Path
<1>3. /\ Drop(s \o t, Len(s)) \in Path
      /\ Len(Drop(s \o t, Len(s))) = Len(t)
    <2>1. Len(s) <= Len(s \o t) /\ Len(s \o t) - Len(s) = Len(t)
        BY <1>1, <1>2
    <2>2. QED BY <1>1, <1>2, <2>1, DropTyped
<1>4. ASSUME NEW i \in 1..Len(t)
      PROVE  Drop(s \o t, Len(s))[i] = t[i]
    <2>1. \A j \in (Len(s) + 1)..Len(s \o t) : (s \o t)[j] \in Fragment
        BY <1>1, <1>2, ElementOfSeq DEF Path
    <2>2. Drop(s \o t, Len(s))[i] = (s \o t)[Len(s) + 1 + i - 1]
        BY <1>1, <1>2, <2>1, SubSeqProperties DEF Drop
    <2>3. QED BY <1>1, <1>2, <2>2
<1>5. QED BY <1>3, <1>4, SeqEqual DEF Path

\* A path is its prefix and the rest of it.
LEMMA PrefixAndRest ==
    ASSUME NEW s \in Path, NEW p \in Path, IsPrefix(s, p)
    PROVE  /\ Len(s) <= Len(p) /\ Drop(p, Len(s)) \in Path
           /\ p = s \o Drop(p, Len(s))
<1>1. Len(s) \in Nat /\ Len(p) \in Nat /\ Len(s) <= Len(p)
    BY PrefixByIndex, LenProperties DEF Path
<1>2. Drop(p, Len(s)) \in Path
    BY <1>1, DropTyped
<1>3. s = SubSeq(p, 1, Len(s))
    BY SubSeqFull DEF IsPrefix, Path
<1>4. SubSeq(p, 1, Len(s)) \o SubSeq(p, Len(s) + 1, Len(p)) = SubSeq(p, 1, Len(p))
    <2>1. 1 \in 1..Len(p) + 1 /\ Len(s) \in 1 - 1..Len(p) /\ Len(p) \in Len(s)..Len(p)
        BY <1>1
    <2>2. QED BY <2>1, ConcatAdjacentSubSeq DEF Path
<1>5. SubSeq(p, 1, Len(p)) = p
    BY SubSeqFull DEF Path
<1>6. QED BY <1>1, <1>2, <1>3, <1>4, <1>5 DEF Drop

\* Of two prefixes of a path the shorter one is a prefix of the longer one.
LEMMA PrefixesCompare ==
    ASSUME NEW s \in Path, NEW t \in Path, NEW p \in Path,
           IsPrefix(s, p), IsPrefix(t, p), Len(s) <= Len(t)
    PROVE  IsPrefix(s, t)
<1>1. Len(s) \in Nat /\ Len(t) \in Nat
    BY LenProperties DEF Path
<1>2. /\ \A i \in 1..Len(s) : s[i] = p[i]
      /\ \A i \in 1..Len(t) : t[i] = p[i]
    BY PrefixByIndex
<1>3. \A i \in 1..Len(s) : s[i] = t[i]
    BY <1>1, <1>2
<1>4. QED BY <1>3, PrefixByIndex

(***************************************************************************)
(* translate and save_path                                                 *)
(***************************************************************************)

\* The bind that is used is one of the list, and the path lies under it.
LEMMA FirstBindMatches ==
    ASSUME NEW p \in Path, FirstBind(p) # 0
    PROVE  FirstBind(p) \in 1..Len(Binds) /\ Under(Binds[FirstBind(p)].dst, p)
BY DEF FirstBind

LEMMA ImageTyped ==
    ASSUME NEW p \in Path
    PROVE  Image(p) \in Path
<1>1. CASE FirstBind(p) = 0
    BY <1>1, PathAssumption, ConcatProperties DEF Image, Path
<1>2. CASE FirstBind(p) # 0
    <2> DEFINE b == Binds[FirstBind(p)]
    <2>1. b \in [src : Path, dst : Path]
        BY <1>2, FirstBindMatches, PathAssumption, ElementOfSeq
    <2>2. Len(b.dst) \in Nat /\ Len(b.dst) <= Len(p)
        BY <1>2, <2>1, FirstBindMatches, PrefixByIndex, LenProperties DEF Under, Path
    <2>3. Drop(p, Len(b.dst)) \in Path
        BY <2>2, DropTyped
    <2>4. QED BY <1>2, <2>1, <2>3, ConcatProperties DEF Image, Path
<1>3. QED BY <1>1, <1>2

\* translate returns a path, in TL_BUF or in the caller's memory.
THEOREM TranslateTyped ==
    ASSUME NEW p \in Path
    PROVE  /\ Translate(p).path \in Path
           /\ Translate(p).place \in {"caller", "tlbuf"}
BY ImageTyped DEF Translate

\* The empty rootfs is a prefix of every path.
LEMMA RootfsNotEmpty ==
    ASSUME NEW p \in Path, ~PassesThrough(p)
    PROVE  Rootfs # <<>>
<1> SUFFICES ASSUME Rootfs = <<>>
             PROVE  IsPrefix(Rootfs, p)
    BY DEF PassesThrough
<1>1. Len(Rootfs) = 0 /\ Len(p) \in Nat
    BY EmptySeq, LenProperties DEF Path
<1>2. Len(Rootfs) <= Len(p) /\ \A i \in 1..Len(Rootfs) : Rootfs[i] = p[i]
    BY <1>1
<1>3. QED BY <1>2, PathAssumption, PrefixByIndex

\* What begins like a path that is never rewritten is never rewritten.
LEMMA PassesThroughBelow ==
    ASSUME NEW p \in Path, NEW q \in Path, PassesThrough(p)
    PROVE  PassesThrough(p \o q)
BY PathAssumption, PrefixOfConcat DEF PassesThrough

\* The image of a path that is rewritten is never rewritten again: the rootfs
\* is one of its prefixes, or the bind it went through, which then is one that
\* can be reached, leads to a path that is not rewritten.
LEMMA ImagePassesThrough ==
    ASSUME BindsSettled, NEW p \in Path, ~PassesThrough(p)
    PROVE  PassesThrough(Image(p))
<1>1. CASE FirstBind(p) = 0
    <2>1. IsPrefix(Rootfs, Rootfs \o p)
        BY PathAssumption, PrefixOfItself, PrefixOfConcat
    <2>2. QED BY <1>1, <2>1 DEF Image, PassesThrough
<1>2. CASE FirstBind(p) # 0
    <2> DEFINE b    == Binds[FirstBind(p)]
               rest == Drop(p, Len(b.dst))
    <2>1. b \in [src : Path, dst : Path] /\ IsPrefix(b.dst, p)
        BY <1>2, FirstBindMatches, PathAssumption, ElementOfSeq DEF Under
    <2>2. rest \in Path /\ p = b.dst \o rest
        BY <2>1, PrefixAndRest
    <2>3. ~PassesThrough(b.dst)
        BY <2>1, <2>2, PassesThroughBelow
    <2>4. PassesThrough(b.src)
        BY <1>2, <2>3, FirstBindMatches DEF BindsSettled
    <2>5. Image(p) = b.src \o rest
        BY <1>2 DEF Image
    <2>6. QED BY <2>1, <2>2, <2>4, <2>5, PassesThroughBelow
<1>3. QED BY <1>1, <1>2

\* Translating twice is translating once, for every rootfs and every list of
\* binds of which those that can be reached lead to paths that are never
\* rewritten themselves (translate, lib.rs:145-223; execvp at lib.rs:1968-2005
\* relies on it).
THEOREM TranslationIsIdempotent ==
    ASSUME BindsSettled, NEW p \in Path
    PROVE  Idempotent(p)
<1>1. CASE Translate(p) = [place |-> "caller", path |-> p]
    BY <1>1 DEF Idempotent
<1>2. CASE ~PassesThrough(p) /\ Translate(p) = [place |-> "tlbuf", path |-> Image(p)]
    <2>1. PassesThrough(Image(p))
        BY <1>2, ImagePassesThrough
    <2>2. Translate(Image(p)).path = Image(p)
        BY <2>1 DEF Translate
    <2>3. QED BY <1>2, <2>2 DEF Idempotent
<1>3. QED BY <1>1, <1>2 DEF Translate

\* do_readlink undoes translate: a path that was rewritten on the way into
\* the kernel, and not by a bind, comes back to the guest as the guest wrote
\* it (lib.rs:207-222 against lib.rs:1262-1272).
THEOREM StripUndoesTranslate ==
    ASSUME NEW p \in Path
    PROVE  RoundTrip(p)
<1> SUFFICES ASSUME Translate(p).place = "tlbuf", FirstBind(p) = 0
             PROVE  StripRootfs(Translate(p).path) = p
    BY DEF RoundTrip
<1>1. IsAbsolute(p) /\ ~IsPrefix(Rootfs, p) /\ Translate(p).path = Image(p)
    BY DEF Translate, PassesThrough
<1>2. Image(p) = Rootfs \o p
    BY DEF Image
<1>3. p # <<>> /\ Rootfs # <<>>
    <2>1. IsPrefix(<<>>, p)
        <3>1. <<>> \in Path /\ Len(<<>>) = 0
            BY EmptySeq DEF Path
        <3>2. Len(p) \in Nat
            BY LenProperties DEF Path
        <3>3. Len(<<>>) <= Len(p) /\ \A i \in 1..Len(<<>>) : <<>>[i] = p[i]
            BY <3>1, <3>2
        <3>4. QED BY <3>1, <3>3, PrefixByIndex
    <2>2. QED BY <1>1, <2>1 DEF IsAbsolute
<1>4. IsPrefix(Rootfs, Rootfs \o p)
    BY PathAssumption, PrefixOfItself, PrefixOfConcat
<1>5. Rootfs \o p # Rootfs
    BY <1>3, PathAssumption, ConcatEqualIffEmpty DEF Path
<1>6. Drop(Rootfs \o p, Len(Rootfs)) = p
    BY PathAssumption, DropOfConcat
<1>7. QED BY <1>1, <1>2, <1>3, <1>4, <1>5, <1>6 DEF StripRootfs

\* save_path never returns a pointer into TL_BUF: translate writes there only
\* what fits, and what fits is copied (lib.rs:238-256 with lib.rs:178, 211).
THEOREM SavePathIsPrivate ==
    ASSUME NEW p \in Path
    PROVE  SavedIsPrivate(p) /\ SavePath(p).path = Translate(p).path
BY DEF SavedIsPrivate, SavePath, Translate

(***************************************************************************)
(* Directories                                                             *)
(***************************************************************************)

LEMMA PathConcat ==
    ASSUME NEW s \in Path, NEW t \in Path
    PROVE  s \o t \in Path
BY ConcatProperties DEF Path

Associate(s, t, u) == (s \o t) \o u = s \o (t \o u)

LEMMA Associates ==
    ASSUME NEW s \in Path, NEW t \in Path, NEW u \in Path
    PROVE  Associate(s, t, u)
BY ConcatAssociative DEF Path, Associate

\* The rest of a longer path begins with the rest of its first part.
LEMMA DropAcross ==
    ASSUME NEW p \in Path, NEW q \in Path, NEW n \in Nat, n <= Len(p)
    PROVE  Drop(p \o q, n) = Drop(p, n) \o q
<1>1. Len(p) \in Nat /\ Len(q) \in Nat
    BY LenProperties DEF Path
<1>2. PICK s \in Path : s = SubSeq(p, 1, n) /\ Len(s) = n
    <2>1. \A i \in 1..n : p[i] \in Fragment
        BY <1>1, ElementOfSeq DEF Path
    <2>2. SubSeq(p, 1, n) \in Path /\ Len(SubSeq(p, 1, n)) = n
        BY <2>1, SubSeqProperties DEF Path
    <2>3. QED BY <2>2
<1>3. s \o Drop(p, n) = p
    <2>1. 1 \in 1..Len(p) + 1 /\ n \in 1 - 1..Len(p) /\ Len(p) \in n..Len(p)
        BY <1>1
    <2>2. SubSeq(p, 1, n) \o SubSeq(p, n + 1, Len(p)) = SubSeq(p, 1, Len(p))
        BY <2>1, ConcatAdjacentSubSeq DEF Path
    <2>3. QED BY <1>2, <2>2, SubSeqFull DEF Drop, Path
<1>4. PICK r \in Path : r = Drop(p, n)
    BY DropTyped
<1>5. s \o (r \o q) = (s \o r) \o q /\ r \o q \in Path
    <2>1. Associate(s, r, q)
        BY Associates
    <2>2. QED BY <2>1, PathConcat DEF Associate
<1>6. Drop(s \o (r \o q), Len(s)) = r \o q
    BY <1>5, DropOfConcat
<1>7. QED BY <1>2, <1>3, <1>4, <1>5, <1>6

LEMMA PrefixWithin ==
    ASSUME NEW m \in Path, NEW p \in Path, NEW q \in Path,
           IsPrefix(m, p \o q), Len(m) <= Len(p)
    PROVE  IsPrefix(m, p)
<1>1. p \o q \in Path
    BY ConcatProperties DEF Path
<1>2. IsPrefix(p, p \o q)
    BY PrefixOfItself, PrefixOfConcat
<1>3. QED BY <1>1, <1>2, PrefixesCompare

\* On a way that crosses nothing, the same prefixes apply at both ends.
LEMMA PrefixAlong ==
    ASSUME NEW p \in Path, NEW q \in Path, NEW m \in Mounts, m \in Path, ~Crosses(p, q)
    PROVE  IsPrefix(m, p \o q) <=> IsPrefix(m, p)
<1>1. Len(m) \in Nat /\ Len(p) \in Nat
    BY LenProperties DEF Path
<1>2. IsPrefix(m, p \o q) => Len(m) <= Len(p)
    BY <1>1 DEF Crosses
<1>3. QED BY <1>2, PrefixOfConcat, PrefixWithin

LEMMA UnderAlong ==
    ASSUME NEW p \in Path, NEW q \in Path, IsAbsolute(q),
           NEW m \in Mounts, m \in Path, ~Crosses(p, q)
    PROVE  Under(m, p \o q) <=> Under(m, p)
<1>1. Len(m) \in Nat /\ Len(p) \in Nat /\ Len(q) \in Nat
    BY LenProperties DEF Path
<1>2. IsPrefix(m, p \o q) <=> IsPrefix(m, p)
    BY PrefixAlong
<1>3. IsPrefix(m, p) => Len(m) <= Len(p)
    BY PrefixByIndex
<1>4. /\ Len(p \o q) = Len(p) + Len(q) /\ Len(q) > 0 /\ q[1] = Slash
      /\ \A i \in 1..Len(p) : (p \o q)[i] = p[i]
      /\ (p \o q)[Len(p) + 1] = q[1]
    <2>1. Len(q) > 0 /\ q[1] = Slash
        BY <1>1, EmptySeq DEF IsAbsolute, Path
    <2>2. QED BY <1>1, <2>1, ConcatProperties DEF Path
<1>5. ASSUME IsPrefix(m, p)
      PROVE  (Len(p \o q) > Len(m) => (p \o q)[Len(m) + 1] = Slash)
                <=> (Len(p) > Len(m) => p[Len(m) + 1] = Slash)
    <2>1. CASE Len(m) = Len(p)
        BY <1>1, <1>4, <2>1
    <2>2. CASE Len(m) < Len(p)
        <3>1. Len(m) + 1 \in 1..Len(p)
            BY <1>1, <2>2
        <3>2. QED BY <1>1, <1>4, <2>2, <3>1
    <2>3. QED BY <1>1, <1>3, <1>5, <2>1, <2>2
<1>6. QED BY <1>2, <1>5 DEF Under

LEMMA MountsTyped ==
    /\ Mounts \subseteq Path
    /\ Rootfs \in Mounts /\ HostDirs \subseteq Mounts
    /\ \A i \in 1..Len(Binds) : Binds[i].dst \in Mounts /\ Binds[i] \in [src : Path, dst : Path]
<1>1. \A i \in 1..Len(Binds) : Binds[i] \in [src : Path, dst : Path]
    BY PathAssumption, ElementOfSeq
<1>2. QED BY <1>1, PathAssumption DEF Mounts

LEMMA ImageAlong ==
    ASSUME NEW p \in Path, NEW q \in Path, IsAbsolute(q), ~Crosses(p, q)
    PROVE  Image(p \o q) = Image(p) \o q
<1>1. \A i \in 1..Len(Binds) : Under(Binds[i].dst, p \o q) <=> Under(Binds[i].dst, p)
    BY MountsTyped, UnderAlong
<1>2. FirstBind(p \o q) = FirstBind(p)
    <2> DEFINE First(x) == {i \in 1..Len(Binds) :
                              /\ Under(Binds[i].dst, x)
                              /\ \A j \in 1..(i - 1) : ~Under(Binds[j].dst, x)}
    <2>1. First(p \o q) = First(p)
        <3>1. \A i \in 1..Len(Binds) : 1..(i - 1) \subseteq 1..Len(Binds)
            BY PathAssumption, LenProperties
        <3>2. QED BY <1>1, <3>1
    <2>3. FirstBind(p \o q) = IF First(p \o q) = {} THEN 0 ELSE CHOOSE i \in First(p \o q) : TRUE
        BY Zenon DEF FirstBind
    <2>4. FirstBind(p) = IF First(p) = {} THEN 0 ELSE CHOOSE i \in First(p) : TRUE
        BY Zenon DEF FirstBind
    <2> HIDE DEF First
    <2>5. QED BY <2>1, <2>3, <2>4
<1>3. CASE FirstBind(p) = 0
    <2>1. PICK r \in Path : r = Rootfs
        BY PathAssumption
    <2>2. Associate(r, p, q)
        BY Associates
    <2>3. QED BY <1>2, <1>3, <2>1, <2>2 DEF Image, Associate
<1>4. CASE FirstBind(p) # 0
    <2> DEFINE b == Binds[FirstBind(p)]
    <2>1. b \in [src : Path, dst : Path] /\ IsPrefix(b.dst, p)
        BY <1>4, FirstBindMatches, MountsTyped DEF Under
    <2>2. Len(b.dst) \in Nat /\ Len(b.dst) <= Len(p) /\ Drop(p, Len(b.dst)) \in Path
        BY <2>1, PrefixAndRest, LenProperties DEF Path
    <2>3. Drop(p \o q, Len(b.dst)) = Drop(p, Len(b.dst)) \o q
        BY <2>2, DropAcross
    <2>4. Image(p \o q) = b.src \o (Drop(p, Len(b.dst)) \o q)
        BY <1>2, <1>4, <2>3 DEF Image
    <2>5. Image(p) = b.src \o Drop(p, Len(b.dst))
        BY <1>4 DEF Image
    <2>6. PICK r \in Path : r = Drop(p, Len(b.dst))
        BY <2>2
    <2>7. PICK s \in Path : s = b.src
        BY <2>1
    <2>8. Associate(s, r, q)
        BY Associates
    <2>9. QED BY <2>4, <2>5, <2>6, <2>7, <2>8 DEF Associate
<1>5. QED BY <1>3, <1>4

\* A name below a directory is translated to that name below the directory's
\* translation, for every rootfs and every list of binds, as long as it fits
\* and no other place begins on the way: an *at call that goes by a translated
\* directory's descriptor and a call by the whole path mean the same file
\* (lib.rs:145-223).
THEOREM TranslationDescends ==
    ASSUME NEW p \in Path, NEW q \in Path
    PROVE  Descends(p, q)
<1> SUFFICES ASSUME IsAbsolute(p), IsAbsolute(q), ~Crosses(p, q),
                    Len(Image(p \o q)) < BufLen
             PROVE  Translate(p \o q).path = Translate(p).path \o q
    BY DEF Descends
<1>1. Image(p) \in Path /\ Image(p \o q) = Image(p) \o q
    BY ImageTyped, ImageAlong
<1>2. Len(Image(p)) < BufLen
    <2>1. Len(Image(p) \o q) = Len(Image(p)) + Len(q) /\ Len(q) \in Nat
        BY <1>1, ConcatProperties, LenProperties DEF Path
    <2>2. QED BY <1>1, <2>1, PathAssumption, LenProperties DEF Path
<1>3. IsAbsolute(p \o q)
    <2>1. Len(p) \in Nat /\ Len(q) \in Nat /\ Len(p) # 0
        BY LenProperties, EmptySeq DEF IsAbsolute, Path
    <2>2. Len(p \o q) # 0 /\ (p \o q)[1] = p[1]
        BY <2>1, ConcatProperties DEF Path
    <2>3. QED BY <2>2, EmptySeq DEF IsAbsolute
<1>4. PassesThrough(p \o q) <=> PassesThrough(p)
    BY MountsTyped, PrefixAlong DEF PassesThrough
<1>5. QED BY <1>1, <1>2, <1>3, <1>4 DEF Translate

\* The runner's table and the hooks send each path of the table to the same
\* place, whichever of its prefixes the hash map finds first
\* (intercept/mod.rs:36-51 against lib.rs:145-223).
THEOREM TheTranslatorsAgree ==
    ASSUME NEW p \in Path
    PROVE  TableAgrees(p)
<1> SUFFICES ASSUME \E m \in Mapped : Under(m, p), FirstBind(p) = 0, Len(Image(p)) < BufLen
             PROVE  TableTranslate(p) = Translate(p).path
    BY DEF TableAgrees
<1>1. PICK m \in Mapped : /\ Under(m, p)
                          /\ TableTranslate(p) =
                               IF \/ \E d \in HostDirs : IsPrefix(d \o <<Slash>>, p)
                                  \/ IsPrefix(Rootfs, p)
                               THEN p ELSE Rootfs \o m \o Drop(p, Len(m))
    BY DEF TableTranslate
<1>2. m \in Path /\ IsPrefix(m, p)
    BY <1>1, PathAssumption DEF Under
<1>3. p = m \o Drop(p, Len(m)) /\ Drop(p, Len(m)) \in Path
    BY <1>2, PrefixAndRest
<1>4. IsAbsolute(p)
    <2>1. Len(m) \in Nat /\ Len(m) # 0 /\ m[1] = Slash
        BY <1>2, MappedAssumption, LenProperties, EmptySeq DEF Path
    <2>2. Len(m) <= Len(p) /\ p[1] = m[1]
        BY <1>2, <2>1, PrefixByIndex
    <2>3. Len(p) \in Nat
        BY LenProperties DEF Path
    <2>4. QED BY <2>1, <2>2, <2>3, EmptySeq DEF IsAbsolute
<1>5. ASSUME NEW d \in HostDirs
      PROVE  ~IsPrefix(d, p)
    <2>1. d \in Path /\ Len(d) \in Nat /\ Len(m) \in Nat
        BY <1>2, PathAssumption, LenProperties DEF Path
    <2>2. ~IsPrefix(d, m) /\ ~IsPrefix(m, d)
        BY MappedAssumption
    <2>3. QED BY <1>2, <2>1, <2>2, PrefixesCompare
<1>6. ASSUME NEW d \in HostDirs
      PROVE  ~IsPrefix(d \o <<Slash>>, p)
    <2>1. d \in Path /\ <<Slash>> \in Path /\ d \o <<Slash>> \in Path
        BY PathAssumption, ConcatProperties DEF Path
    <2>2. IsPrefix(d, d \o <<Slash>>)
        BY <2>1, PrefixOfItself, PrefixOfConcat
    <2>3. SUFFICES ASSUME IsPrefix(d \o <<Slash>>, p)
                   PROVE  IsPrefix(d, p)
        BY <1>5
    <2>4. p = (d \o <<Slash>>) \o Drop(p, Len(d \o <<Slash>>))
          /\ Drop(p, Len(d \o <<Slash>>)) \in Path
        BY <2>1, <2>3, PrefixAndRest
    <2>5. QED BY <2>1, <2>2, <2>4, PrefixOfConcat
<1>7. CASE IsPrefix(Rootfs, p)
    BY <1>1, <1>7 DEF Translate, PassesThrough
<1>8. CASE ~IsPrefix(Rootfs, p)
    <2>1. Translate(p).path = Rootfs \o p
        BY <1>4, <1>5, <1>8 DEF Translate, PassesThrough, Image
    <2>2. TableTranslate(p) = Rootfs \o m \o Drop(p, Len(m))
        BY <1>1, <1>6, <1>8
    <2>3. PICK r \in Path : r = Drop(p, Len(m))
        BY <1>3
    <2>4. (Rootfs \o m) \o r = Rootfs \o (m \o r)
        <3>1. PICK s \in Path, t \in Path : s = Rootfs /\ t = m
            BY <1>2, PathAssumption
        <3>2. Associate(s, t, r)
            BY Associates
        <3>3. QED BY <3>1, <3>2 DEF Associate
    <2>5. QED BY <1>3, <2>1, <2>2, <2>3, <2>4
<1>9. QED BY <1>7, <1>8
=============================================================================
