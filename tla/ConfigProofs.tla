---------------------------- MODULE ConfigProofs ----------------------------
(***************************************************************************)
(* Theorems about Config, for any number of threads, any cells and kinds   *)
(* of hooks, and any nesting of signal handlers.                           *)
(***************************************************************************)
EXTENDS Config, SequenceTheorems, TLAPS

Frame == [needs : Seq(Cells), step : {"get", "init", "fill"}, read : Values]
Cell  == [state : {"empty", "running", "full"}, by : SUBSET Threads, value : Values]

TypeOK ==
    /\ env \in [Cells -> Values] /\ first \in [Cells -> Values]
    /\ cell \in [Cells -> Cell]
    /\ frames \in [Threads -> Seq(Frame)]
    /\ alive \in SUBSET Threads /\ early \in SUBSET Cells
    /\ seen \in SUBSET (Cells \X Values)

\* Call k of thread t fills cell c.
Fills(t, k, c) ==
    /\ frames[t][k].step \in {"init", "fill"}
    /\ frames[t][k].needs # <<>> /\ Head(frames[t][k].needs) = c
Calls(t) == 1..Len(frames[t])

\* A call that is past "get" fills a cell, which is marked as being filled.
Marked ==
    \A t \in Threads : \A k \in Calls(t) :
        frames[t][k].step # "get" =>
            \E c \in Cells : Fills(t, k, c) /\ cell[c].state = "running"

\* No two calls fill one cell.
Exclusive ==
    \A t, u \in Threads : \A k \in Calls(t), l \in Calls(u) : \A c \in Cells :
        Fills(t, k, c) /\ Fills(u, l, c) => t = u /\ k = l

\* Until it is full a cell's variable is as it was, unless it is in early;
\* and what has been read of it, or is in it, is that too.
Fresh ==
    /\ \A c \in Cells \ early :
          IF cell[c].state = "full" THEN cell[c].value = first[c] ELSE env[c] = first[c]
    /\ \A t \in Threads : \A k \in Calls(t) : \A c \in Cells \ early :
          Fills(t, k, c) /\ frames[t][k].step = "fill" => frames[t][k].read = first[c]

\* What a hook has seen of a cell is what is in it, for good.
Kept == \A s \in seen : cell[s[1]].state = "full" /\ cell[s[1]].value = s[2]

IInv == TypeOK /\ Marked /\ Exclusive /\ Fresh /\ Kept

(***************************************************************************)
(* Calls                                                                   *)
(***************************************************************************)

LEMMA NeedsTyped == \A n \in Needs : n \in Seq(Cells)
<1> SUFFICES ASSUME NEW n \in Needs PROVE n \in Seq(Cells)
    OBVIOUS
<1>1. n \in Seq(STRING)
    BY ConfigAssumption
<1>2. \A i \in 1..Len(n) : n[i] \in Cells
    BY <1>1 DEF Cells, ToSet
<1>3. QED BY <1>1, <1>2

\* The innermost call of a thread.
LEMMA TopTyped ==
    ASSUME TypeOK, NEW t \in Threads, frames[t] # <<>>
    PROVE  /\ Len(frames[t]) \in Calls(t)
           /\ Top(t) = frames[t][Len(frames[t])] /\ Top(t) \in Frame
           /\ Top(t).needs # <<>> =>
                 Wants(t) \in Cells /\ Tail(Top(t).needs) \in Seq(Cells)
<1>1. frames[t] \in Seq(Frame)
    BY DEF TypeOK
<1>2. Len(frames[t]) \in Calls(t)
    BY <1>1 DEF Calls
<1>3. Top(t) \in Frame
    BY <1>1, <1>2 DEF Top, Calls
<1>4. Top(t).needs \in Seq(Cells)
    BY <1>3 DEF Frame
<1>5. QED BY <1>2, <1>3, <1>4 DEF Top, Wants

\* Becomes replaces the innermost call and leaves the others.
LEMMA BecomesTop ==
    ASSUME TypeOK, NEW t \in Threads, frames[t] # <<>>, NEW f \in Frame, Becomes(t, f)
    PROVE  /\ frames' \in [Threads -> Seq(Frame)]
           /\ \A u \in Threads : Calls(u)' = Calls(u)
           /\ \A u \in Threads : \A k \in Calls(u) :
                 frames'[u][k] = IF u = t /\ k = Len(frames[t]) THEN f ELSE frames[u][k]
<1>1. frames \in [Threads -> Seq(Frame)]
    BY DEF TypeOK
<1>2. frames[t] \in Seq(Frame) /\ Len(frames[t]) \in 1..Len(frames[t])
    BY <1>1
<1> DEFINE s == [frames[t] EXCEPT ![Len(frames[t])] = f]
<1>3. frames' = [frames EXCEPT ![t] = s]
    BY DEF Becomes
<1>4. s \in Seq(Frame) /\ Len(s) = Len(frames[t])
    BY <1>2
<1>5. \A k \in 1..Len(frames[t]) : s[k] = IF k = Len(frames[t]) THEN f ELSE frames[t][k]
    BY <1>2
<1> HIDE DEF s
<1>6. frames' \in [Threads -> Seq(Frame)] /\ frames'[t] = s
      /\ \A u \in Threads : u # t => frames'[u] = frames[u]
    BY <1>1, <1>3, <1>4
<1>7. \A u \in Threads : Calls(u)' = Calls(u)
    BY <1>4, <1>6 DEF Calls
<1>8. QED BY <1>5, <1>6, <1>7 DEF Calls

LEMMA InTop ==
    ASSUME TypeOK, NEW t \in Threads, NEW step, In(t, step)
    PROVE  /\ frames[t] # <<>> /\ Top(t) \in Frame /\ Top(t).step = step
           /\ Len(frames[t]) \in Calls(t)
           /\ Top(t) = frames[t][Len(frames[t])]
BY TopTyped DEF In

(***************************************************************************)
(* The steps of a hook                                                     *)
(***************************************************************************)

LEMMA CallInv ==
    ASSUME IInv, NEW t \in Threads, Call(t)
    PROVE  IInv'
<1> USE DEF IInv
<1>1. PICK n \in Needs :
         frames' = [frames EXCEPT ![t] = Append(@, [needs |-> n, step |-> "get", read |-> Unset])]
    BY DEF Call
<1> DEFINE f == [needs |-> n, step |-> "get", read |-> Unset]
<1>2. f \in Frame /\ f.step = "get"
    BY NeedsTyped, ConfigAssumption DEF Frame
<1> HIDE DEF f
<1>3. frames' = [frames EXCEPT ![t] = Append(frames[t], f)]
    BY <1>1 DEF f
<1>4. frames \in [Threads -> Seq(Frame)] /\ frames[t] \in Seq(Frame)
    BY DEF TypeOK
<1>5. frames' \in [Threads -> Seq(Frame)]
    BY <1>2, <1>3, <1>4
<1>6. UNCHANGED <<env, cell, alive, early, first, seen>>
    BY DEF Call
<1>7. ASSUME NEW u \in Threads, NEW k \in Calls(u)'
      PROVE  IF k \in Calls(u) THEN frames'[u][k] = frames[u][k]
             ELSE frames'[u][k].step = "get"
    <2>1. CASE u = t
        <3>1. frames'[u] = Append(frames[t], f) /\ Len(frames'[u]) = Len(frames[t]) + 1
            BY <1>2, <1>3, <1>4, <2>1
        <3>2. k \in 1..Len(frames[t]) + 1
            BY <3>1 DEF Calls
        <3>3. QED BY <1>2, <1>4, <2>1, <3>1, <3>2 DEF Calls
    <2>2. CASE u # t
        BY <1>3, <1>4, <2>2 DEF Calls
    <2>3. QED BY <2>1, <2>2
<1>8. TypeOK'
    BY <1>5, <1>6 DEF TypeOK
<1>9. Marked'
    BY <1>6, <1>7 DEF Marked, Fills
<1>10. Exclusive'
    BY <1>7 DEF Exclusive, Fills
<1>11. Fresh'
    BY <1>6, <1>7 DEF Fresh, Fills
<1>12. Kept'
    BY <1>6 DEF Kept
<1>13. QED BY <1>8, <1>9, <1>10, <1>11, <1>12

\* A hook finds its cell full.
LEMMA GetInv ==
    ASSUME IInv, NEW t \in Threads, Get(t)
    PROVE  IInv'
<1> USE DEF IInv
<1> DEFINE c == Wants(t)
           f == [Top(t) EXCEPT !.needs = Tail(@)]
<1>1. frames[t] # <<>> /\ Top(t) \in Frame /\ Top(t).step = "get"
      /\ c \in Cells /\ Tail(Top(t).needs) \in Seq(Cells)
    BY InTop, TopTyped DEF Get
<1>2. f \in Frame /\ f.step = "get" /\ Becomes(t, f)
    BY <1>1 DEF Get, Frame
<1>3. cell[c].state = "full" /\ seen' = seen \cup {<<c, cell[c].value>>}
      /\ UNCHANGED <<env, cell, alive, early, first>>
    BY DEF Get
<1> HIDE DEF c, f
<1>4. /\ frames' \in [Threads -> Seq(Frame)]
      /\ \A u \in Threads : Calls(u)' = Calls(u)
      /\ \A u \in Threads : \A k \in Calls(u) :
            frames'[u][k] = frames[u][k] \/ frames'[u][k].step = "get"
    BY <1>1, <1>2, BecomesTop
<1>5. cell[c].value \in Values
    BY <1>1 DEF TypeOK, Cell
<1>6. TypeOK'
    BY <1>1, <1>3, <1>4, <1>5 DEF TypeOK
<1>7. Marked'
    BY <1>3, <1>4 DEF Marked, Fills
<1>8. Exclusive'
    BY <1>4 DEF Exclusive, Fills
<1>9. Fresh'
    BY <1>3, <1>4 DEF Fresh, Fills
<1>10. Kept'
    BY <1>3 DEF Kept
<1>11. QED BY <1>6, <1>7, <1>8, <1>9, <1>10

\* A hook begins to fill a cell that nobody fills.
LEMMA BeginInv ==
    ASSUME IInv, NEW t \in Threads, Begin(t)
    PROVE  IInv'
<1> USE DEF IInv
<1>1. frames[t] # <<>> /\ Top(t) \in Frame /\ Top(t).step = "get"
      /\ Wants(t) \in Cells /\ Top(t).needs # <<>> /\ Len(frames[t]) \in Calls(t)
    BY InTop, TopTyped DEF Begin
<1>2. PICK c \in Cells, n \in Calls(t) : c = Wants(t) /\ n = Len(frames[t])
    BY <1>1
<1>3. PICK f \in Frame : f = [Top(t) EXCEPT !.step = "init"]
    BY <1>1 DEF Frame
<1>4. f.step = "init" /\ f.needs # <<>> /\ Head(f.needs) = c
    BY <1>1, <1>2, <1>3 DEF Frame, Wants
<1>5. cell[c].state = "empty"
      /\ cell' = [cell EXCEPT ![c] = [state |-> "running", by |-> {t}, value |-> Unset]]
      /\ UNCHANGED <<env, alive, early, first, seen>>
    BY <1>2 DEF Begin
<1>6. /\ frames' \in [Threads -> Seq(Frame)]
      /\ \A u \in Threads : Calls(u)' = Calls(u)
      /\ \A u \in Threads : \A k \in Calls(u) :
            frames'[u][k] = IF u = t /\ k = n THEN f ELSE frames[u][k]
    BY <1>1, <1>2, <1>3, BecomesTop DEF Begin
<1>7. [state |-> "running", by |-> {t}, value |-> Unset] \in Cell
    BY ConfigAssumption DEF Cell
<1>8. cell' \in [Cells -> Cell] /\ cell'[c].state = "running"
      /\ \A d \in Cells : d # c => cell'[d] = cell[d]
    BY <1>5, <1>7 DEF TypeOK
<1>9. \A u \in Threads : \A k \in Calls(u) : ~Fills(u, k, c)
    BY <1>5 DEF Marked, Fills
<1>10. TypeOK'
    BY <1>5, <1>6, <1>8 DEF TypeOK
<1>11. Marked'
    <2> SUFFICES ASSUME NEW u \in Threads, NEW k \in Calls(u), frames'[u][k].step # "get"
                 PROVE  \E d \in Cells : Fills(u, k, d)' /\ cell'[d].state = "running"
        BY <1>6 DEF Marked
    <2>1. CASE u = t /\ k = n
        <3>1. Fills(u, k, c)'
            BY <1>4, <1>6, <2>1 DEF Fills
        <3>2. QED BY <1>8, <3>1
    <2>2. CASE ~(u = t /\ k = n)
        <3>1. PICK d \in Cells : Fills(u, k, d) /\ cell[d].state = "running"
            BY <1>6, <2>2 DEF Marked
        <3>2. Fills(u, k, d)'
            BY <1>6, <2>2, <3>1 DEF Fills
        <3>3. QED BY <1>8, <3>1, <3>2
    <2>3. QED BY <2>1, <2>2
<1>12. Exclusive'
    <2> SUFFICES ASSUME NEW u \in Threads, NEW w \in Threads, NEW k \in Calls(u),
                        NEW l \in Calls(w), NEW d \in Cells, Fills(u, k, d)', Fills(w, l, d)'
                 PROVE  u = w /\ k = l
        BY <1>6 DEF Exclusive
    <2>1. ASSUME NEW v \in Threads, NEW j \in Calls(v), Fills(v, j, d)'
          PROVE  IF v = t /\ j = n THEN d = c ELSE d # c /\ Fills(v, j, d)
        BY <1>4, <1>6, <1>9, <2>1 DEF Fills
    <2>2. QED BY <2>1 DEF Exclusive
<1>13. Fresh'
    <2>1. \A d \in Cells \ early :
             IF cell'[d].state = "full" THEN cell'[d].value = first[d] ELSE env[d] = first[d]
        BY <1>5, <1>8 DEF Fresh
    <2>2. \A u \in Threads : \A k \in Calls(u) :
              frames'[u][k].step = "fill" => frames'[u][k] = frames[u][k]
        BY <1>4, <1>6
    <2>3. \A u \in Threads : \A k \in Calls(u) : \A d \in Cells \ early :
             Fills(u, k, d)' /\ frames'[u][k].step = "fill" => frames'[u][k].read = first[d]
        BY <2>2 DEF Fresh, Fills
    <2>4. QED BY <1>5, <1>6, <2>1, <2>3 DEF Fresh
<1>14. Kept'
    BY <1>5, <1>8 DEF Kept, TypeOK
<1>15. QED BY <1>10, <1>11, <1>12, <1>13, <1>14

\* A hook that fills a cell reads the environment.
LEMMA ReadInv ==
    ASSUME IInv, NEW t \in Threads, Read(t)
    PROVE  IInv'
<1> USE DEF IInv
<1>1. frames[t] # <<>> /\ Top(t) \in Frame /\ Top(t).step = "init"
      /\ Len(frames[t]) \in Calls(t) /\ Top(t) = frames[t][Len(frames[t])]
    BY InTop DEF Read
<1>2. PICK n \in Calls(t) : n = Len(frames[t])
    BY <1>1
<1>3. PICK c \in Cells : Fills(t, n, c) /\ cell[c].state = "running"
    BY <1>1, <1>2 DEF Marked
<1>4. Wants(t) = c /\ env[c] \in Values
    BY <1>1, <1>2, <1>3 DEF Fills, Wants, TypeOK
<1>5. PICK f \in Frame : f = [Top(t) EXCEPT !.step = "fill", !.read = env[c]]
    BY <1>1, <1>4 DEF Frame
<1>6. f.step = "fill" /\ f.read = env[c] /\ f.needs = frames[t][n].needs
      /\ f.needs # <<>> /\ Head(f.needs) = c
    BY <1>1, <1>2, <1>3, <1>5 DEF Frame, Fills
<1>7. UNCHANGED <<env, cell, alive, early, first, seen>>
    BY DEF Read
<1>8. /\ frames' \in [Threads -> Seq(Frame)]
      /\ \A u \in Threads : Calls(u)' = Calls(u)
      /\ \A u \in Threads : \A k \in Calls(u) :
            frames'[u][k] = IF u = t /\ k = n THEN f ELSE frames[u][k]
    BY <1>1, <1>2, <1>4, <1>5, BecomesTop DEF Read
<1>9. \A u \in Threads : \A k \in Calls(u) : \A d \in Cells :
         Fills(u, k, d)' <=> Fills(u, k, d)
    <2> SUFFICES ASSUME NEW u \in Threads, NEW k \in Calls(u), NEW d \in Cells
                 PROVE  Fills(u, k, d)' <=> Fills(u, k, d)
        OBVIOUS
    <2>1. CASE u = t /\ k = n
        BY <1>3, <1>6, <1>8, <2>1 DEF Fills
    <2>2. CASE ~(u = t /\ k = n)
        BY <1>8, <2>2 DEF Fills
    <2>3. QED BY <2>1, <2>2
<1>10. TypeOK'
    BY <1>7, <1>8 DEF TypeOK
<1>11. Marked'
    <2> SUFFICES ASSUME NEW u \in Threads, NEW k \in Calls(u), frames'[u][k].step # "get"
                 PROVE  \E d \in Cells : Fills(u, k, d)' /\ cell'[d].state = "running"
        BY <1>8 DEF Marked
    <2>1. frames[u][k].step # "get"
        BY <1>3, <1>8 DEF Fills
    <2>2. QED BY <1>7, <1>9, <2>1 DEF Marked
<1>12. Exclusive'
    BY <1>8, <1>9 DEF Exclusive
<1>13. Fresh'
    <2>1. \A u \in Threads : \A k \in Calls(u) : \A d \in Cells \ early :
             Fills(u, k, d)' /\ frames'[u][k].step = "fill" => frames'[u][k].read = first[d]
        <3> SUFFICES ASSUME NEW u \in Threads, NEW k \in Calls(u), NEW d \in Cells \ early,
                            Fills(u, k, d), frames'[u][k].step = "fill"
                     PROVE  frames'[u][k].read = first[d]
            BY <1>9
        <3>1. CASE u = t /\ k = n
            <4>1. d = c
                BY <1>3, <3>1 DEF Fills
            <4>2. QED BY <1>3, <1>6, <1>8, <3>1, <4>1 DEF Fresh
        <3>2. CASE ~(u = t /\ k = n)
            BY <1>8, <3>2 DEF Fresh
        <3>3. QED BY <3>1, <3>2
    <2>2. QED BY <1>7, <1>8, <2>1 DEF Fresh
<1>14. Kept'
    BY <1>7 DEF Kept
<1>15. QED BY <1>10, <1>11, <1>12, <1>13, <1>14

\* A hook fills its cell; nobody else was filling it, and nobody had seen it.
LEMMA FillInv ==
    ASSUME IInv, NEW t \in Threads, Fill(t)
    PROVE  IInv'
<1> USE DEF IInv
<1>1. frames[t] # <<>> /\ Top(t) \in Frame /\ Top(t).step = "fill"
      /\ Len(frames[t]) \in Calls(t) /\ Top(t) = frames[t][Len(frames[t])]
    BY InTop DEF Fill
<1>2. PICK n \in Calls(t) : n = Len(frames[t])
    BY <1>1
<1>3. PICK c \in Cells : Fills(t, n, c) /\ cell[c].state = "running"
    BY <1>1, <1>2 DEF Marked
<1>4. PICK v \in Values : v = Top(t).read
    BY <1>1 DEF Frame
<1>5. Wants(t) = c /\ Top(t).needs # <<>>
    BY <1>1, <1>2, <1>3 DEF Fills, Wants
<1>6. Tail(Top(t).needs) \in Seq(Cells)
    BY <1>1, <1>5, TopTyped
<1>7. PICK f \in Frame : f = [Top(t) EXCEPT !.step = "get", !.needs = Tail(@)]
    BY <1>1, <1>6 DEF Frame
<1>8. f.step = "get"
    BY <1>1, <1>7 DEF Frame
<1>9. /\ cell' = [cell EXCEPT ![c] = [state |-> "full", by |-> {}, value |-> v]]
      /\ seen' = seen \cup {<<c, v>>}
      /\ UNCHANGED <<env, alive, early, first>>
    BY <1>4, <1>5 DEF Fill
<1>10. /\ frames' \in [Threads -> Seq(Frame)]
       /\ \A u \in Threads : Calls(u)' = Calls(u)
       /\ \A u \in Threads : \A k \in Calls(u) :
             frames'[u][k] = IF u = t /\ k = n THEN f ELSE frames[u][k]
    BY <1>1, <1>2, <1>7, BecomesTop DEF Fill
<1>11. [state |-> "full", by |-> {}, value |-> v] \in Cell
    BY DEF Cell
<1>12. cell' \in [Cells -> Cell] /\ cell'[c].state = "full" /\ cell'[c].value = v
       /\ \A d \in Cells : d # c => cell'[d] = cell[d]
    BY <1>9, <1>11 DEF TypeOK
<1>13. ASSUME NEW u \in Threads, NEW k \in Calls(u), NEW d \in Cells, Fills(u, k, d)'
       PROVE  d # c /\ ~(u = t /\ k = n) /\ Fills(u, k, d) /\ frames'[u][k] = frames[u][k]
    <2>1. ~(u = t /\ k = n)
        BY <1>8, <1>10, <1>13 DEF Fills
    <2>2. frames'[u][k] = frames[u][k]
        BY <1>10, <2>1
    <2>3. Fills(u, k, d)
        BY <1>13, <2>2 DEF Fills
    <2>4. QED BY <1>3, <2>1, <2>2, <2>3 DEF Exclusive
<1>14. TypeOK'
    BY <1>9, <1>10, <1>12 DEF TypeOK
<1>15. Marked'
    <2> SUFFICES ASSUME NEW u \in Threads, NEW k \in Calls(u), frames'[u][k].step # "get"
                 PROVE  \E d \in Cells : Fills(u, k, d)' /\ cell'[d].state = "running"
        BY <1>10 DEF Marked
    <2>1. frames'[u][k] = frames[u][k]
        BY <1>8, <1>10
    <2>2. PICK d \in Cells : Fills(u, k, d) /\ cell[d].state = "running"
        BY <2>1 DEF Marked
    <2>3. Fills(u, k, d)'
        BY <2>1, <2>2 DEF Fills
    <2>4. QED BY <1>12, <1>13, <2>2, <2>3
<1>16. Exclusive'
    BY <1>10, <1>13 DEF Exclusive
<1>17. Fresh'
    <2>1. c \notin early => v = first[c]
        BY <1>1, <1>2, <1>3, <1>4 DEF Fresh
    <2>2. \A d \in Cells \ early :
             IF cell'[d].state = "full" THEN cell'[d].value = first[d] ELSE env[d] = first[d]
        BY <1>12, <2>1 DEF Fresh
    <2>3. \A u \in Threads : \A k \in Calls(u) : \A d \in Cells \ early :
             Fills(u, k, d)' /\ frames'[u][k].step = "fill" => frames'[u][k].read = first[d]
        BY <1>13 DEF Fresh
    <2>4. QED BY <1>9, <1>10, <2>2, <2>3 DEF Fresh
<1>18. Kept'
    <2>1. \A s \in seen : s[1] \in Cells /\ s[1] # c
        BY <1>3 DEF Kept, TypeOK
    <2>2. QED BY <1>9, <1>12, <2>1 DEF Kept
<1>19. QED BY <1>14, <1>15, <1>16, <1>17, <1>18

\* A hook returns; only a call that fills nothing does.
LEMMA ReturnInv ==
    ASSUME IInv, NEW t \in Threads, Return(t)
    PROVE  IInv'
<1> USE DEF IInv
<1>1. frames[t] # <<>>
    BY InTop DEF Return
<1>2. frames' = [frames EXCEPT ![t] = SubSeq(frames[t], 1, Len(frames[t]) - 1)]
      /\ UNCHANGED <<env, cell, alive, early, first, seen>>
    BY DEF Return
<1>3. frames \in [Threads -> Seq(Frame)] /\ frames[t] \in Seq(Frame)
      /\ Len(frames[t]) \in Nat \ {0}
    BY <1>1 DEF TypeOK
<1>4. PICK s : s = SubSeq(frames[t], 1, Len(frames[t]) - 1)
    OBVIOUS
<1>5. s \in Seq(Frame) /\ Len(s) = Len(frames[t]) - 1
      /\ \A k \in 1..Len(frames[t]) - 1 : s[k] = frames[t][k]
    <2>1. PICK n \in Nat : n = Len(frames[t]) - 1
        BY <1>3
    <2>2. \A k \in 1..n : frames[t][k] \in Frame
        BY <1>3, <2>1
    <2>3. s \in Seq(Frame) /\ Len(s) = (IF 1 <= n THEN n - 1 + 1 ELSE 0)
          /\ \A k \in 1..n - 1 + 1 : s[k] = frames[t][1 + k - 1]
        BY <1>4, <2>1, <2>2, SubSeqProperties
    <2>4. QED BY <2>1, <2>3
<1>6. frames' \in [Threads -> Seq(Frame)] /\ frames'[t] = s
      /\ \A u \in Threads : u # t => frames'[u] = frames[u]
    BY <1>2, <1>3, <1>4, <1>5
<1>7. ASSUME NEW u \in Threads, NEW k \in Calls(u)'
      PROVE  k \in Calls(u) /\ frames'[u][k] = frames[u][k]
    <2>1. CASE u = t
        BY <1>3, <1>5, <1>6, <2>1 DEF Calls
    <2>2. CASE u # t
        BY <1>6, <2>2 DEF Calls
    <2>3. QED BY <2>1, <2>2
<1>8. TypeOK'
    BY <1>2, <1>6 DEF TypeOK
<1>9. Marked'
    <2> SUFFICES ASSUME NEW u \in Threads, NEW k \in Calls(u)', frames'[u][k].step # "get"
                 PROVE  \E d \in Cells : Fills(u, k, d)' /\ cell'[d].state = "running"
        BY DEF Marked
    <2>1. PICK d \in Cells : Fills(u, k, d) /\ cell[d].state = "running"
        BY <1>7 DEF Marked
    <2>2. QED BY <1>2, <1>7, <2>1 DEF Fills
<1>10. Exclusive'
    BY <1>7 DEF Exclusive, Fills
<1>11. Fresh'
    <2>1. \A u \in Threads : \A k \in Calls(u)' : \A d \in Cells \ early :
             Fills(u, k, d)' /\ frames'[u][k].step = "fill" => frames'[u][k].read = first[d]
        BY <1>7 DEF Fresh, Fills
    <2>2. QED BY <1>2, <2>1 DEF Fresh
<1>12. Kept'
    BY <1>2 DEF Kept
<1>13. QED BY <1>8, <1>9, <1>10, <1>11, <1>12

(***************************************************************************)
(* The program                                                             *)
(***************************************************************************)

\* With no calls left there is nothing to say of them.
LEMMA NoCalls ==
    ASSUME frames' = [u \in Threads |-> <<>>]
    PROVE  frames' \in [Threads -> Seq(Frame)] /\ \A u \in Threads : Calls(u)' = {}
BY EmptySeq DEF Calls

LEMMA SetenvInv ==
    ASSUME IInv, NEW t \in Threads, Setenv(t)
    PROVE  IInv'
<1> USE DEF IInv
<1>1. PICK c \in Cells, v \in Values :
         /\ env' = [env EXCEPT ![c] = v]
         /\ early' = IF cell[c].state = "full" THEN early ELSE early \cup {c}
    BY DEF Setenv
<1>2. UNCHANGED <<cell, frames, alive, first, seen>>
    BY DEF Setenv
<1>3. TypeOK'
    BY <1>1, <1>2 DEF TypeOK
<1>4. Marked' /\ Exclusive' /\ Kept'
    BY <1>2 DEF Marked, Exclusive, Kept, Fills, Calls
<1>5. early \subseteq early'
    BY <1>1
<1>6. ASSUME NEW d \in Cells \ early'
      PROVE  IF cell[d].state = "full" THEN cell[d].value = first[d] ELSE env'[d] = first[d]
    <2>1. d \in Cells \ early
        BY <1>5
    <2>2. CASE d = c
        BY <1>1, <2>1, <2>2 DEF Fresh
    <2>3. CASE d # c
        BY <1>1, <2>1, <2>3 DEF Fresh, TypeOK
    <2>4. QED BY <2>2, <2>3
<1>7. \A u \in Threads : \A k \in Calls(u) : \A d \in Cells \ early' :
         Fills(u, k, d) /\ frames[u][k].step = "fill" => frames[u][k].read = first[d]
    BY <1>5 DEF Fresh
<1>8. Fresh'
    BY <1>2, <1>6, <1>7 DEF Fresh, Fills, Calls
<1>9. QED BY <1>3, <1>4, <1>8

\* The child has its parent's cells and none of its calls.
LEMMA ForkInv ==
    ASSUME IInv, NEW t \in Threads, Fork(t)
    PROVE  IInv'
<1> USE DEF IInv
<1>1. frames' \in [Threads -> Seq(Frame)] /\ \A u \in Threads : Calls(u)' = {}
    BY NoCalls DEF Fork
<1>2. alive' = {t} /\ UNCHANGED <<env, cell, early, first, seen>>
    BY DEF Fork
<1>3. TypeOK'
    BY <1>1, <1>2 DEF TypeOK
<1>4. Marked' /\ Exclusive'
    BY <1>1 DEF Marked, Exclusive
<1>5. Fresh' /\ Kept'
    BY <1>1, <1>2 DEF Fresh, Kept
<1>6. QED BY <1>3, <1>4, <1>5

LEMMA EmptyTyped == Empty \in Cell /\ Empty.state = "empty"
BY ConfigAssumption DEF Empty, Cell

\* A new program starts anew.
LEMMA ExecInv ==
    ASSUME IInv, NEW t \in Threads, Exec(t)
    PROVE  IInv'
<1> USE DEF IInv
<1>1. frames' \in [Threads -> Seq(Frame)] /\ \A u \in Threads : Calls(u)' = {}
    BY NoCalls DEF Exec
<1>2. cell' = [c \in Cells |-> Empty] /\ alive' = Threads
      /\ early' = {} /\ first' = env /\ seen' = {} /\ env' = env
    BY DEF Exec
<1>3. TypeOK'
    BY <1>1, <1>2, EmptyTyped DEF TypeOK
<1>4. Marked' /\ Exclusive'
    BY <1>1 DEF Marked, Exclusive
<1>5. Fresh' /\ Kept'
    BY <1>1, <1>2, EmptyTyped DEF Fresh, Kept
<1>6. QED BY <1>3, <1>4, <1>5

LEMMA InitInv == Init => IInv
<1> SUFFICES ASSUME Init PROVE IInv
    OBVIOUS
<1>1. frames \in [Threads -> Seq(Frame)] /\ \A u \in Threads : Calls(u) = {}
    BY EmptySeq DEF Init, Calls
<1>2. cell = [c \in Cells |-> Empty] /\ alive = Threads /\ early = {} /\ seen = {}
      /\ env \in [Cells -> Values] /\ first = env
    BY DEF Init
<1>3. TypeOK
    BY <1>1, <1>2, EmptyTyped DEF TypeOK
<1>4. Marked /\ Exclusive
    BY <1>1 DEF Marked, Exclusive
<1>5. Fresh /\ Kept
    BY <1>1, <1>2, EmptyTyped DEF Fresh, Kept
<1>6. QED BY <1>3, <1>4, <1>5 DEF IInv

LEMMA NextInv == IInv /\ [Next]_vars => IInv'
<1>1. ASSUME IInv, Next PROVE IInv'
    <2>1. PICK t \in Threads : Call(t) \/ Step(t) \/ Setenv(t) \/ Fork(t) \/ Exec(t)
        BY <1>1 DEF Next
    <2>2. CASE Step(t)
        BY <1>1, <2>2, GetInv, BeginInv, ReadInv, FillInv, ReturnInv DEF Step
    <2>3. QED BY <1>1, <2>1, <2>2, CallInv, SetenvInv, ForkInv, ExecInv
<1>2. ASSUME IInv, UNCHANGED vars PROVE IInv'
    BY <1>2 DEF IInv, TypeOK, Marked, Exclusive, Fresh, Kept, Fills, Calls, vars
<1>3. QED BY <1>1, <1>2

(***************************************************************************)
(* What follows                                                            *)
(***************************************************************************)

\* In every reachable state a cell is filled by one call at most, and what
\* has been read, stored or seen of a variable that was left alone is what
\* the program began with.
THEOREM ConfigInvariant == Spec => []IInv
BY InitInv, NextInv, PTL DEF Spec

\* A program has one configuration from its first hook to its last, whatever
\* its threads and signal handlers do to the environment meanwhile, and in
\* its forked children too (lib.rs:50-53, 62-91, 105-120).
THEOREM ConfigIsOne == Spec => []OneConfig
<1>1. ASSUME IInv PROVE OneConfig
    <2> SUFFICES ASSUME NEW s \in seen
                 PROVE  /\ s[1] \notin early => s[2] = first[s[1]]
                        /\ \A r \in seen : r[1] = s[1] => r[2] = s[2]
        BY DEF OneConfig
    <2>1. s[1] \in Cells
        BY <1>1 DEF IInv, TypeOK
    <2>2. s[1] \notin early => s[2] = first[s[1]]
        BY <1>1, <2>1 DEF IInv, Kept, Fresh
    <2>3. \A r \in seen : r[1] = s[1] => r[2] = s[2]
        BY <1>1 DEF IInv, Kept
    <2>4. QED BY <2>2, <2>3
<1>2. QED BY <1>1, ConfigInvariant, PTL
=============================================================================
