----------------------------- MODULE ConsoleProofs -----------------------------
(***************************************************************************)
(* Proofs about the text console, for every size of the display, of the    *)
(* hardware's memory and of the split, every size of the history, of its   *)
(* slots and of the reader's buffer, and every set of programs.            *)
(*                                                                         *)
(*   HistoryAlwaysKept   the history is the latest lines entered, and a    *)
(*                       search shows only what begins as was typed        *)
(*   TextAlwaysTrue      the LCD shows the text buffer, in every mode      *)
(***************************************************************************)
EXTENDS Console, SequenceTheorems, FiniteSetTheorems, WellFoundedInduction, TLAPS

-----------------------------------------------------------------------------
(* The ring.                                                               *)

LEMMA Sizes ==
  /\ HISTORY_SIZE \in Nat /\ HISTORY_SIZE > 1
  /\ HISTORY_LINE_LENGTH \in Nat /\ HISTORY_LINE_LENGTH > 1
  /\ LINE_SIZE \in Nat /\ LINE_SIZE > HISTORY_LINE_LENGTH
  BY LineInputAssumption

LEMMA Modulo ==
  ASSUME NEW N \in Nat \ {0}, NEW a \in Nat, a < 2 * N
  PROVE  a % N = IF a < N THEN a ELSE a - N
<1>1. CASE a < N
  BY <1>1
<1>2. CASE a >= N
  BY <1>2
<1>3. QED BY <1>1, <1>2

LEMMA Around ==
  ASSUME NEW x \in Nat, x < 2 * HISTORY_SIZE
  PROVE  x % HISTORY_SIZE = IF x < HISTORY_SIZE THEN x ELSE x - HISTORY_SIZE
<1>1. HISTORY_SIZE \in Nat \ {0}
  BY Sizes
<1>2. QED BY <1>1, Modulo

\* A few slots on from a slot, and a few slots back.
LEMMA Onwards ==
  ASSUME NEW a \in Slots, NEW n \in 0 .. HISTORY_SIZE - 1
  PROVE  /\ (a + n) % HISTORY_SIZE = IF a + n < HISTORY_SIZE THEN a + n ELSE a + n - HISTORY_SIZE
         /\ (a + n) % HISTORY_SIZE \in Slots
<1>1. a \in Nat /\ n \in Nat /\ a + n \in Nat /\ a + n < 2 * HISTORY_SIZE
  BY Sizes DEF Slots
<1>2. PICK x \in Nat : x = a + n /\ x < 2 * HISTORY_SIZE
  BY <1>1
<1>4. x % HISTORY_SIZE = IF x < HISTORY_SIZE THEN x ELSE x - HISTORY_SIZE
  BY <1>2, Around
<1>5. QED BY <1>1, <1>2, <1>4, Sizes DEF Slots

LEMMA Backwards ==
  ASSUME NEW a \in Slots, NEW n \in 0 .. HISTORY_SIZE - 1
  PROVE  Back(a, n) = (IF a >= n THEN a - n ELSE a + HISTORY_SIZE - n) /\ Back(a, n) \in Slots
<1>1. /\ a \in Nat /\ n \in Nat /\ a < HISTORY_SIZE /\ n < HISTORY_SIZE
      /\ a + HISTORY_SIZE - n \in Nat /\ a + HISTORY_SIZE - n < 2 * HISTORY_SIZE
  BY Sizes DEF Slots
<1>2. PICK x \in Nat : x = a + HISTORY_SIZE - n /\ x < 2 * HISTORY_SIZE
  BY <1>1
<1>3. x % HISTORY_SIZE = IF x < HISTORY_SIZE THEN x ELSE x - HISTORY_SIZE
  BY <1>2, Around
<1>4. Back(a, n) = IF x < HISTORY_SIZE THEN x ELSE x - HISTORY_SIZE
  BY <1>2, <1>3 DEF Back
<1>5. QED BY <1>1, <1>2, <1>4, Sizes DEF Slots

LEMMA Between ==
  ASSUME NEW a \in Slots, NEW b \in Slots
  PROVE  /\ Ahead(a, b) = IF a <= b THEN b - a ELSE b + HISTORY_SIZE - a
         /\ Ahead(a, b) \in 0 .. HISTORY_SIZE - 1
<1>1. /\ a \in Nat /\ b \in Nat /\ a < HISTORY_SIZE /\ b < HISTORY_SIZE
      /\ b + HISTORY_SIZE - a \in Nat /\ b + HISTORY_SIZE - a < 2 * HISTORY_SIZE
  BY Sizes DEF Slots
<1>2. PICK x \in Nat : x = b + HISTORY_SIZE - a /\ x < 2 * HISTORY_SIZE
  BY <1>1
<1>3. x % HISTORY_SIZE = IF x < HISTORY_SIZE THEN x ELSE x - HISTORY_SIZE
  BY <1>2, Around
<1>4. Ahead(a, b) = IF x < HISTORY_SIZE THEN x ELSE x - HISTORY_SIZE
  BY <1>2, <1>3 DEF Ahead
<1>5. QED BY <1>1, <1>2, <1>4, Sizes

LEMMA Neighbours ==
  ASSUME NEW a \in Slots
  PROVE  /\ NextSlot(a) = IF a + 1 < HISTORY_SIZE THEN a + 1 ELSE 0
         /\ PrevSlot(a) = IF a = 0 THEN HISTORY_SIZE - 1 ELSE a - 1
         /\ NextSlot(a) \in Slots /\ PrevSlot(a) \in Slots
<1>1. 1 \in 0 .. HISTORY_SIZE - 1 /\ a \in Nat /\ a < HISTORY_SIZE
  BY Sizes DEF Slots
<1>2. PrevSlot(a) = Back(a, 1) /\ NextSlot(a) = (a + 1) % HISTORY_SIZE
  BY DEF PrevSlot, NextSlot, Back
<1>3. /\ Back(a, 1) = (IF a >= 1 THEN a - 1 ELSE a + HISTORY_SIZE - 1) /\ Back(a, 1) \in Slots
      /\ (a + 1) % HISTORY_SIZE = IF a + 1 < HISTORY_SIZE THEN a + 1 ELSE a + 1 - HISTORY_SIZE
      /\ (a + 1) % HISTORY_SIZE \in Slots
  BY <1>1, Onwards, Backwards
<1>4. QED BY <1>1, <1>2, <1>3, Sizes

-----------------------------------------------------------------------------
(* Text.                                                                   *)

Texts == Seq(Glyphs)

LEMMA CopiedIs ==
  ASSUME NEW text \in Texts, NEW n \in Nat, n > 0
  PROVE  /\ Copied(text, n) \in Texts /\ Len(Copied(text, n)) < n
         /\ Len(Copied(text, n)) <= Len(text)
         /\ Len(text) < n => Copied(text, n) = text
         /\ IsPrefix(Copied(text, n), text)
<1> DEFINE k == IF Len(text) < n THEN Len(text) ELSE n - 1
<1>1. k \in Nat /\ k <= Len(text) /\ k < n /\ (Len(text) < n => k = Len(text))
  BY LenProperties DEF Texts
<1>2. Copied(text, n) = SubSeq(text, 1, k)
  BY DEF Copied
<1> HIDE DEF k
<1>3. \A i \in 1 .. k : i \in 1 .. Len(text)
  BY <1>1, LenProperties DEF Texts
<1>4. SubSeq(text, 1, k) \in Texts /\ Len(SubSeq(text, 1, k)) = k
  BY <1>1, <1>3, SubSeqProperties DEF Texts
<1>5. Len(text) < n => SubSeq(text, 1, k) = text
  BY <1>1, SubSeqFull DEF Texts
<1>6. QED BY <1>1, <1>2, <1>4, <1>5 DEF IsPrefix

-----------------------------------------------------------------------------
(* What history_add keeps: the slots from tail to head hold the lines last *)
(* entered, oldest first, as many as there is room for.                    *)

RingSound(h) ==
  /\ h = [buffer |-> h.buffer, head |-> h.head, tail |-> h.tail]
  /\ h.buffer \in [Slots -> Texts] /\ \A i \in Slots : Len(h.buffer[i]) < HISTORY_LINE_LENGTH
  /\ h.head \in Slots /\ h.tail \in Slots

Most(n) == IF n < HISTORY_SIZE - 1 THEN n ELSE HISTORY_SIZE - 1

Recorded(h, lines) ==
  /\ Ahead(h.tail, h.head) = Most(Len(lines))
  /\ \A i \in 1 .. Most(Len(lines)) :
       h.buffer[(h.tail + i - 1) % HISTORY_SIZE]
         = Copied(lines[Len(lines) - Most(Len(lines)) + i], HISTORY_LINE_LENGTH)

\* The i-th slot from a slot on.
LEMMA SlotIs ==
  ASSUME NEW a \in Slots, NEW i \in 1 .. HISTORY_SIZE
  PROVE  /\ (a + i - 1) % HISTORY_SIZE = IF a + i <= HISTORY_SIZE THEN a + i - 1
                                         ELSE a + i - 1 - HISTORY_SIZE
         /\ (a + i - 1) % HISTORY_SIZE \in Slots
<1>1. PICK n \in 0 .. HISTORY_SIZE - 1 : n = i - 1
  BY Sizes
<1>2. a + i - 1 = a + n /\ a \in Nat /\ i \in Nat
  BY <1>1, Sizes DEF Slots
<1>3. /\ (a + n) % HISTORY_SIZE = IF a + n < HISTORY_SIZE THEN a + n ELSE a + n - HISTORY_SIZE
      /\ (a + n) % HISTORY_SIZE \in Slots
  BY Onwards
<1>4. QED BY <1>1, <1>2, <1>3, Sizes

\* A ring of H slots of which the n from T up to D are in use; E is the slot after D,
\* and W the slot after T.  There is room for one more, or the oldest gives way.
Numbers(H, T, D, n, E, W) ==
  /\ H \in Nat /\ T \in Nat /\ D \in Nat /\ n \in Nat /\ E \in Nat /\ W \in Nat
  /\ H > 1 /\ T < H /\ D < H
  /\ n = IF T <= D THEN D - T ELSE D + H - T
  /\ E = IF D + 1 < H THEN D + 1 ELSE 0
  /\ W = IF T + 1 < H THEN T + 1 ELSE 0

Place(H, a, i) == IF a + i <= H THEN a + i - 1 ELSE a + i - 1 - H

LEMMA RoomLeft ==
  ASSUME NEW H, NEW T, NEW D, NEW n, NEW E, NEW W, Numbers(H, T, D, n, E, W), n < H - 1
  PROVE  /\ E # T /\ n + 1 = IF T <= E THEN E - T ELSE E + H - T
         /\ \A i \in 1 .. n + 1 : (i = n + 1) <=> (Place(H, T, i) = D)
  BY DEF Numbers, Place

LEMMA RoomUsed ==
  ASSUME NEW H, NEW T, NEW D, NEW n, NEW E, NEW W, Numbers(H, T, D, n, E, W), n >= H - 1
  PROVE  /\ E = T /\ n = IF W <= E THEN E - W ELSE E + H - W
         /\ \A i \in 1 .. n : (i = n) <=> (Place(H, W, i) = D)
         /\ \A i \in 1 .. n - 1 : Place(H, W, i) = Place(H, T, i + 1)
  BY DEF Numbers, Place

LEMMA AddedSound ==
  ASSUME NEW h, RingSound(h), NEW text \in Texts
  PROVE  RingSound(history_add(h, text))
<1>1. CASE is_blank(text)
  BY <1>1 DEF history_add
<1>2. CASE ~is_blank(text)
  <2> DEFINE new == Copied(text, HISTORY_LINE_LENGTH)
             b == [h.buffer EXCEPT ![h.head] = new]
             hd == NextSlot(h.head)
             tl == IF hd = h.tail THEN NextSlot(h.tail) ELSE h.tail
  <2>1. history_add(h, text) = [buffer |-> b, head |-> hd, tail |-> tl]
    BY <1>2 DEF history_add
  <2>2. new \in Texts /\ Len(new) < HISTORY_LINE_LENGTH
    BY CopiedIs, Sizes
  <2>3. hd \in Slots /\ tl \in Slots
    BY Neighbours DEF RingSound
  <2> HIDE DEF new
  <2>4. b \in [Slots -> Texts] /\ \A i \in Slots : Len(b[i]) < HISTORY_LINE_LENGTH
    BY <2>2 DEF RingSound
  <2> HIDE DEF b, hd, tl
  <2>5. QED BY <2>1, <2>3, <2>4 DEF RingSound
<1>3. QED BY <1>1, <1>2

LEMMA AddedRecorded ==
  ASSUME NEW h, RingSound(h), NEW lines \in Seq(Texts), Recorded(h, lines),
         NEW text \in Texts, ~is_blank(text)
  PROVE  Recorded(history_add(h, text), Append(lines, text))
<1> DEFINE new == Copied(text, HISTORY_LINE_LENGTH)
           b == [h.buffer EXCEPT ![h.head] = new]
           hd == NextSlot(h.head)
           tl == IF hd = h.tail THEN NextSlot(h.tail) ELSE h.tail
           g == history_add(h, text)
           more == Append(lines, text)
<1>1. g.buffer = b /\ g.head = hd /\ g.tail = tl
  BY DEF history_add
<1>2. /\ Len(more) = Len(lines) + 1 /\ Len(lines) \in Nat
      /\ \A j \in 1 .. Len(lines) : more[j] = lines[j]
      /\ more[Len(lines) + 1] = text
  OBVIOUS
<1>3. PICK L \in Nat : L = Len(lines)
  BY <1>2
<1>4. PICK n \in Nat : /\ n = Most(L) /\ n <= L /\ n <= HISTORY_SIZE - 1
                       /\ Ahead(h.tail, h.head) = n /\ (n < HISTORY_SIZE - 1 => L = n)
  BY <1>3, Sizes DEF Most, Recorded
<1>5. /\ h.head \in Slots /\ h.tail \in Slots /\ hd \in Slots /\ tl \in Slots
      /\ b[h.head] = new /\ \A i \in Slots : i # h.head => b[i] = h.buffer[i]
  BY Neighbours DEF RingSound
<1>6. /\ n = IF h.tail <= h.head THEN h.head - h.tail ELSE h.head + HISTORY_SIZE - h.tail
      /\ Ahead(tl, hd) = IF tl <= hd THEN hd - tl ELSE hd + HISTORY_SIZE - tl
      /\ hd = IF h.head + 1 < HISTORY_SIZE THEN h.head + 1 ELSE 0
  BY <1>4, <1>5, Between, Neighbours
<1>7. \A i \in 1 .. n : h.buffer[(h.tail + i - 1) % HISTORY_SIZE]
                          = Copied(lines[L - n + i], HISTORY_LINE_LENGTH)
  BY <1>3, <1>4 DEF Recorded
<1>8. tl = IF hd # h.tail THEN h.tail ELSE IF h.tail + 1 < HISTORY_SIZE THEN h.tail + 1 ELSE 0
  BY <1>5, Neighbours
<1> HIDE DEF new, b, hd, tl, g, more
\* The same in plain numbers.
<1>9. PICK H \in Nat : H = HISTORY_SIZE /\ H > 1 /\ n <= H - 1
  BY <1>4, Sizes
<1>10. PICK T \in Nat : T = h.tail /\ T < H
  BY <1>5, <1>9 DEF Slots
<1>11. PICK D \in Nat : D = h.head /\ D < H
  BY <1>5, <1>9 DEF Slots
<1>12. PICK E \in Nat : E = hd /\ E = IF D + 1 < H THEN D + 1 ELSE 0
  BY <1>5, <1>6, <1>9, <1>11 DEF Slots
<1>13. PICK W \in Nat : W = IF T + 1 < H THEN T + 1 ELSE 0
  BY <1>10
<1>14. tl = IF E # T THEN T ELSE W
  BY <1>8, <1>9, <1>10, <1>12, <1>13
<1>15. n = IF T <= D THEN D - T ELSE D + H - T
  BY <1>6, <1>9, <1>10, <1>11
<1>16. Numbers(H, T, D, n, E, W)
  BY <1>9, <1>10, <1>11, <1>12, <1>13, <1>15 DEF Numbers
<1>17. ASSUME NEW i \in Nat, i > 0, i <= H, NEW a \in Slots
       PROVE  (a + i - 1) % HISTORY_SIZE = Place(H, a, i) /\ Place(H, a, i) \in Slots
  <2>1. i \in 1 .. HISTORY_SIZE
    BY <1>9, <1>17
  <2>2. /\ (a + i - 1) % HISTORY_SIZE = IF a + i <= HISTORY_SIZE THEN a + i - 1 ELSE a + i - 1 - HISTORY_SIZE
        /\ (a + i - 1) % HISTORY_SIZE \in Slots
    BY <2>1, SlotIs
  <2>3. QED BY <2>2, <1>9 DEF Place
<1>18. CASE n < HISTORY_SIZE - 1
  <2>1. hd # h.tail /\ tl = h.tail /\ Ahead(tl, hd) = n + 1 /\ L = n
    <3>1. n < H - 1
      BY <1>18, <1>9
    <3>2. E # T /\ n + 1 = IF T <= E THEN E - T ELSE E + H - T
      BY <3>1, <1>16, RoomLeft
    <3>3. tl = T
      BY <3>2, <1>14
    <3>4. QED BY <3>2, <3>3, <1>4, <1>6, <1>18, <1>9, <1>10, <1>12
  <2>2. Most(L + 1) = n + 1
    BY <1>18, <2>1, Sizes DEF Most
  <2>3. ASSUME NEW i \in 1 .. n + 1
        PROVE  b[(tl + i - 1) % HISTORY_SIZE] = Copied(more[L + 1 - (n + 1) + i], HISTORY_LINE_LENGTH)
    <3>1. i \in 1 .. HISTORY_SIZE /\ L + 1 - (n + 1) + i = i
      BY <1>18, <2>1, Sizes
    <3>2. PICK k \in Slots : k = (tl + i - 1) % HISTORY_SIZE /\ k = Place(H, tl, i)
      BY <3>1, <1>5, <1>9, <1>17
    <3>6. n < H - 1 /\ tl = T
      BY <1>18, <1>9, <1>10, <2>1
    <3>7. (i = n + 1) <=> (Place(H, T, i) = D)
      BY <3>6, <1>16, RoomLeft
    <3>8. (i = n + 1) <=> k = D
      BY <3>2, <3>6, <3>7
    <3>3. CASE i = n + 1
      <4>1. k = D
        BY <3>3, <3>8
      <4>2. QED BY <1>2, <1>3, <1>5, <1>11, <2>1, <3>1, <3>2, <3>3, <4>1 DEF new
    <3>4. CASE i # n + 1
      <4>1. k # h.head /\ i \in 1 .. n
        <5>1. i \in Nat /\ i > 0 /\ i <= n
          BY <3>4
        <5>2. k # D
          BY <3>4, <3>8
        <5>3. QED BY <1>11, <5>1, <5>2
      <4>2. b[k] = Copied(lines[L - n + i], HISTORY_LINE_LENGTH) /\ L - n + i = i /\ i \in 1 .. L
        BY <1>5, <1>7, <2>1, <3>2, <4>1
      <4>3. QED BY <1>2, <1>3, <3>1, <3>2, <4>2
    <3>5. QED BY <3>3, <3>4
  <2>4. Len(more) = L + 1 /\ Most(Len(more)) = n + 1
    BY <1>2, <1>3, <2>2
  <2>5. Ahead(g.tail, g.head) = n + 1
    BY <1>1, <2>1
  <2>6. ASSUME NEW i \in 1 .. Most(Len(more))
        PROVE  g.buffer[(g.tail + i - 1) % HISTORY_SIZE]
                 = Copied(more[Len(more) - Most(Len(more)) + i], HISTORY_LINE_LENGTH)
    <3>1. i \in 1 .. n + 1
      BY <2>4
    <3>2. b[(tl + i - 1) % HISTORY_SIZE]
            = Copied(more[Len(more) - Most(Len(more)) + i], HISTORY_LINE_LENGTH)
      BY <2>3, <2>4, <3>1
    <3>3. QED BY <1>1, <3>2
  <2>7. Recorded(g, more)
    BY <2>4, <2>5, <2>6 DEF Recorded
  <2>8. QED BY <2>7 DEF more, g
<1>19. CASE n = HISTORY_SIZE - 1
  <2>1. hd = h.tail /\ Ahead(tl, hd) = n
    <3>1. n >= H - 1
      BY <1>19, <1>9
    <3>2. E = T /\ n = IF W <= E THEN E - W ELSE E + H - W
      BY <3>1, <1>16, RoomUsed
    <3>3. tl = W
      BY <3>2, <1>14
    <3>4. QED BY <3>2, <3>3, <1>6, <1>9, <1>10, <1>12
  <2>2. Most(L + 1) = n /\ n <= L
    BY <1>4, <1>19, Sizes DEF Most
  <2>3. ASSUME NEW i \in 1 .. n
        PROVE  b[(tl + i - 1) % HISTORY_SIZE] = Copied(more[L + 1 - n + i], HISTORY_LINE_LENGTH)
    <3>1. i \in 1 .. HISTORY_SIZE /\ L + 1 - n + i \in 1 .. L + 1
      BY <1>19, <2>2, Sizes
    <3>2. PICK k \in Slots : k = (tl + i - 1) % HISTORY_SIZE /\ k = Place(H, tl, i)
      BY <3>1, <1>5, <1>9, <1>17
    <3>6. n >= H - 1
      BY <1>19, <1>9
    <3>7. /\ (i = n) <=> (Place(H, W, i) = D)
          /\ i \in 1 .. n - 1 => Place(H, W, i) = Place(H, T, i + 1)
      BY <3>6, <1>16, RoomUsed
    <3>9. tl = W
      BY <1>10, <1>12, <1>14, <2>1
    <3>8. (i = n) <=> k = D
      BY <3>2, <3>7, <3>9
    <3>3. CASE i = n
      <4>1. k = D
        BY <3>3, <3>8
      <4>2. L + 1 - n + i = L + 1
        BY <3>3
      <4>3. QED BY <1>2, <1>3, <1>5, <1>11, <3>2, <4>1, <4>2 DEF new
    <3>4. CASE i # n
      <4>1. PICK j \in 1 .. n : j = i + 1
        BY <3>4
      <4>2. k = (h.tail + j - 1) % HISTORY_SIZE /\ k # h.head
        <5>1. j \in Nat /\ j > 0 /\ j <= H /\ i \in 1 .. n - 1 /\ k # D
          BY <1>9, <3>4, <3>8, <4>1
        <5>2. (h.tail + j - 1) % HISTORY_SIZE = Place(H, T, j)
          BY <5>1, <1>5, <1>10, <1>17
        <5>3. QED BY <1>11, <3>2, <3>7, <3>9, <4>1, <5>1, <5>2
      <4>3. b[k] = Copied(lines[L - n + j], HISTORY_LINE_LENGTH)
        BY <1>5, <1>7, <3>2, <4>1, <4>2
      <4>4. L - n + j = L + 1 - n + i /\ L - n + j \in 1 .. L
        BY <2>2, <4>1
      <4>5. QED BY <1>2, <1>3, <3>2, <4>3, <4>4
    <3>5. QED BY <3>3, <3>4
  <2>4. Len(more) = L + 1 /\ Most(Len(more)) = n
    BY <1>2, <1>3, <2>2
  <2>5. Ahead(g.tail, g.head) = n
    BY <1>1, <2>1
  <2>6. ASSUME NEW i \in 1 .. Most(Len(more))
        PROVE  g.buffer[(g.tail + i - 1) % HISTORY_SIZE]
                 = Copied(more[Len(more) - Most(Len(more)) + i], HISTORY_LINE_LENGTH)
    <3>1. i \in 1 .. n
      BY <2>4
    <3>2. b[(tl + i - 1) % HISTORY_SIZE]
            = Copied(more[Len(more) - Most(Len(more)) + i], HISTORY_LINE_LENGTH)
      BY <2>3, <2>4, <3>1
    <3>3. QED BY <1>1, <3>2
  <2>7. Recorded(g, more)
    BY <2>4, <2>5, <2>6 DEF Recorded
  <2>8. QED BY <2>7 DEF more, g
<1>20. n < HISTORY_SIZE - 1 \/ n = HISTORY_SIZE - 1
  BY <1>9
<1>21. QED BY <1>18, <1>19, <1>20

-----------------------------------------------------------------------------
(* What a search finds: a slot in use on the way that begins with the      *)
(* prefix, or none.                                                        *)

\* A non-empty set of naturals has a least element, and Least is it.
LEMMA LeastIs ==
  ASSUME NEW S \in SUBSET Nat, S # {}
  PROVE  Least(S) \in S /\ \A x \in S : Least(S) <= x
<1>1. IsWellFoundedOn(OpToRel(<, Nat), Nat)
  BY NatLessThanWellFounded
<1>2. PICK m \in S : \A x \in S : ~ (<<x, m>> \in OpToRel(<, Nat))
  BY <1>1, WFMin
<1>3. ASSUME NEW x \in S PROVE m <= x
  <2>1. x \in Nat /\ m \in Nat
    OBVIOUS
  <2>2. ~ (x < m)
    BY <1>2, <2>1 DEF OpToRel
  <2>3. QED BY <2>1, <2>2
<1>4. QED BY <1>3 DEF Least

\* How far b is from a in a ring of H.
Far(H, a, b) == IF a <= b THEN b - a ELSE b + H - a
Inside(H, a, b) == H \in Nat /\ a \in Nat /\ b \in Nat /\ a < H /\ b < H

LEMMA FarBack ==
  ASSUME NEW H, NEW a, NEW b, Inside(H, a, b), NEW n \in Nat, n <= Far(H, a, b)
  PROVE  Far(H, a, IF b >= n THEN b - n ELSE b + H - n) = Far(H, a, b) - n
  BY DEF Inside, Far

LEMMA FarOn ==
  ASSUME NEW H, NEW a, NEW b, Inside(H, a, b), NEW n \in Nat, n + Far(H, a, b) < H
  PROVE  Far(H, a, IF b + n < H THEN b + n ELSE b + n - H) = Far(H, a, b) + n
  BY DEF Inside, Far

LEMMA FarRest ==
  ASSUME NEW H, NEW a, NEW b, NEW c, Inside(H, a, b), Inside(H, a, c), Far(H, a, b) <= Far(H, a, c)
  PROVE  Far(H, b, c) = Far(H, a, c) - Far(H, a, b)
  BY DEF Inside, Far

LEMMA FarApart ==
  ASSUME NEW H, NEW a, NEW b, NEW c, Inside(H, a, b), Inside(H, a, c), Far(H, a, b) = Far(H, a, c)
  PROVE  b = c
  BY DEF Inside, Far

LEMMA AheadIs ==
  ASSUME NEW a \in Slots, NEW b \in Slots
  PROVE  /\ Ahead(a, b) = Far(HISTORY_SIZE, a, b) /\ Inside(HISTORY_SIZE, a, b)
         /\ Ahead(a, b) \in Nat /\ Ahead(a, b) < HISTORY_SIZE
<1>1. a \in Nat /\ b \in Nat /\ a < HISTORY_SIZE /\ b < HISTORY_SIZE /\ HISTORY_SIZE \in Nat
  BY Sizes DEF Slots
<1>2. QED BY <1>1, Between DEF Far, Inside

LEMMA AheadBack ==
  ASSUME NEW a \in Slots, NEW b \in Slots, NEW n \in Nat, n <= Ahead(a, b)
  PROVE  Back(b, n) \in Slots /\ Ahead(a, Back(b, n)) = Ahead(a, b) - n
<1>1. n \in 0 .. HISTORY_SIZE - 1
  BY AheadIs, Sizes
<1>2. Back(b, n) = (IF b >= n THEN b - n ELSE b + HISTORY_SIZE - n) /\ Back(b, n) \in Slots
  BY <1>1, Backwards
<1>3. Inside(HISTORY_SIZE, a, b) /\ n <= Far(HISTORY_SIZE, a, b)
  BY AheadIs
<1>4. Far(HISTORY_SIZE, a, IF b >= n THEN b - n ELSE b + HISTORY_SIZE - n)
        = Far(HISTORY_SIZE, a, b) - n
  BY <1>3, FarBack
<1>5. QED BY <1>2, <1>4, AheadIs

LEMMA AheadOn ==
  ASSUME NEW a \in Slots, NEW b \in Slots, NEW c \in Slots, Ahead(a, b) <= Ahead(a, c)
  PROVE  /\ Ahead(b, c) = Ahead(a, c) - Ahead(a, b)
         /\ \A n \in 0 .. Ahead(b, c) :
              (b + n) % HISTORY_SIZE \in Slots /\ Ahead(a, (b + n) % HISTORY_SIZE) = Ahead(a, b) + n
<1>1. Inside(HISTORY_SIZE, a, b) /\ Inside(HISTORY_SIZE, a, c)
      /\ Far(HISTORY_SIZE, a, b) <= Far(HISTORY_SIZE, a, c)
  BY AheadIs
<1>2. Far(HISTORY_SIZE, b, c) = Far(HISTORY_SIZE, a, c) - Far(HISTORY_SIZE, a, b)
  BY <1>1, FarRest
<1>3. Ahead(b, c) = Ahead(a, c) - Ahead(a, b)
  BY <1>2, AheadIs
<1>4. ASSUME NEW n \in 0 .. Ahead(b, c)
      PROVE  (b + n) % HISTORY_SIZE \in Slots /\ Ahead(a, (b + n) % HISTORY_SIZE) = Ahead(a, b) + n
  <2>1. PICK x \in Nat : x = Ahead(a, b)
    BY AheadIs
  <2>2. PICK y \in Nat : y = Ahead(a, c) /\ y < HISTORY_SIZE
    BY AheadIs
  <2>3. n \in Nat /\ n \in 0 .. HISTORY_SIZE - 1 /\ n + x < HISTORY_SIZE
    BY <1>3, <2>1, <2>2, Sizes
  <2>4. /\ (b + n) % HISTORY_SIZE = (IF b + n < HISTORY_SIZE THEN b + n ELSE b + n - HISTORY_SIZE)
        /\ (b + n) % HISTORY_SIZE \in Slots
    BY <2>3, Onwards
  <2>5. n + Far(HISTORY_SIZE, a, b) < HISTORY_SIZE
    BY <2>1, <2>3, AheadIs
  <2>6. Far(HISTORY_SIZE, a, IF b + n < HISTORY_SIZE THEN b + n ELSE b + n - HISTORY_SIZE)
          = Far(HISTORY_SIZE, a, b) + n
    BY <1>1, <2>3, <2>5, FarOn
  <2>7. QED BY <2>4, <2>6, AheadIs
<1>5. QED BY <1>3, <1>4

LEMMA AheadApart ==
  ASSUME NEW a \in Slots, NEW b \in Slots, NEW c \in Slots, Ahead(a, b) = Ahead(a, c)
  PROVE  b = c
<1>1. Inside(HISTORY_SIZE, a, b) /\ Inside(HISTORY_SIZE, a, c)
      /\ Far(HISTORY_SIZE, a, b) = Far(HISTORY_SIZE, a, c)
  BY AheadIs
<1>2. QED BY <1>1, FarApart

LEMMA NothingIsPrefix ==
  ASSUME NEW text \in Texts
  PROVE  IsPrefix(<<>>, text)
<1>1. /\ Len(<<>>) = 0 /\ Len(text) \in Nat
      /\ SubSeq(<<>>, 1, 0) = <<>> /\ SubSeq(text, 1, 0) = <<>>
  BY SubSeqEmpty, LenProperties DEF Texts
<1>2. QED BY <1>1 DEF IsPrefix

LEMMA OlderIs ==
  ASSUME NEW h, RingSound(h), NEW index \in Slots, Ahead(h.tail, index) <= Ahead(h.tail, h.head),
         NEW prefix \in Texts,
         NEW j, j = history_prev_matching(h, index, prefix), j # index
  PROVE  j \in Slots /\ Ahead(h.tail, j) < Ahead(h.tail, h.head) /\ Matches(h, j, prefix)
<1>1. /\ h.tail \in Slots /\ h.head \in Slots /\ h.buffer \in [Slots -> Texts]
      /\ Ahead(h.tail, index) \in Nat /\ Ahead(h.tail, h.head) \in Nat
  BY AheadIs DEF RingSound
<1>2. ASSUME NEW n \in 1 .. Ahead(h.tail, index), j = Back(index, n)
      PROVE  j \in Slots /\ Ahead(h.tail, j) < Ahead(h.tail, h.head)
  <2>1. n \in Nat /\ n > 0 /\ n <= Ahead(h.tail, index)
    BY <1>1
  <2>2. j \in Slots /\ Ahead(h.tail, j) = Ahead(h.tail, index) - n
    BY <1>1, <1>2, <2>1, AheadBack
  <2>3. QED BY <1>1, <2>1, <2>2
<1>3. CASE prefix = <<>>
  <2>1. j = PrevSlot(index) /\ index # h.tail
    BY <1>3 DEF history_prev_matching, history_prev_index
  <2>2. Ahead(h.tail, index) # 0
    <3>1. Ahead(h.tail, h.tail) = 0
      BY <1>1, AheadIs DEF Far, Inside
    <3>2. QED BY <1>1, <2>1, <3>1, AheadApart
  <2>3. 1 \in 1 .. Ahead(h.tail, index) /\ j = Back(index, 1)
    BY <1>1, <2>1, <2>2 DEF PrevSlot, Back
  <2>4. j \in Slots /\ Ahead(h.tail, j) < Ahead(h.tail, h.head)
    BY <1>2, <2>3
  <2>5. QED BY <1>1, <1>3, <2>4, NothingIsPrefix DEF Matches
<1>4. CASE prefix # <<>>
  <2> DEFINE found == {n \in 1 .. Ahead(h.tail, index) : Matches(h, Back(index, n), prefix)}
  <2>1. found # {} /\ j = Back(index, Least(found))
    BY <1>4 DEF history_prev_matching
  <2>2. Least(found) \in found
    BY <2>1, LeastIs
  <2>3. Least(found) \in 1 .. Ahead(h.tail, index) /\ Matches(h, j, prefix)
    BY <2>1, <2>2
  <2> HIDE DEF found
  <2>4. QED BY <1>2, <2>1, <2>3
<1>5. QED BY <1>3, <1>4

\* Past the newest line a search ends at the line being typed.
LEMMA NewerIs ==
  ASSUME NEW h, RingSound(h), NEW index \in Slots, index # h.head,
         Ahead(h.tail, index) <= Ahead(h.tail, h.head), NEW prefix \in Texts,
         NEW j, j = history_next_matching(h, index, prefix)
  PROVE  /\ j \in Slots
         /\ j # h.head => Ahead(h.tail, j) < Ahead(h.tail, h.head) /\ Matches(h, j, prefix)
<1> DEFINE left == Ahead(index, h.head)
<1>1. /\ h.tail \in Slots /\ h.head \in Slots /\ h.buffer \in [Slots -> Texts]
      /\ Ahead(h.tail, index) \in Nat /\ Ahead(h.tail, h.head) \in Nat /\ left \in Nat
  BY AheadIs DEF RingSound
<1>2. left = Ahead(h.tail, h.head) - Ahead(h.tail, index)
  BY <1>1, AheadOn
<1>3. left # 0
  BY <1>1, <1>2, AheadApart
<1> HIDE DEF left
<1>4. ASSUME NEW n \in 1 .. left, j = (index + n) % HISTORY_SIZE
      PROVE  j \in Slots /\ (n # left => Ahead(h.tail, j) < Ahead(h.tail, h.head))
             /\ (n = left => j = h.head)
  <2>1. n \in 0 .. Ahead(index, h.head)
    BY <1>1 DEF left
  <2>2. j \in Slots /\ Ahead(h.tail, j) = Ahead(h.tail, index) + n
    BY <1>1, <1>4, <2>1, AheadOn
  <2>3. n # left => Ahead(h.tail, j) < Ahead(h.tail, h.head)
    BY <1>1, <1>2, <2>2
  <2>4. n = left => Ahead(h.tail, j) = Ahead(h.tail, h.head)
    BY <1>1, <1>2, <2>2
  <2>5. n = left => j = h.head
    BY <1>1, <2>2, <2>4, AheadApart
  <2>6. QED BY <2>2, <2>3, <2>5
<1>5. CASE prefix = <<>>
  <2>1. j = (index + 1) % HISTORY_SIZE /\ 1 \in 1 .. left
    BY <1>1, <1>3, <1>5 DEF history_next_matching, history_next_index, NextSlot
  <2>2. QED BY <1>1, <1>4, <1>5, <2>1, NothingIsPrefix DEF Matches
<1>6. CASE prefix # <<>>
  <2> DEFINE found == {n \in 1 .. left : n = left \/ Matches(h, (index + n) % HISTORY_SIZE, prefix)}
  <2>1. left \in found /\ found \in SUBSET Nat
    BY <1>1, <1>3
  <2>2. j = (index + Least(found)) % HISTORY_SIZE
    BY <1>6, <2>1 DEF history_next_matching, left
  <2>3. Least(found) \in found
    BY <2>1, LeastIs
  <2>4. Least(found) \in 1 .. left /\ (Least(found) = left \/ Matches(h, j, prefix))
    BY <2>2, <2>3
  <2> HIDE DEF found
  <2>5. QED BY <1>4, <2>2, <2>4
<1>7. QED BY <1>5, <1>6

-----------------------------------------------------------------------------
(* What each key keeps of the line and of the search.                      *)

LineFields == {"buf", "index", "start_col", "start_row", "end_col", "end_row", "history_index",
               "search_prefix", "in_history_search", "reach", "slid", "ended"}

IsLine(l)    == DOMAIN l = LineFields /\ l = [f \in DOMAIN l |-> l[f]]
IsSession(x) == DOMAIN x = {"t", "l", "h"} /\ x = [f \in DOMAIN x |-> x[f]] /\ IsLine(x.l)

LineSound(l, h) ==
  /\ l.buf \in Texts /\ Len(l.buf) < LINE_SIZE /\ l.index \in 0 .. Len(l.buf)
  /\ l.search_prefix \in Texts /\ Len(l.search_prefix) < HISTORY_LINE_LENGTH
  /\ l.history_index \in Slots /\ Ahead(h.tail, l.history_index) <= Ahead(h.tail, h.head)
  /\ l.in_history_search \in BOOLEAN
  /\ ~l.in_history_search => l.history_index = h.head
  /\ l.in_history_search =>
       /\ IsPrefix(l.search_prefix, l.buf)
       /\ l.history_index # h.head => l.buf = Copied(h.buffer[l.history_index], LINE_SIZE - 1)

SessionSound(x) == IsSession(x) /\ RingSound(x.h) /\ LineSound(x.l, x.h)

\* Only the screen.
LEMMA OtherScreen ==
  ASSUME NEW x, SessionSound(x), NEW t
  PROVE  SessionSound([x EXCEPT !.t = t]) /\ [x EXCEPT !.t = t].h = x.h
<1> DEFINE y == [x EXCEPT !.t = t]
<1>1. y.h = x.h /\ y.l = x.l /\ DOMAIN y = DOMAIN x /\ y = [f \in DOMAIN y |-> y[f]]
  BY DEF SessionSound, IsSession
<1> HIDE DEF y
<1>2. SessionSound(y)
  BY <1>1 DEF SessionSound, IsSession
<1>3. QED BY <1>1, <1>2 DEF y

\* A line drawn again is the line it was told.
LEMMA RelinedIs ==
  ASSUME NEW x, IsSession(x), NEW text, NEW index, NEW y, y = Relined(x, text, index)
  PROVE  /\ IsSession(y) /\ y.h = x.h
         /\ y.l.buf = text /\ y.l.index = index
         /\ y.l.search_prefix = x.l.search_prefix
         /\ y.l.history_index = x.l.history_index
         /\ y.l.in_history_search = x.l.in_history_search
<1> DEFINE l1 == [x.l EXCEPT !.buf = text, !.index = index]
           x1 == [x EXCEPT !.l.buf = text, !.l.index = index]
<1>1. /\ IsLine(l1) /\ l1.buf = text /\ l1.index = index /\ l1.search_prefix = x.l.search_prefix
      /\ l1.history_index = x.l.history_index /\ l1.in_history_search = x.l.in_history_search
  BY DEF IsSession, IsLine, LineFields
<1>2. x1 = [x EXCEPT !.l = l1]
  BY DEF IsSession
<1> HIDE DEF l1
<1>3. x1.l = l1 /\ x1.h = x.h /\ DOMAIN x1 = DOMAIN x /\ x1 = [f \in DOMAIN x1 |-> x1[f]]
  BY <1>2 DEF IsSession
<1> DEFINE p == Written(x1, x1.l.buf \o Blanks(x1, Len(x.l.buf)))
<1>4. y = Drawn(x1, p)
  BY DEF Relined, redraw_input_line
<1> HIDE DEF p, x1
<1> DEFINE l2 == DrawnLine(l1, p)
<1>5. /\ IsLine(l2) /\ l2.buf = l1.buf /\ l2.index = l1.index /\ l2.search_prefix = l1.search_prefix
      /\ l2.history_index = l1.history_index /\ l2.in_history_search = l1.in_history_search
  BY <1>1 DEF DrawnLine, IsLine, LineFields
<1> HIDE DEF l2
<1>6. y.l = l2 /\ y.h = x1.h /\ DOMAIN y = DOMAIN x1 /\ y = [f \in DOMAIN y |-> y[f]]
  BY <1>3, <1>4 DEF Drawn, IsSession, l2
<1>7. QED BY <1>1, <1>3, <1>5, <1>6 DEF IsSession

LEMMA WithoutIs ==
  ASSUME NEW text \in Texts, NEW i \in 1 .. Len(text)
  PROVE  Without(text, i) \in Texts /\ Len(Without(text, i)) = Len(text) - 1
<1> DEFINE a == SubSeq(text, 1, i - 1)
           b == SubSeq(text, i + 1, Len(text))
<1>1. Len(text) \in Nat /\ i \in Nat /\ i >= 1 /\ i <= Len(text)
  BY LenProperties DEF Texts
<1>2. a \in Texts /\ Len(a) = i - 1
  <2>1. \A k \in 1 .. i - 1 : text[k] \in Glyphs
    BY <1>1, ElementOfSeq DEF Texts
  <2>2. QED BY <1>1, <2>1, SubSeqProperties DEF Texts
<1>3. b \in Texts /\ Len(b) = Len(text) - i
  <2>1. \A k \in i + 1 .. Len(text) : text[k] \in Glyphs
    BY <1>1, ElementOfSeq DEF Texts
  <2>2. QED BY <1>1, <2>1, SubSeqProperties DEF Texts
<1> HIDE DEF a, b
<1>4. a \o b \in Texts /\ Len(a \o b) = Len(a) + Len(b)
  BY <1>2, <1>3, ConcatProperties DEF Texts
<1>5. Without(text, i) = a \o b
  BY DEF Without, a, b
<1>6. QED BY <1>1, <1>2, <1>3, <1>4, <1>5

LEMMA WithIs ==
  ASSUME NEW text \in Texts, NEW i \in 0 .. Len(text), NEW c \in Glyphs
  PROVE  With(text, i, c) \in Texts /\ Len(With(text, i, c)) = Len(text) + 1
<1> DEFINE a == SubSeq(text, 1, i)
           b == SubSeq(text, i + 1, Len(text))
           one == <<c>>
<1>1. Len(text) \in Nat /\ i \in Nat /\ i <= Len(text)
  BY LenProperties DEF Texts
<1>2. a \in Texts /\ Len(a) = i
  <2>1. \A k \in 1 .. i : text[k] \in Glyphs
    BY <1>1, ElementOfSeq DEF Texts
  <2>2. QED BY <1>1, <2>1, SubSeqProperties DEF Texts
<1>3. b \in Texts /\ Len(b) = Len(text) - i
  <2>1. \A k \in i + 1 .. Len(text) : text[k] \in Glyphs
    BY <1>1, ElementOfSeq DEF Texts
  <2>2. QED BY <1>1, <2>1, SubSeqProperties DEF Texts
<1>4. one \in Texts /\ Len(one) = 1
  BY DEF Texts
<1> HIDE DEF a, b, one
<1>5. a \o one \in Texts /\ Len(a \o one) = Len(a) + Len(one)
  BY <1>2, <1>4, ConcatProperties DEF Texts
<1>6. (a \o one) \o b \in Texts /\ Len((a \o one) \o b) = Len(a \o one) + Len(b)
  BY <1>3, <1>5, ConcatProperties DEF Texts
<1>7. With(text, i, c) = (a \o one) \o b
  BY DEF With, a, b, one
<1>8. QED BY <1>1, <1>2, <1>3, <1>4, <1>5, <1>6, <1>7

\* An edit ends the search.
LEMMA EditedSound ==
  ASSUME NEW x, SessionSound(x), NEW text \in Texts, Len(text) < LINE_SIZE,
         NEW index \in 0 .. Len(text), NEW y, y = Edited(x, text, index)
  PROVE  SessionSound(y) /\ y.h = x.h
<1> DEFINE l1 == [x.l EXCEPT !.in_history_search = FALSE, !.history_index = x.h.head]
           x1 == [x EXCEPT !.l.in_history_search = FALSE, !.l.history_index = x.h.head]
<1>1. /\ IsLine(l1) /\ l1.search_prefix = x.l.search_prefix
      /\ l1.history_index = x.h.head /\ l1.in_history_search = FALSE
  BY DEF SessionSound, IsSession, IsLine, LineFields
<1>2. x1 = [x EXCEPT !.l = l1]
  BY DEF SessionSound, IsSession
<1> HIDE DEF l1
<1>3. x1.l = l1 /\ x1.h = x.h /\ DOMAIN x1 = DOMAIN x /\ x1 = [f \in DOMAIN x1 |-> x1[f]]
  BY <1>2 DEF SessionSound, IsSession
<1>4. y = Relined(x1, text, index)
  BY DEF Edited
<1> HIDE DEF x1
<1>5. IsSession(x1)
  BY <1>1, <1>3 DEF SessionSound, IsSession
<1>6. /\ IsSession(y) /\ y.h = x1.h
      /\ y.l.buf = text /\ y.l.index = index
      /\ y.l.search_prefix = x1.l.search_prefix
      /\ y.l.history_index = x1.l.history_index
      /\ y.l.in_history_search = x1.l.in_history_search
  BY <1>4, <1>5, RelinedIs
<1>7. x.h.head \in Slots /\ Ahead(x.h.tail, x.h.head) <= Ahead(x.h.tail, x.h.head)
  BY AheadIs DEF SessionSound, RingSound
<1>8. LineSound(y.l, x.h)
  BY <1>1, <1>3, <1>6, <1>7 DEF SessionSound, LineSound
<1>9. QED BY <1>3, <1>6, <1>8 DEF SessionSound

\* A search remembers what was typed.
LEMMA SearchingSound ==
  ASSUME NEW x, SessionSound(x), NEW y, y = Searching(x)
  PROVE  /\ SessionSound(y) /\ y.h = x.h /\ y.l.in_history_search
         /\ y.l.history_index = x.l.history_index
<1>1. CASE x.l.in_history_search
  BY <1>1 DEF Searching
<1>2. CASE ~x.l.in_history_search
  <2> DEFINE new == Copied(x.l.buf, HISTORY_LINE_LENGTH)
             l1 == [x.l EXCEPT !.search_prefix = new, !.in_history_search = TRUE]
  <2>1. new \in Texts /\ Len(new) < HISTORY_LINE_LENGTH /\ IsPrefix(new, x.l.buf)
    BY CopiedIs, Sizes DEF SessionSound, LineSound
  <2>2. y = [x EXCEPT !.l = l1]
    BY <1>2 DEF Searching, SessionSound, IsSession
  <2> HIDE DEF new
  <2>3. /\ IsLine(l1) /\ l1.search_prefix = new /\ l1.in_history_search = TRUE
        /\ l1.buf = x.l.buf /\ l1.index = x.l.index /\ l1.history_index = x.l.history_index
    BY DEF SessionSound, IsSession, IsLine, LineFields
  <2> HIDE DEF l1
  <2>4. y.l = l1 /\ y.h = x.h /\ DOMAIN y = DOMAIN x /\ y = [f \in DOMAIN y |-> y[f]]
    BY <2>2 DEF SessionSound, IsSession
  <2>5. LineSound(y.l, x.h)
    BY <1>2, <2>1, <2>3, <2>4 DEF SessionSound, LineSound
  <2>6. QED BY <2>3, <2>4, <2>5 DEF SessionSound, IsSession
<1>3. QED BY <1>1, <1>2

\* A line of the history that the search has found takes the place of the one shown.
LEMMA RecalledSound ==
  ASSUME NEW x, SessionSound(x), x.l.in_history_search, NEW j \in Slots,
         Ahead(x.h.tail, j) < Ahead(x.h.tail, x.h.head), Matches(x.h, j, x.l.search_prefix),
         NEW y, y = Recalled(x, j, history_get(x.h, LINE_SIZE - 1, j))
  PROVE  SessionSound(y) /\ y.h = x.h
<1> DEFINE text == Copied(x.h.buffer[j], LINE_SIZE - 1)
           l1 == [x.l EXCEPT !.history_index = j]
           x1 == [x EXCEPT !.l.history_index = j]
<1>1. /\ x.h.buffer[j] \in Texts /\ Len(x.h.buffer[j]) < HISTORY_LINE_LENGTH
      /\ Len(x.h.buffer[j]) \in Nat
  BY DEF SessionSound, RingSound, Texts
<1>2. LINE_SIZE - 1 \in Nat /\ LINE_SIZE - 1 > 0 /\ Len(x.h.buffer[j]) < LINE_SIZE - 1
  BY <1>1, Sizes
<1>3. text = x.h.buffer[j]
  BY <1>1, <1>2, CopiedIs
<1>4. /\ IsLine(l1) /\ l1.history_index = j /\ l1.search_prefix = x.l.search_prefix
      /\ l1.in_history_search = x.l.in_history_search
  BY DEF SessionSound, IsSession, IsLine, LineFields
<1>5. x1 = [x EXCEPT !.l = l1]
  BY DEF SessionSound, IsSession
<1> HIDE DEF l1
<1>6. x1.l = l1 /\ x1.h = x.h /\ DOMAIN x1 = DOMAIN x /\ x1 = [f \in DOMAIN x1 |-> x1[f]]
  BY <1>5 DEF SessionSound, IsSession
<1>7. y = Relined(x1, text, Len(text))
  BY DEF Recalled, history_get
<1> HIDE DEF x1
<1>8. IsSession(x1)
  BY <1>4, <1>6 DEF SessionSound, IsSession
<1>9. /\ IsSession(y) /\ y.h = x1.h
      /\ y.l.buf = text /\ y.l.index = Len(text)
      /\ y.l.search_prefix = x1.l.search_prefix
      /\ y.l.history_index = x1.l.history_index
      /\ y.l.in_history_search = x1.l.in_history_search
  BY <1>7, <1>8, RelinedIs
<1>10. IsPrefix(x.l.search_prefix, text)
  BY <1>3 DEF Matches
<1>11. /\ text \in Texts /\ Len(text) \in Nat /\ Len(text) < LINE_SIZE /\ Len(text) \in 0 .. Len(text)
       /\ Ahead(x.h.tail, j) <= Ahead(x.h.tail, x.h.head)
  <2>1. Ahead(x.h.tail, j) \in Nat /\ Ahead(x.h.tail, x.h.head) \in Nat
    BY AheadIs DEF SessionSound, RingSound
  <2>2. QED BY <1>1, <1>2, <1>3, <2>1, Sizes
<1>12. y.l.buf = Copied(x.h.buffer[j], LINE_SIZE - 1)
  BY <1>9
<1> HIDE DEF text
<1>13. LineSound(y.l, x.h)
  <2>1. /\ y.l.buf = text /\ y.l.index = Len(text) /\ y.l.history_index = j
        /\ y.l.search_prefix = x.l.search_prefix /\ y.l.in_history_search = TRUE
    BY <1>4, <1>6, <1>9 DEF SessionSound, LineSound
  <2>2. x.l.search_prefix \in Texts /\ Len(x.l.search_prefix) < HISTORY_LINE_LENGTH
    BY DEF SessionSound, LineSound
  <2>3. IsPrefix(y.l.search_prefix, y.l.buf)
    BY <1>10, <2>1
  <2>4. y.l.buf \in Texts /\ Len(y.l.buf) < LINE_SIZE /\ y.l.index \in 0 .. Len(y.l.buf)
    BY <1>11, <2>1
  <2>5. QED BY <1>11, <1>12, <2>1, <2>2, <2>3, <2>4 DEF LineSound
<1>14. QED BY <1>6, <1>9, <1>13 DEF SessionSound

\* Past the newest line the search is over, and what was typed is back.
LEMMA TypedAgainSound ==
  ASSUME NEW x, SessionSound(x), NEW j, j = x.h.head,
         NEW y, y = Recalled([x EXCEPT !.l.in_history_search = FALSE], j, x.l.search_prefix)
  PROVE  SessionSound(y) /\ y.h = x.h
<1> DEFINE text == x.l.search_prefix
           l1 == [x.l EXCEPT !.in_history_search = FALSE, !.history_index = j]
           x0 == [x EXCEPT !.l.in_history_search = FALSE]
           x1 == [x0 EXCEPT !.l.history_index = j]
<1>1. /\ IsLine(l1) /\ l1.history_index = j /\ l1.search_prefix = text
      /\ l1.in_history_search = FALSE
  BY DEF SessionSound, IsSession, IsLine, LineFields
<1>2. x1 = [x EXCEPT !.l = l1]
  BY DEF SessionSound, IsSession
<1>3. y = Relined(x1, text, Len(text))
  BY DEF Recalled
<1> HIDE DEF l1, x0, x1
<1>4. x1.l = l1 /\ x1.h = x.h /\ DOMAIN x1 = DOMAIN x /\ x1 = [f \in DOMAIN x1 |-> x1[f]]
  BY <1>2 DEF SessionSound, IsSession
<1>5. IsSession(x1)
  BY <1>1, <1>4 DEF SessionSound, IsSession
<1>6. /\ IsSession(y) /\ y.h = x1.h
      /\ y.l.buf = text /\ y.l.index = Len(text)
      /\ y.l.search_prefix = x1.l.search_prefix
      /\ y.l.history_index = x1.l.history_index
      /\ y.l.in_history_search = x1.l.in_history_search
  BY <1>3, <1>5, RelinedIs
<1>7. /\ text \in Texts /\ Len(text) \in Nat /\ Len(text) < HISTORY_LINE_LENGTH
  BY LenProperties DEF SessionSound, LineSound, Texts
<1>8. Len(text) < LINE_SIZE /\ Len(text) \in 0 .. Len(text)
  BY <1>7, Sizes
<1>9. j \in Slots /\ Ahead(x.h.tail, j) <= Ahead(x.h.tail, x.h.head)
  BY AheadIs DEF SessionSound, RingSound
<1> HIDE DEF text
<1>10. LineSound(y.l, x.h)
  BY <1>1, <1>4, <1>6, <1>7, <1>8, <1>9 DEF LineSound
<1>11. QED BY <1>4, <1>6, <1>10 DEF SessionSound

\* Moving within the line.
Moved(x, index, e, t) == [x EXCEPT !.l.index = index, !.l.ended = e, !.t = t]

LEMMA MovedSound ==
  ASSUME NEW x, SessionSound(x), NEW index \in 0 .. Len(x.l.buf), NEW e, NEW t,
         NEW y, y = Moved(x, index, e, t)
  PROVE  SessionSound(y) /\ y.h = x.h
<1> DEFINE l1 == [x.l EXCEPT !.index = index, !.ended = e]
<1>1. y = [x EXCEPT !.l = l1, !.t = t]
  BY DEF Moved, SessionSound, IsSession
<1>2. /\ IsLine(l1) /\ l1.buf = x.l.buf /\ l1.index = index
      /\ l1.search_prefix = x.l.search_prefix
      /\ l1.history_index = x.l.history_index /\ l1.in_history_search = x.l.in_history_search
  BY DEF SessionSound, IsSession, IsLine, LineFields
<1> HIDE DEF l1
<1>3. y.l = l1 /\ y.h = x.h /\ DOMAIN y = DOMAIN x /\ y = [f \in DOMAIN y |-> y[f]]
  BY <1>1 DEF SessionSound, IsSession
<1>4. LineSound(y.l, x.h)
  BY <1>2, <1>3 DEF SessionSound, LineSound
<1>5. QED BY <1>2, <1>3, <1>4 DEF SessionSound, IsSession

LEMMA KeyUpSound ==
  ASSUME NEW x, SessionSound(x), NEW y, y = KeyUp(x)
  PROVE  SessionSound(y) /\ y.h = x.h
<1>1. CASE history_is_empty(x.h)
  BY <1>1 DEF KeyUp
<1>2. CASE ~history_is_empty(x.h)
  <2> DEFINE z == Searching(x)
             j == history_prev_matching(z.h, z.l.history_index, z.l.search_prefix)
  <2>1. SessionSound(z) /\ z.h = x.h /\ z.l.in_history_search
    BY SearchingSound
  <2>2. y = Found(z, j)
    BY <1>2 DEF KeyUp, Older
  <2> HIDE DEF z
  <2>3. CASE j = z.l.history_index
    BY <2>1, <2>2, <2>3 DEF Found
  <2>4. CASE j # z.l.history_index
    <3>1. /\ RingSound(z.h) /\ z.l.history_index \in Slots /\ z.l.search_prefix \in Texts
          /\ Ahead(z.h.tail, z.l.history_index) <= Ahead(z.h.tail, z.h.head)
      BY <2>1 DEF SessionSound, LineSound
    <3>2. j \in Slots /\ Ahead(z.h.tail, j) < Ahead(z.h.tail, z.h.head)
          /\ Matches(z.h, j, z.l.search_prefix)
      BY <2>4, <3>1, OlderIs
    <3>3. y = Recalled(z, j, history_get(z.h, LINE_SIZE - 1, j))
      BY <2>2, <2>4 DEF Found
    <3> HIDE DEF j
    <3>4. QED BY <2>1, <3>2, <3>3, RecalledSound
  <2>5. QED BY <2>3, <2>4
<1>3. QED BY <1>1, <1>2

LEMMA KeyDownSound ==
  ASSUME NEW x, SessionSound(x), NEW y, y = KeyDown(x)
  PROVE  SessionSound(y) /\ y.h = x.h
<1>1. CASE history_is_empty(x.h) \/ history_is_end_index(x.h, x.l.history_index)
  BY <1>1 DEF KeyDown
<1>2. CASE ~(history_is_empty(x.h) \/ history_is_end_index(x.h, x.l.history_index))
  <2> DEFINE z == Searching(x)
             j == history_next_matching(z.h, z.l.history_index, z.l.search_prefix)
  <2>1. /\ SessionSound(z) /\ z.h = x.h /\ z.l.in_history_search
        /\ z.l.history_index = x.l.history_index
    BY SearchingSound
  <2>2. y = Returned(z, j) /\ x.l.history_index # x.h.head
    BY <1>2 DEF KeyDown, Newer, history_is_end_index
  <2> HIDE DEF z
  <2>3. /\ RingSound(z.h) /\ z.l.history_index \in Slots /\ z.l.search_prefix \in Texts
        /\ Ahead(z.h.tail, z.l.history_index) <= Ahead(z.h.tail, z.h.head)
        /\ z.l.history_index # z.h.head
    BY <2>1, <2>2 DEF SessionSound, LineSound
  <2>4. /\ j \in Slots
        /\ j # z.h.head => Ahead(z.h.tail, j) < Ahead(z.h.tail, z.h.head)
                           /\ Matches(z.h, j, z.l.search_prefix)
    BY <2>3, NewerIs
  <2> HIDE DEF j
  <2>5. CASE j = z.h.head
    <3>1. y = Recalled([z EXCEPT !.l.in_history_search = FALSE], j, z.l.search_prefix)
      BY <2>2, <2>5 DEF Returned, history_is_end_index
    <3>2. QED BY <2>1, <2>5, <3>1, TypedAgainSound
  <2>6. CASE j # z.h.head
    <3>1. y = Recalled(z, j, history_get(z.h, LINE_SIZE - 1, j))
      BY <2>2, <2>6 DEF Returned, history_is_end_index
    <3>2. QED BY <2>1, <2>4, <2>6, <3>1, RecalledSound
  <2>7. QED BY <2>5, <2>6
<1>3. QED BY <1>1, <1>2

LEMMA KeySound ==
  ASSUME NEW x, SessionSound(x), NEW key \in Keys, NEW y, y = Key(x, key)
  PROVE  SessionSound(y) /\ y.h = x.h
<1>1. /\ x.l.buf \in Texts /\ Len(x.l.buf) \in Nat /\ Len(x.l.buf) < LINE_SIZE
      /\ x.l.index \in Nat /\ x.l.index <= Len(x.l.buf) /\ x.l.index \in 0 .. Len(x.l.buf)
  BY LenProperties DEF SessionSound, LineSound, Texts
<1>2. CASE key = "BACKSPACE"
  <2>1. CASE x.l.index > 0
    <3> DEFINE text == Without(x.l.buf, x.l.index)
    <3>1. y = Edited(x, text, x.l.index - 1)
      BY <1>2, <2>1 DEF Key, ModeKeys
    <3>2. text \in Texts /\ Len(text) = Len(x.l.buf) - 1
      BY <1>1, <2>1, WithoutIs
    <3> HIDE DEF text
    <3>3. Len(text) < LINE_SIZE /\ x.l.index - 1 \in 0 .. Len(text)
      BY <1>1, <2>1, <3>2, Sizes
    <3>4. QED BY <3>1, <3>2, <3>3, EditedSound
  <2>2. CASE ~(x.l.index > 0)
    BY <1>2, <2>2 DEF Key, ModeKeys
  <2>3. QED BY <2>1, <2>2
<1>3. CASE key = "DEL"
  <2>1. CASE x.l.index < Len(x.l.buf)
    <3> DEFINE text == Without(x.l.buf, x.l.index + 1)
    <3>1. y = Edited(x, text, x.l.index)
      BY <1>3, <2>1 DEF Key, ModeKeys
    <3>2. x.l.index + 1 \in 1 .. Len(x.l.buf)
      BY <1>1, <2>1
    <3>3. text \in Texts /\ Len(text) = Len(x.l.buf) - 1
      BY <1>1, <3>2, WithoutIs
    <3> HIDE DEF text
    <3>4. Len(text) < LINE_SIZE /\ x.l.index \in 0 .. Len(text)
      BY <1>1, <2>1, <3>3, Sizes
    <3>5. QED BY <3>1, <3>3, <3>4, EditedSound
  <2>2. CASE ~(x.l.index < Len(x.l.buf))
    BY <1>3, <2>2 DEF Key, ModeKeys
  <2>3. QED BY <2>1, <2>2
<1>4. CASE key = "ESC"
  <2>1. CASE x.l.index > 0
    <3>1. y = Edited(x, <<>>, 0)
      BY <1>4, <2>1 DEF Key, ModeKeys
    <3>2. <<>> \in Texts /\ Len(<<>>) < LINE_SIZE /\ 0 \in 0 .. Len(<<>>)
      BY Sizes DEF Texts
    <3>3. QED BY <3>1, <3>2, EditedSound
  <2>2. CASE ~(x.l.index > 0)
    BY <1>4, <2>2 DEF Key, ModeKeys
  <2>3. QED BY <2>1, <2>2
<1>5. CASE key = "HOME"
  <2>1. y = KeyHome(x) /\ 0 \in 0 .. Len(x.l.buf)
    BY <1>1, <1>5 DEF Key, ModeKeys
  <2>2. CASE x.l.index = 0
    BY <2>1, <2>2 DEF KeyHome
  <2>3. CASE x.l.index # 0
    <3>1. PICK e \in BOOLEAN : e = FALSE
      OBVIOUS
    <3>2. y = Moved(x, 0, e, screen_txt_set_cursor(x.t, x.l.start_col, x.l.start_row))
      BY <2>1, <2>3, <3>1 DEF KeyHome, Moved
    <3>3. QED BY <2>1, <3>2, MovedSound
  <2>4. QED BY <2>2, <2>3
<1>6. CASE key = "END"
  <2>1. y = KeyEnd(x) /\ Len(x.l.buf) \in 0 .. Len(x.l.buf)
    BY <1>1, <1>6 DEF Key, ModeKeys
  <2>2. CASE x.l.index = Len(x.l.buf)
    BY <2>1, <2>2 DEF KeyEnd
  <2>3. CASE x.l.index # Len(x.l.buf)
    <3>1. PICK e \in BOOLEAN : e = TRUE
      OBVIOUS
    <3>2. y = Moved(x, Len(x.l.buf), e, screen_txt_set_cursor(x.t, x.l.end_col, x.l.end_row))
      BY <2>1, <2>3, <3>1 DEF KeyEnd, Moved
    <3>3. QED BY <2>1, <3>2, MovedSound
  <2>4. QED BY <2>2, <2>3
<1>7. CASE key = "UP"
  BY <1>7, KeyUpSound DEF Key, ModeKeys
<1>8. CASE key = "DOWN"
  BY <1>8, KeyDownSound DEF Key, ModeKeys
<1>9. CASE key = "LEFT"
  <2>1. CASE x.l.index > 0
    <3> DEFINE i == x.l.index - 1
    <3>1. y = GoTo(x, i) /\ i \in 0 .. Len(x.l.buf)
      BY <1>1, <1>9, <2>1 DEF Key, ModeKeys
    <3> HIDE DEF i
    <3>2. PICK e \in BOOLEAN : e = FALSE
      OBVIOUS
    <3>3. y = Moved(x, i, e, SetCursor(x.t, calc_cursor_pos(x.l, i)))
      BY <3>1, <3>2 DEF GoTo, Moved
    <3>4. QED BY <3>1, <3>3, MovedSound
  <2>2. CASE ~(x.l.index > 0)
    BY <1>9, <2>2 DEF Key, ModeKeys
  <2>3. QED BY <2>1, <2>2
<1>10. CASE key = "RIGHT"
  <2>1. CASE x.l.index < Len(x.l.buf)
    <3> DEFINE i == x.l.index + 1
    <3>1. y = GoTo(x, i) /\ i \in 0 .. Len(x.l.buf)
      BY <1>1, <1>10, <2>1 DEF Key, ModeKeys
    <3> HIDE DEF i
    <3>2. PICK e \in BOOLEAN : e = FALSE
      OBVIOUS
    <3>3. y = Moved(x, i, e, SetCursor(x.t, calc_cursor_pos(x.l, i)))
      BY <3>1, <3>2 DEF GoTo, Moved
    <3>4. QED BY <3>1, <3>3, MovedSound
  <2>2. CASE ~(x.l.index < Len(x.l.buf))
    BY <1>10, <2>2 DEF Key, ModeKeys
  <2>3. QED BY <2>1, <2>2
<1>11. CASE key \in DOMAIN ModeKeys
  <2>1. key \in {"F1", "F2", "F3"}
    BY <1>11 DEF ModeKeys
  <2>2. y = [x EXCEPT !.t = screen_handle_mode_key(@, key)]
    BY <1>11, <2>1 DEF Key, ModeKeys
  <2>3. QED BY <2>2, OtherScreen
<1>12. CASE key \in Glyphs
  <2>1. key \notin EditKeys /\ key \notin DOMAIN ModeKeys
    BY <1>12, ConsoleAssumption
  <2>2. y = Typed(x, key)
    BY <2>1 DEF Key, EditKeys
  <2>3. CASE Len(x.l.buf) < LINE_SIZE - 1
    <3> DEFINE text == With(x.l.buf, x.l.index, key)
    <3>1. text \in Texts /\ Len(text) = Len(x.l.buf) + 1
      BY <1>1, <1>12, WithIs
    <3>2. y = Edited(x, text, x.l.index + 1)
      BY <2>2, <2>3 DEF Typed
    <3> HIDE DEF text
    <3>3. Len(text) < LINE_SIZE /\ x.l.index + 1 \in 0 .. Len(text)
      BY <1>1, <2>3, <3>1, Sizes
    <3>4. QED BY <3>1, <3>2, <3>3, EditedSound
  <2>4. CASE ~(Len(x.l.buf) < LINE_SIZE - 1)
    BY <2>2, <2>4 DEF Typed
  <2>5. QED BY <2>3, <2>4
<1>13. key \in EditKeys \/ key \in DOMAIN ModeKeys \/ key \in Glyphs
  BY DEF Keys
<1>14. QED BY <1>2, <1>3, <1>4, <1>5, <1>6, <1>7, <1>8, <1>9, <1>10, <1>11, <1>12, <1>13 DEF EditKeys

-----------------------------------------------------------------------------
(* The program.                                                            *)

HistoryInv ==
  /\ calls \in Seq(Commands) /\ waiting \in BOOLEAN
  /\ entered \in Seq(Texts) /\ RingSound(s.h) /\ Recorded(s.h, entered)
  /\ IsSession(s)
  /\ waiting => LineSound(s.l, s.h) /\ calls # <<>> /\ Head(calls).op = "line"

\* What a session begins with.
LEMMA BeginSound ==
  ASSUME NEW t, NEW h, RingSound(h), NEW x, x = BeginLine(t, h)
  PROVE  SessionSound(x) /\ x.h = h
<1> DEFINE on == screen_txt_enable_cursor(t, TRUE)
           u == screen_txt_draw_cursor(on)
           m == [buf |-> <<>>, index |-> 0, start_col |-> t.column, start_row |-> t.row,
                 end_col |-> t.column, end_row |-> t.row, history_index |-> h.head,
                 search_prefix |-> <<>>, in_history_search |-> FALSE,
                 reach |-> 0, slid |-> FALSE, ended |-> FALSE]
<1>1. x = [t |-> u, l |-> m, h |-> h]
  BY DEF BeginLine
<1> HIDE DEF u
<1>2. /\ IsLine(m) /\ m.buf = <<>> /\ m.index = 0 /\ m.history_index = h.head
      /\ m.search_prefix = <<>> /\ m.in_history_search = FALSE
  BY DEF IsLine, LineFields
<1> HIDE DEF m
<1>3. x.l = m /\ x.h = h /\ IsSession(x)
  BY <1>1, <1>2 DEF IsSession
<1>4. <<>> \in Texts /\ Len(<<>>) = 0
  BY DEF Texts
<1>5. h.head \in Slots /\ Ahead(h.tail, h.head) <= Ahead(h.tail, h.head)
  BY AheadIs DEF RingSound
<1>6. /\ m.buf \in Texts /\ Len(m.buf) < LINE_SIZE /\ m.index \in 0 .. Len(m.buf)
      /\ m.search_prefix \in Texts /\ Len(m.search_prefix) < HISTORY_LINE_LENGTH
  BY <1>2, <1>4, Sizes
<1>7. m.in_history_search \in BOOLEAN /\ ~m.in_history_search
  BY <1>2
<1>8. LineSound(m, h)
  BY <1>2, <1>5, <1>6, <1>7 DEF LineSound
<1>9. QED BY <1>3, <1>8 DEF SessionSound

LEMMA EmptySound == RingSound(EmptyHistory) /\ Recorded(EmptyHistory, <<>>)
<1>1. 0 \in Slots /\ <<>> \in Texts /\ Len(<<>>) = 0
  BY Sizes DEF Slots, Texts
<1>2. RingSound(EmptyHistory)
  BY <1>1, Sizes DEF RingSound, EmptyHistory
<1>3. Ahead(0, 0) = 0 /\ Most(0) = 0
  BY <1>1, AheadIs, Sizes DEF Far, Most
<1>4. EmptyHistory.tail = 0 /\ EmptyHistory.head = 0
  BY DEF EmptyHistory
<1>5. Recorded(EmptyHistory, <<>>)
  BY <1>1, <1>3, <1>4 DEF Recorded
<1>6. QED BY <1>2, <1>5

LEMMA InitHistoryInv == Init => HistoryInv
<1> SUFFICES ASSUME Init PROVE HistoryInv
  OBVIOUS
<1> DEFINE x == BeginLine(BootScreen, EmptyHistory)
<1>1. SessionSound(x) /\ x.h = EmptyHistory
  BY EmptySound, BeginSound
<1>2. s = [x EXCEPT !.t = BootScreen]
  BY DEF Init
<1> HIDE DEF x
<1>3. SessionSound(s) /\ s.h = EmptyHistory
  BY <1>1, <1>2, OtherScreen
<1>4. calls \in Seq(Commands)
  BY ConsoleAssumption DEF Init
<1>5. entered \in Seq(Texts) /\ entered = <<>> /\ waiting = FALSE
  BY DEF Init
<1>6. QED BY <1>3, <1>4, <1>5, EmptySound DEF HistoryInv, SessionSound

\* What the program writes does not touch the history.
LEMMA WrittenSound ==
  ASSUME HistoryInv, ~waiting, NEW t, OnScreen(t), UNCHANGED <<waiting, entered>>,
         calls' \in Seq(Commands)
  PROVE  HistoryInv'
<1>1. s' = [s EXCEPT !.t = t]
  BY DEF OnScreen
<1>2. s'.h = s.h /\ s'.l = s.l /\ DOMAIN s' = DOMAIN s /\ s' = [f \in DOMAIN s' |-> s'[f]]
  BY <1>1 DEF HistoryInv, IsSession
<1>3. IsSession(s')
  BY <1>2 DEF HistoryInv, IsSession
<1>4. QED BY <1>2, <1>3 DEF HistoryInv

\* The next call, and what is left after it.
LEMMA Program ==
  ASSUME HistoryInv, calls # <<>>
  PROVE  /\ Next1 \in Commands /\ Tail(calls) \in Seq(Commands) /\ Next1 = calls[1]
         /\ Next1.op = "line" => Next1.keys \subseteq Keys
         /\ Next1.op = "readchar" =>
              /\ Next1 \in [op : {"readchar"}, keys : SUBSET Keys]
              /\ \A K \in SUBSET Keys : [calls EXCEPT ![1] = [Next1 EXCEPT !.keys = K]] \in Seq(Commands)
<1>1. calls \in Seq(Commands)
  BY DEF HistoryInv
<1>2. Next1 \in Commands /\ Tail(calls) \in Seq(Commands) /\ Next1 = calls[1] /\ 1 \in 1 .. Len(calls)
  BY <1>1, HeadTailProperties DEF Next1
<1>3. Next1.op = "line" => Next1.keys \subseteq Keys
  BY <1>2 DEF Commands
<1>4. ASSUME Next1.op = "readchar"
      PROVE  /\ Next1 \in [op : {"readchar"}, keys : SUBSET Keys]
             /\ \A K \in SUBSET Keys : [calls EXCEPT ![1] = [Next1 EXCEPT !.keys = K]] \in Seq(Commands)
  <2>1. Next1 \in [op : {"readchar"}, keys : SUBSET Keys]
    BY <1>2, <1>4 DEF Commands
  <2>2. ASSUME NEW K \in SUBSET Keys
        PROVE  [calls EXCEPT ![1] = [Next1 EXCEPT !.keys = K]] \in Seq(Commands)
    <3> DEFINE c == [Next1 EXCEPT !.keys = K]
    <3>1. c \in Commands
      BY <2>1 DEF Commands
    <3> HIDE DEF c
    <3>2. [calls EXCEPT ![1] = c] \in Seq(Commands)
      BY <1>1, <1>2, <3>1, ExceptSeq
    <3>3. QED BY <3>2 DEF c
  <2>3. QED BY <2>1, <2>2
<1>5. QED BY <1>2, <1>3, <1>4

LEMMA StepHistoryInv == HistoryInv /\ [Next]_vars => HistoryInv'
<1> SUFFICES ASSUME HistoryInv, [Next]_vars PROVE HistoryInv'
  OBVIOUS
<1> USE DEF vars
\* A call that writes, and is done.
<1>1. ASSUME NEW op, Calling(op), NEW t, OnScreen(t), Done PROVE HistoryInv'
  <2>1. ~waiting /\ UNCHANGED <<waiting, entered>> /\ calls # <<>> /\ calls' = Tail(calls)
    BY <1>1 DEF Calling, Done
  <2>2. calls' \in Seq(Commands)
    BY <2>1, Program
  <2>3. QED BY <1>1, <2>1, <2>2, WrittenSound
<1>2. CASE output_write
  BY <1>1, <1>2 DEF output_write
<1>3. CASE prim_cleartext
  BY <1>1, <1>3 DEF prim_cleartext
<1>4. CASE prim_setcursor
  BY <1>1, <1>4 DEF prim_setcursor
<1>5. CASE prim_screen
  BY <1>1, <1>5 DEF prim_screen
<1>6. CASE input_read_char
  <2>1. calls # <<>> /\ ~waiting /\ Next1.op = "readchar"
    BY <1>6 DEF input_read_char, Calling
  <2>2. PICK key \in Next1.keys :
          IF key \in DOMAIN ModeKeys
          THEN /\ OnScreen(screen_handle_mode_key(s.t, key))
               /\ calls' = [calls EXCEPT ![1].keys = @ \ {key}]
               /\ UNCHANGED <<waiting, typed, entered>>
          ELSE Done /\ UNCHANGED s
    BY <1>6 DEF input_read_char
  <2>3. CASE key \in DOMAIN ModeKeys
    <3> DEFINE K == Next1.keys \ {key}
    <3>1. K \in SUBSET Keys
      BY <2>1, Program
    <3>2. calls' = [calls EXCEPT ![1] = [Next1 EXCEPT !.keys = K]]
      BY <2>1, <2>2, <2>3, Program
    <3> HIDE DEF K
    <3>3. calls' \in Seq(Commands)
      BY <2>1, <3>1, <3>2, Program
    <3>4. QED BY <2>1, <2>2, <2>3, <3>3, WrittenSound
  <2>4. CASE key \notin DOMAIN ModeKeys
    BY <2>1, <2>2, <2>4, Program DEF Done, HistoryInv
  <2>5. QED BY <2>3, <2>4
<1>7. CASE Prompt
  <2>1. SessionSound(s') /\ s'.h = s.h
    BY <1>7, BeginSound DEF Prompt, HistoryInv
  <2>2. /\ waiting' = TRUE /\ calls' = calls /\ entered' = entered
        /\ calls # <<>> /\ Head(calls).op = "line"
    BY <1>7 DEF Prompt, Calling, Next1
  <2>3. QED BY <2>1, <2>2 DEF HistoryInv, SessionSound
<1>8. CASE Press
  <2>1. PICK key \in Next1.keys : s' = Read(s, key)
    BY <1>8 DEF Press
  <2>2. waiting /\ SessionSound(s) /\ calls # <<>> /\ Next1.op = "line"
    BY <1>8 DEF Press, HistoryInv, SessionSound, Next1
  <2>3. key \in Keys
    BY <2>1, <2>2, Program
  <2> DEFINE a == Erased(s)
             b == Key(a, key)
  <2>4. SessionSound(a) /\ a.h = s.h
    BY <2>2, OtherScreen DEF Erased
  <2> HIDE DEF a
  <2>5. SessionSound(b) /\ b.h = s.h
    BY <2>3, <2>4, KeySound
  <2>6. s' = Waiting(b)
    BY <2>1 DEF Read, a
  <2> HIDE DEF b
  <2>7. SessionSound(s') /\ s'.h = s.h
    BY <2>5, <2>6, OtherScreen DEF Waiting
  <2>8. UNCHANGED <<calls, waiting, entered>>
    BY <1>8 DEF Press
  <2>9. QED BY <2>7, <2>8 DEF HistoryInv, SessionSound
<1>9. CASE picocalc_read_line
  <2>1. waiting /\ SessionSound(s) /\ calls # <<>>
    BY <1>9 DEF picocalc_read_line, HistoryInv, SessionSound
  <2>2. calls' \in Seq(Commands) /\ waiting' = FALSE
    BY <1>9, <2>1, Program DEF picocalc_read_line, LineEnds
  <2> DEFINE t == screen_txt_putc(
                    screen_txt_set_cursor(
                      screen_txt_enable_cursor(screen_txt_erase_cursor(s.t), FALSE),
                      s.l.end_col, s.l.end_row), "newline")
             g == history_add(s.h, s.l.buf)
  <2>3. s' = [s EXCEPT !.t = t, !.h = g]
    BY <1>9 DEF picocalc_read_line, Enter
  <2> HIDE DEF t
  <2>4. s.l.buf \in Texts /\ RingSound(s.h)
    BY <2>1 DEF SessionSound, LineSound
  <2>5. RingSound(g)
    BY <2>4, AddedSound
  <2>6. Recorded(g, entered') /\ entered' \in Seq(Texts)
    <3>1. CASE is_blank(s.l.buf)
      <4>1. g = s.h /\ entered' = entered
        BY <1>9, <3>1 DEF picocalc_read_line, history_add
      <4>2. QED BY <4>1 DEF HistoryInv
    <3>2. CASE ~is_blank(s.l.buf)
      <4>1. entered' = Append(entered, s.l.buf)
        BY <1>9, <3>2 DEF picocalc_read_line
      <4>2. entered \in Seq(Texts) /\ Recorded(s.h, entered)
        BY DEF HistoryInv
      <4>3. Append(entered, s.l.buf) \in Seq(Texts)
        BY <2>4, <4>2
      <4> HIDE DEF g
      <4>4. Recorded(g, Append(entered, s.l.buf))
        BY <2>4, <3>2, <4>2, AddedRecorded DEF g
      <4>5. QED BY <4>1, <4>3, <4>4
    <3>3. QED BY <3>1, <3>2
  <2> HIDE DEF g
  <2>7. s'.h = g /\ IsSession(s')
    BY <2>1, <2>3 DEF SessionSound, IsSession
  <2>8. QED BY <2>2, <2>5, <2>6, <2>7 DEF HistoryInv
<1>10. CASE BreakLine
  <2>1. waiting /\ SessionSound(s) /\ calls # <<>>
    BY <1>10 DEF BreakLine, HistoryInv, SessionSound
  <2>2. calls' \in Seq(Commands) /\ waiting' = FALSE /\ entered' = entered
    BY <1>10, <2>1, Program DEF BreakLine, LineEnds
  <2> DEFINE b == Break(s)
  <2>3. SessionSound(b) /\ b.h = s.h
    BY <2>1, OtherScreen DEF Break
  <2>4. s' = [b EXCEPT !.t = screen_txt_puts(b.t, <<"!", "newline">>)]
    BY <1>10 DEF BreakLine
  <2> HIDE DEF b
  <2>5. SessionSound(s') /\ s'.h = s.h
    BY <2>3, <2>4, OtherScreen
  <2>6. QED BY <2>2, <2>5 DEF HistoryInv, SessionSound
<1>11. CASE Rest \/ UNCHANGED vars
  BY <1>11 DEF Rest, HistoryInv
<1>12. QED
  BY <1>2, <1>3, <1>4, <1>5, <1>6, <1>7, <1>8, <1>9, <1>10, <1>11 DEF Next

\* The invariant says what the property says.
LEMMA HistoryInvKept == HistoryInv => HistoryKept
<1> SUFFICES ASSUME HistoryInv PROVE HistoryKept
  OBVIOUS
<1> DEFINE most == HISTORY_SIZE - 1
           lines == Latest(entered, most)
<1>1. PICK L \in Nat : L = Len(entered)
  BY DEF HistoryInv
<1>2. PICK n \in Nat : n = Most(L) /\ n <= L /\ Ahead(s.h.tail, s.h.head) = n
  BY <1>1, Sizes DEF HistoryInv, Recorded, Most
<1>3. lines = SubSeq(entered, L - n + 1, L)
  <2>1. L - n + 1 = IF L > most THEN L - most + 1 ELSE 1
    BY <1>2, Sizes DEF Most
  <2>2. QED BY <1>1, <2>1 DEF Latest
<1>4. Len(lines) = n /\ \A i \in 1 .. n : lines[i] = entered[L - n + i]
  <2>1. PICK m \in Nat : m = L - n + 1 /\ m >= 1 /\ m <= L + 1
    BY <1>2
  <2>2. ASSUME NEW i \in m .. L PROVE entered[i] \in Texts
    <3>1. i \in 1 .. Len(entered)
      BY <1>1, <2>1
    <3>2. QED BY <3>1, ElementOfSeq DEF HistoryInv
  <2>3. /\ Len(SubSeq(entered, m, L)) = IF m <= L THEN L - m + 1 ELSE 0
        /\ \A i \in 1 .. L - m + 1 : SubSeq(entered, m, L)[i] = entered[m + i - 1]
    BY <2>2, SubSeqProperties
  <2>4. L - m + 1 = n /\ \A i \in 1 .. n : m + i - 1 = L - n + i
    BY <1>2, <2>1
  <2>5. Len(lines) = n
    BY <1>2, <1>3, <2>1, <2>3, <2>4
  <2>6. ASSUME NEW i \in 1 .. n PROVE lines[i] = entered[L - n + i]
    BY <1>3, <2>1, <2>3, <2>4
  <2>7. QED BY <2>5, <2>6
<1> HIDE DEF lines
<1>5. ASSUME NEW i \in 1 .. n
      PROVE  s.h.buffer[(s.h.tail + i - 1) % HISTORY_SIZE] = Copied(lines[i], HISTORY_LINE_LENGTH)
  BY <1>1, <1>2, <1>4 DEF HistoryInv, Recorded
<1>6. Kept(s.h) = [i \in 1 .. Len(lines) |-> Copied(lines[i], HISTORY_LINE_LENGTH)]
  BY <1>2, <1>4, <1>5 DEF Kept
<1>7. ASSUME waiting, s.l.in_history_search
      PROVE  /\ IsPrefix(s.l.search_prefix, s.l.buf)
             /\ s.l.history_index # s.h.head =>
                  /\ Ahead(s.h.tail, s.l.history_index) < Ahead(s.h.tail, s.h.head)
                  /\ s.l.buf = Copied(s.h.buffer[s.l.history_index], LINE_SIZE - 1)
  <2>1. LineSound(s.l, s.h) /\ s.h.tail \in Slots /\ s.h.head \in Slots
    BY <1>7 DEF HistoryInv, RingSound
  <2>2. ASSUME s.l.history_index # s.h.head
        PROVE  Ahead(s.h.tail, s.l.history_index) < Ahead(s.h.tail, s.h.head)
    <3>1. s.l.history_index \in Slots
          /\ Ahead(s.h.tail, s.l.history_index) <= Ahead(s.h.tail, s.h.head)
      BY <2>1 DEF LineSound
    <3>2. Ahead(s.h.tail, s.l.history_index) # Ahead(s.h.tail, s.h.head)
      BY <2>1, <2>2, <3>1, AheadApart
    <3>3. Ahead(s.h.tail, s.l.history_index) \in Nat /\ Ahead(s.h.tail, s.h.head) \in Nat
      BY <2>1, <3>1, AheadIs
    <3>4. QED BY <3>1, <3>2, <3>3
  <2>3. QED BY <1>7, <2>1, <2>2 DEF LineSound
<1>8. QED BY <1>6, <1>7 DEF HistoryKept, lines

\* Whatever is typed and recalled, the history is the latest lines entered that were
\* not blank, and a search shows only those that begin with what was typed.
THEOREM HistoryAlwaysKept == Spec => []HistoryKept
<1>1. Spec => []HistoryInv
  BY InitHistoryInv, StepHistoryInv, PTL DEF Spec
<1>2. QED BY <1>1, HistoryInvKept, PTL

-----------------------------------------------------------------------------
(* The memory of the LCD.  A view is what is shown, by displayed line.     *)

LEMMA ScreenSizes ==
  /\ SCREEN_COLUMNS \in Nat /\ SCREEN_COLUMNS > 0
  /\ SCREEN_SPLIT_TXT_ROWS \in Nat /\ SCREEN_SPLIT_TXT_ROWS > 0
  /\ SCREEN_ROWS \in Nat /\ SCREEN_SPLIT_TXT_ROWS < SCREEN_ROWS
  /\ FRAME_ROWS \in Nat /\ SCREEN_ROWS < FRAME_ROWS
  BY TextScreenAssumption

ScreenFields == DOMAIN BootScreen

Frame == 0 .. FRAME_ROWS - 1

OnMemory(t) ==
  /\ DOMAIN t = ScreenFields
  /\ DOMAIN t.lcd = Frame
  /\ t.top \in Nat /\ t.top < SCREEN_ROWS
  /\ t.offset \in 0 .. FRAME_ROWS - t.top - 1

\* The place of a line in plain numbers.
LineAt(F, top, offset, y) ==
  IF y < top THEN y ELSE IF y + offset < F THEN y + offset ELSE y + offset - (F - top)

LEMMA LineAtApart ==
  ASSUME NEW F \in Nat, NEW top \in Nat, top < F, NEW o \in 0 .. F - top - 1,
         NEW y \in 0 .. F - 1, NEW z \in 0 .. F - 1, y # z
  PROVE  LineAt(F, top, o, y) # LineAt(F, top, o, z) /\ LineAt(F, top, o, y) \in 0 .. F - 1
  BY DEF LineAt

LEMMA MapIs ==
  ASSUME NEW t, OnMemory(t), NEW y \in Frame
  PROVE  lcd_scroll_map_row(t, y) = LineAt(FRAME_ROWS, t.top, t.offset, y)
<1>1. /\ FRAME_ROWS \in Nat /\ t.top \in Nat /\ t.top < FRAME_ROWS
      /\ t.offset \in Nat /\ t.offset < FRAME_ROWS - t.top /\ y \in Nat /\ y < FRAME_ROWS
  BY ScreenSizes DEF OnMemory, Frame
<1>2. CASE y < t.top
  BY <1>2 DEF lcd_scroll_map_row, LineAt
<1>3. CASE ~(y < t.top)
  <2>1. PICK N \in Nat \ {0} : N = FRAME_ROWS - t.top
    BY <1>1
  <2>2. PICK a \in Nat : a = y - t.top + t.offset /\ a < 2 * N
    BY <1>1, <1>3, <2>1
  <2>3. a % N = IF a < N THEN a ELSE a - N
    BY <2>1, <2>2, Modulo
  <2>4. lcd_scroll_map_row(t, y) = t.top + (a % N)
    BY <1>3, <2>1, <2>2 DEF lcd_scroll_map_row
  <2>5. t.top + (a % N) = IF y + t.offset < FRAME_ROWS THEN y + t.offset
                          ELSE y + t.offset - (FRAME_ROWS - t.top)
    BY <1>1, <2>1, <2>2, <2>3
  <2>6. QED BY <1>3, <2>4, <2>5 DEF LineAt
<1>4. QED BY <1>2, <1>3

LEMMA MapIn ==
  ASSUME NEW t, OnMemory(t), NEW y \in Frame
  PROVE  lcd_scroll_map_row(t, y) \in Frame
<1>1. /\ FRAME_ROWS \in Nat /\ t.top \in Nat /\ t.top < FRAME_ROWS
      /\ t.offset \in 0 .. FRAME_ROWS - t.top - 1
  BY ScreenSizes DEF OnMemory
<1>2. LineAt(FRAME_ROWS, t.top, t.offset, y) \in Frame
  BY <1>1 DEF LineAt, Frame
<1>3. QED BY <1>2, MapIs

LEMMA MapApart ==
  ASSUME NEW t, OnMemory(t), NEW y \in Frame, NEW z \in Frame, y # z
  PROVE  lcd_scroll_map_row(t, y) # lcd_scroll_map_row(t, z)
<1>1. /\ FRAME_ROWS \in Nat /\ t.top \in Nat /\ t.top < FRAME_ROWS
      /\ t.offset \in 0 .. FRAME_ROWS - t.top - 1
  BY ScreenSizes DEF OnMemory
<1>2. LineAt(FRAME_ROWS, t.top, t.offset, y) # LineAt(FRAME_ROWS, t.top, t.offset, z)
  BY <1>1, LineAtApart DEF Frame
<1>3. QED BY <1>2, MapIs

\* What writing the displayed lines ys leaves in the memory.
Blitted(t, ys, line) ==
  [m \in DOMAIN t.lcd |-> IF \E y \in ys : lcd_scroll_map_row(t, y) = m
                          THEN line[CHOOSE y \in ys : lcd_scroll_map_row(t, y) = m]
                          ELSE t.lcd[m]]

LEMMA BlittedShown ==
  ASSUME NEW t, OnMemory(t), NEW ys \in SUBSET Frame, NEW line,
         NEW u, OnMemory(u), u.top = t.top, u.offset = t.offset, u.lcd = Blitted(t, ys, line),
         NEW y \in Frame
  PROVE  Shown(u, y) = IF y \in ys THEN line[y] ELSE Shown(t, y)
<1> DEFINE m == lcd_scroll_map_row(t, y)
<1>1. lcd_scroll_map_row(u, y) = m /\ m \in Frame /\ DOMAIN t.lcd = Frame
  BY MapIn DEF lcd_scroll_map_row, OnMemory
<1>2. \A z \in ys : lcd_scroll_map_row(t, z) = m <=> z = y
  BY MapApart
<1> HIDE DEF m
<1>3. CASE y \in ys
  <2>1. (CHOOSE z \in ys : lcd_scroll_map_row(t, z) = m) = y
    BY <1>2, <1>3
  <2>2. u.lcd[m] = line[y]
    <3>1. m \in DOMAIN t.lcd /\ \E z \in ys : lcd_scroll_map_row(t, z) = m
      BY <1>1, <1>2, <1>3
    <3>2. u.lcd[m] = IF \E z \in ys : lcd_scroll_map_row(t, z) = m
                     THEN line[CHOOSE z \in ys : lcd_scroll_map_row(t, z) = m] ELSE t.lcd[m]
      BY <3>1, Zenon DEF Blitted
    <3>3. QED BY <2>1, <3>1, <3>2, Zenon
  <2>3. QED BY <1>1, <1>3, <2>2 DEF Shown
<1>4. CASE y \notin ys
  <2>1. u.lcd[m] = t.lcd[m]
    BY <1>1, <1>2, <1>4 DEF Blitted
  <2>2. QED BY <1>1, <1>4, <2>1 DEF Shown, m
<1>5. QED BY <1>3, <1>4


View(t) == [y \in Rows |-> Shown(t, y)]

\* All that matters of a screen but what the LCD shows and where the cursor is.
SameText(t, u) ==
  /\ DOMAIN u = ScreenFields /\ u.buf = t.buf /\ u.text_row = t.text_row /\ u.dirty = t.dirty
  /\ u.mode = t.mode /\ u.top = t.top /\ u.stray = t.stray
SameCursor(t, u) == u.column = t.column /\ u.row = t.row

\* Lines that are all written the same.
PlainLines(t, ys, v) == LcdLines(t, ys, LAMBDA y : v)

LEMMA PlainLinesIs ==
  ASSUME NEW t, OnMemory(t), NEW ys \in SUBSET Frame, NEW v, NEW u, u = PlainLines(t, ys, v)
  PROVE  /\ OnMemory(u) /\ SameText(t, u) /\ SameCursor(t, u) /\ u.offset = t.offset
         /\ \A y \in Frame : Shown(u, y) = IF y \in ys THEN v ELSE Shown(t, y)
<1> DEFINE line == [y \in ys |-> v]
           lcd == [m \in DOMAIN t.lcd |-> IF \E y \in ys : [z \in ys |-> lcd_scroll_map_row(t, z)][y] = m
                                          THEN v ELSE t.lcd[m]]
           un == {w \in t.under : \A y \in ys : [z \in ys |-> lcd_scroll_map_row(t, z)][y] # w[1]}
<1>1. u = [t EXCEPT !.lcd = lcd, !.under = un]
  BY DEF LcdLines, PlainLines
<1>2. lcd = Blitted(t, ys, line)
  <2>1. ASSUME NEW m \in DOMAIN t.lcd
        PROVE  (IF \E y \in ys : [z \in ys |-> lcd_scroll_map_row(t, z)][y] = m THEN v ELSE t.lcd[m])
                 = (IF \E y \in ys : lcd_scroll_map_row(t, y) = m
                    THEN line[CHOOSE y \in ys : lcd_scroll_map_row(t, y) = m] ELSE t.lcd[m])
    <3>1. CASE \E y \in ys : lcd_scroll_map_row(t, y) = m
      <4>1. (CHOOSE y \in ys : lcd_scroll_map_row(t, y) = m) \in ys
        BY <3>1
      <4>2. line[CHOOSE y \in ys : lcd_scroll_map_row(t, y) = m] = v
        BY <4>1, Zenon
      <4>3. QED BY <3>1, <4>2
    <3>2. CASE ~ \E y \in ys : lcd_scroll_map_row(t, y) = m
      BY <3>2
    <3>3. QED BY <3>1, <3>2
  <2> HIDE DEF line
  <2>2. QED BY <2>1 DEF Blitted
<1> HIDE DEF lcd, un, line
<1>3. /\ DOMAIN u = ScreenFields /\ u.lcd = lcd /\ u.top = t.top /\ u.offset = t.offset
      /\ SameText(t, u) /\ SameCursor(t, u)
  BY <1>1 DEF ScreenFields, BootScreen, OnMemory, SameText, SameCursor
<1>4. OnMemory(u)
  BY <1>2, <1>3 DEF OnMemory, Blitted
<1>5. ASSUME NEW y \in Frame
      PROVE  Shown(u, y) = IF y \in ys THEN v ELSE Shown(t, y)
  <2>1. Shown(u, y) = IF y \in ys THEN line[y] ELSE Shown(t, y)
    BY <1>2, <1>3, <1>4, BlittedShown
  <2>2. QED BY <2>1 DEF line
<1>6. QED BY <1>3, <1>4, <1>5

\* The hardware scrolls the lines from top on up by one, whatever its memory holds
\* and wherever it starts.
Scrolled(view, top) ==
  [y \in Rows |-> IF y < top THEN view[y]
                  ELSE IF y = SCREEN_ROWS - 1 THEN BlankRow ELSE view[y + 1]]

LEMMA LineAtNext ==
  ASSUME NEW F \in Nat, NEW top \in Nat, top < F, NEW o \in 0 .. F - top - 1,
         NEW y \in 0 .. F - 1, y + 1 < F, y >= top,
         NEW n, n = IF o + 1 < F - top THEN o + 1 ELSE 0
  PROVE  LineAt(F, top, n, y) = LineAt(F, top, o, y + 1)
  BY DEF LineAt

LEMMA ScrollUpIs ==
  ASSUME NEW t, OnMemory(t), NEW u, u = lcd_scroll_up(t)
  PROVE  /\ OnMemory(u) /\ View(u) = Scrolled(View(t), t.top)
         /\ SameText(t, u) /\ SameCursor(t, u)
<1> DEFINE up == [t EXCEPT !.offset = (@ + 1) % (FRAME_ROWS - t.top)]
           ys == {SCREEN_ROWS - 1}
<1>1. u = PlainLines(up, ys, BlankRow)
  BY DEF lcd_scroll_up, PlainLines, LcdLines
<1>2. /\ DOMAIN up = ScreenFields /\ up.offset = (t.offset + 1) % (FRAME_ROWS - t.top)
      /\ up.lcd = t.lcd /\ up.top = t.top /\ SameText(t, up) /\ SameCursor(t, up)
  BY DEF OnMemory, ScreenFields, BootScreen, SameText, SameCursor
<1>3. /\ FRAME_ROWS \in Nat /\ t.top \in Nat /\ t.top < FRAME_ROWS /\ t.top < SCREEN_ROWS
      /\ t.offset \in 0 .. FRAME_ROWS - t.top - 1
  BY ScreenSizes DEF OnMemory
<1> HIDE DEF up
<1>4. up.offset = IF t.offset + 1 < FRAME_ROWS - t.top THEN t.offset + 1 ELSE 0
  <2>1. PICK N \in Nat \ {0} : N = FRAME_ROWS - t.top
    BY <1>3
  <2>2. PICK a \in Nat : a = t.offset + 1 /\ a <= N
    BY <1>3, <2>1
  <2>3. a % N = IF a < N THEN a ELSE a - N
    <3>1. a < 2 * N
      BY <2>1, <2>2
    <3>2. QED BY <2>1, <2>2, <3>1, Modulo
  <2>4. QED BY <1>2, <2>1, <2>2, <2>3
<1>5. OnMemory(up) /\ ys \in SUBSET Frame
  <2>1. up.offset \in 0 .. FRAME_ROWS - t.top - 1
    BY <1>3, <1>4
  <2>2. OnMemory(up)
    BY <1>2, <1>3, <2>1 DEF OnMemory
  <2>3. ys \in SUBSET Frame
    BY ScreenSizes DEF Frame
  <2>4. QED BY <2>2, <2>3
<1>6. ASSUME NEW y \in Rows, y < t.top
      PROVE  Shown(up, y) = Shown(t, y)
  BY <1>2, <1>6 DEF Shown, lcd_scroll_map_row
<1>7. ASSUME NEW y \in Rows, y >= t.top
      PROVE  Shown(up, y) = Shown(t, y + 1)
  <2>1. y \in Frame /\ y + 1 \in Frame /\ y + 1 < FRAME_ROWS
    BY ScreenSizes DEF Frame, Rows
  <2>2. LineAt(FRAME_ROWS, t.top, up.offset, y) = LineAt(FRAME_ROWS, t.top, t.offset, y + 1)
    BY <1>3, <1>4, <1>7, <2>1, LineAtNext DEF Frame
  <2>3. QED BY <1>2, <1>5, <2>1, <2>2, MapIs DEF Shown
<1>8. /\ OnMemory(u) /\ SameText(up, u) /\ SameCursor(up, u)
      /\ \A y \in Frame : Shown(u, y) = IF y \in ys THEN BlankRow ELSE Shown(up, y)
  BY <1>1, <1>5, PlainLinesIs
<1>9. ASSUME NEW y \in Rows
      PROVE  View(u)[y] = Scrolled(View(t), t.top)[y]
  <2>1. View(u)[y] = IF y = SCREEN_ROWS - 1 THEN BlankRow ELSE Shown(up, y)
    <3>1. y \in Frame
      BY ScreenSizes DEF Frame, Rows
    <3>2. QED BY <1>8, <3>1 DEF View
  <2>2. y \in Int /\ y + 1 \in Int /\ t.top \in Int
    BY <1>3 DEF Rows
  <2>3. CASE y < t.top
    <3>1. Shown(up, y) = Shown(t, y) /\ y # SCREEN_ROWS - 1
      BY <1>3, <1>6, <2>2, <2>3, ScreenSizes
    <3>2. Scrolled(View(t), t.top)[y] = View(t)[y]
      BY <2>3 DEF Scrolled
    <3>3. QED BY <2>1, <3>1, <3>2 DEF View
  <2>4. CASE y >= t.top /\ y = SCREEN_ROWS - 1
    BY <1>3, <2>1, <2>2, <2>4, ScreenSizes DEF Scrolled
  <2>5. CASE y >= t.top /\ y # SCREEN_ROWS - 1
    <3>1. y + 1 \in Rows
      BY <2>5, ScreenSizes DEF Rows
    <3>2. QED BY <1>7, <2>1, <2>2, <2>5, <3>1 DEF View, Scrolled
  <2>6. QED BY <2>2, <2>3, <2>4, <2>5
<1>10. View(u) = Scrolled(View(t), t.top)
  BY <1>9 DEF View, Scrolled
<1>11. QED BY <1>2, <1>8, <1>10 DEF SameText, SameCursor

-----------------------------------------------------------------------------
(* What the LCD shows in each mode.                                        *)

TextLines == [Columns -> Cells]
LastLine == SCREEN_ROWS - 1
Window(start) == start .. start + SCREEN_SPLIT_TXT_ROWS - 1
LineIn(start, r) == SCREEN_SPLIT_TXT_ROW + r - start

\* The rows of the window are shown, or still blank and dirty; those that it has
\* not reached yet are dirty.
Agrees(view, buf, dirty, start) ==
  /\ \A r \in Window(start) : \A c \in Columns :
       \/ view[LineIn(start, r)][c] = buf[r][c]
       \/ view[LineIn(start, r)][c] = Blank /\ r \in dirty
  /\ \A r \in Rows : r >= start + SCREEN_SPLIT_TXT_ROWS => r \in dirty

UnderPicture(view) ==
  \A y \in Rows : IF y < SCREEN_SPLIT_TXT_ROW THEN view[y] = Picture ELSE view[y] \in TextLines

Faces(mode, view, buf, dirty, start, stray) ==
  /\ mode = "TXT" => \A r \in Rows : view[r] = buf[r]
  /\ mode = "GFX" => \A y \in Rows : view[y] \in {Picture, BlankRow}
  /\ mode = "SPLIT" => /\ UnderPicture(view)
                       /\ ~stray => Agrees(view, buf, dirty, start)

TextTyped(t) ==
  /\ t.buf \in [Rows -> TextLines] /\ t.text_row \in Rows /\ t.dirty \in SUBSET Rows
  /\ t.mode \in {"TXT", "SPLIT", "GFX"} /\ t.stray \in BOOLEAN
  /\ t.top = IF t.mode = "SPLIT" THEN SCREEN_SPLIT_TXT_ROW ELSE 0

FacesOf(t, stray) == Faces(t.mode, View(t), t.buf, t.dirty, WindowStart(t), stray)
TextSound(t) == OnMemory(t) /\ TextTyped(t) /\ FacesOf(t, t.stray)
AtCursor(t) == t.column \in Columns /\ t.row \in Rows
ScreenSound(t) == TextSound(t) /\ AtCursor(t)

LEMMA WindowIs ==
  ASSUME NEW t, t.text_row \in Rows
  PROVE  /\ WindowStart(t) \in 0 .. SCREEN_SPLIT_TXT_ROW
         /\ t.text_row \in Window(WindowStart(t))
         /\ Window(WindowStart(t)) \subseteq Rows
         /\ SCREEN_SPLIT_TXT_ROW \in Nat /\ SCREEN_SPLIT_TXT_ROW > 0
<1>1. PICK n \in Nat : n = t.text_row /\ n < SCREEN_ROWS
  BY ScreenSizes DEF Rows
<1>2. WindowStart(t) = IF n < SCREEN_SPLIT_TXT_ROWS THEN 0 ELSE n - (SCREEN_SPLIT_TXT_ROWS - 1)
  BY <1>1 DEF WindowStart
<1>3. QED BY <1>1, <1>2, ScreenSizes DEF Window, SCREEN_SPLIT_TXT_ROW, Rows

\* Only the cursor.
SameLcd(t, u) == SameText(t, u) /\ u.lcd = t.lcd /\ u.offset = t.offset

LEMMA SameLcdSound ==
  ASSUME NEW t, TextSound(t), NEW u, SameLcd(t, u)
  PROVE  TextSound(u)
<1>1. OnMemory(u) /\ TextTyped(u)
  BY DEF TextSound, SameLcd, SameText, OnMemory, TextTyped
<1>2. View(u) = View(t)
  BY DEF View, Shown, lcd_scroll_map_row, SameLcd, SameText
<1>3. WindowStart(u) = WindowStart(t)
  BY DEF WindowStart, SameLcd, SameText
<1>4. QED BY <1>1, <1>2, <1>3 DEF TextSound, FacesOf, SameLcd, SameText

LEMMA MoveCursorIs ==
  ASSUME NEW t, DOMAIN t = ScreenFields, NEW column, NEW y, NEW u, u = lcd_move_cursor(t, column, y)
  PROVE  SameLcd(t, u) /\ SameCursor(t, u) /\ u.scrolled = t.scrolled /\ u.slid = t.slid
  BY DEF lcd_move_cursor, SameLcd, SameText, SameCursor, ScreenFields, BootScreen

LEMMA SetCursorIs ==
  ASSUME NEW t, DOMAIN t = ScreenFields, NEW column \in Nat, NEW row \in Nat,
         NEW u, u = screen_txt_set_cursor(t, column, row)
  PROVE  /\ SameLcd(t, u) /\ AtCursor(u)
         /\ column \in Columns => u.column = column
         /\ row \in Rows => u.row = row
<1> DEFINE moved == [t EXCEPT !.column = IF column < MAX_COLUMN THEN column ELSE MAX_COLUMN,
                              !.row = IF row < SCREEN_ROWS THEN row ELSE SCREEN_ROWS - 1]
<1>1. /\ DOMAIN moved = ScreenFields /\ SameLcd(t, moved)
      /\ moved.column = IF column < MAX_COLUMN THEN column ELSE MAX_COLUMN
      /\ moved.row = IF row < SCREEN_ROWS THEN row ELSE SCREEN_ROWS - 1
  BY DEF SameLcd, SameText, ScreenFields, BootScreen
<1> HIDE DEF moved
<1>2. PICK c, y : u = lcd_move_cursor(moved, c, y)
  BY Zenon DEF screen_txt_set_cursor, moved
<1>3. SameLcd(moved, u) /\ SameCursor(moved, u)
  BY <1>1, <1>2, MoveCursorIs
<1>4. SameLcd(t, u)
  BY <1>1, <1>3 DEF SameLcd, SameText
<1>5. /\ moved.column \in Columns /\ moved.row \in Rows
      /\ column \in Columns => moved.column = column
      /\ row \in Rows => moved.row = row
  BY <1>1, ScreenSizes DEF Columns, MAX_COLUMN, Rows
<1>6. QED BY <1>3, <1>4, <1>5 DEF AtCursor, SameCursor

LEMMA SetCursorSound ==
  ASSUME NEW t, TextSound(t), NEW column \in Nat, NEW row \in Nat,
         NEW u, u = screen_txt_set_cursor(t, column, row)
  PROVE  ScreenSound(u)
<1>1. DOMAIN t = ScreenFields
  BY DEF TextSound, OnMemory
<1>2. SameLcd(t, u) /\ AtCursor(u)
  BY <1>1, SetCursorIs
<1>3. QED BY <1>2, SameLcdSound DEF ScreenSound

\* The cursor drawn, erased or turned on and off.
LEMMA CursorSound ==
  ASSUME NEW t, ScreenSound(t), NEW on, NEW u,
         u \in {screen_txt_enable_cursor(t, on), screen_txt_draw_cursor(t),
                screen_txt_erase_cursor(t), lcd_erase_cursor(t), ToCursor(t)}
  PROVE  ScreenSound(u) /\ SameCursor(t, u) /\ SameLcd(t, u)
<1>1. DOMAIN t = ScreenFields
  BY DEF ScreenSound, TextSound, OnMemory
<1>2. DOMAIN ToCursor(t) = ScreenFields /\ SameLcd(t, ToCursor(t)) /\ SameCursor(t, ToCursor(t))
  BY <1>1, MoveCursorIs DEF ToCursor, SameLcd, SameText
<1>3. ASSUME NEW v, DOMAIN v = ScreenFields, NEW w, w = lcd_draw_cursor(v) \/ w = lcd_erase_cursor(v)
      PROVE  SameLcd(v, w) /\ SameCursor(v, w)
  BY <1>3 DEF lcd_draw_cursor, lcd_erase_cursor, SameLcd, SameText, SameCursor, ScreenFields, BootScreen
<1>4. SameLcd(t, t) /\ SameCursor(t, t)
  BY <1>1 DEF SameLcd, SameText, SameCursor
<1>5. SameLcd(t, u) /\ SameCursor(t, u)
  <2>1. CASE u = screen_txt_enable_cursor(t, on)
    BY <1>1, <2>1 DEF screen_txt_enable_cursor, SameLcd, SameText, SameCursor, ScreenFields, BootScreen
  <2>2. CASE u = screen_txt_draw_cursor(t)
    <3>1. u = t \/ u = lcd_draw_cursor(ToCursor(t))
      BY <2>2 DEF screen_txt_draw_cursor
    <3>2. QED BY <1>2, <1>3, <1>4, <3>1 DEF SameLcd, SameText, SameCursor
  <2>3. CASE u = screen_txt_erase_cursor(t)
    <3>1. u = t \/ u = lcd_erase_cursor(ToCursor(t))
      BY <2>3 DEF screen_txt_erase_cursor
    <3>2. QED BY <1>2, <1>3, <1>4, <3>1 DEF SameLcd, SameText, SameCursor
  <2>4. CASE u = lcd_erase_cursor(t)
    BY <1>1, <1>3, <2>4
  <2>5. CASE u = ToCursor(t)
    BY <1>2, <2>5
  <2>6. QED BY <2>1, <2>2, <2>3, <2>4, <2>5
<1>6. QED BY <1>5, SameLcdSound DEF ScreenSound, AtCursor, SameCursor

-----------------------------------------------------------------------------
(* Scrolling.                                                              *)

Shifted(buf) == [r \in Rows |-> IF r = LastLine THEN BlankRow ELSE buf[r + 1]]

LEMMA Letters ==
  /\ Blank \in Cells /\ BlankRow \in TextLines /\ "picture" \notin Cells /\ 0 \in Columns
  /\ Picture \notin TextLines
<1>1. Blank \in Cells /\ "picture" \notin Cells
  BY ConsoleAssumption DEF Cells
<1>2. 0 \in Columns
  BY ScreenSizes DEF Columns, MAX_COLUMN
<1>3. BlankRow \in TextLines
  BY <1>1 DEF BlankRow, TextLines
<1>4. Picture[0] = "picture"
  BY <1>2 DEF Picture
<1>5. Picture \notin TextLines
  BY <1>1, <1>2, <1>4 DEF TextLines
<1>6. QED BY <1>1, <1>2, <1>3, <1>5

LEMMA ShiftedIs ==
  ASSUME NEW buf \in [Rows -> TextLines]
  PROVE  Shifted(buf) \in [Rows -> TextLines]
<1>1. ASSUME NEW r \in Rows
      PROVE  (IF r = LastLine THEN BlankRow ELSE buf[r + 1]) \in TextLines
  <2>1. r # LastLine => r + 1 \in Rows
    BY ScreenSizes DEF Rows, LastLine
  <2>2. QED BY <2>1, Letters
<1>2. QED BY <1>1 DEF Shifted

\* The split screen's lines of text go up by one.
LEMMA ScrolledAt ==
  ASSUME NEW view, NEW top, NEW y \in Rows
  PROVE  /\ y < top => Scrolled(view, top)[y] = view[y]
         /\ ~(y < top) /\ y = LastLine => Scrolled(view, top)[y] = BlankRow
         /\ ~(y < top) /\ y # LastLine => Scrolled(view, top)[y] = view[y + 1] /\ y + 1 \in Rows
<1>1. Scrolled(view, top)[y] = IF y < top THEN view[y]
                               ELSE IF y = LastLine THEN BlankRow ELSE view[y + 1]
  BY Zenon DEF Scrolled, LastLine
<1>2. y # LastLine => y + 1 \in Rows
  BY ScreenSizes DEF Rows, LastLine
<1>3. QED BY <1>1, <1>2

LEMMA ScrolledUnder ==
  ASSUME NEW view, UnderPicture(view)
  PROVE  UnderPicture(Scrolled(view, SCREEN_SPLIT_TXT_ROW))
<1> DEFINE new == Scrolled(view, SCREEN_SPLIT_TXT_ROW)
<1>1. ASSUME NEW y \in Rows
      PROVE  IF y < SCREEN_SPLIT_TXT_ROW THEN new[y] = Picture ELSE new[y] \in TextLines
  <2>1. CASE y < SCREEN_SPLIT_TXT_ROW
    BY <2>1, ScrolledAt DEF UnderPicture
  <2>2. CASE ~(y < SCREEN_SPLIT_TXT_ROW) /\ y = LastLine
    BY <2>2, ScrolledAt, Letters
  <2>3. CASE ~(y < SCREEN_SPLIT_TXT_ROW) /\ y # LastLine
    <3>1. new[y] = view[y + 1] /\ y + 1 \in Rows
      BY <2>3, ScrolledAt
    <3>2. ~(y + 1 < SCREEN_SPLIT_TXT_ROW)
      BY <2>3, ScreenSizes DEF Rows, SCREEN_SPLIT_TXT_ROW
    <3>3. QED BY <2>3, <3>1, <3>2 DEF UnderPicture
  <2>4. QED BY <2>1, <2>2, <2>3
<1>2. QED BY <1>1 DEF UnderPicture

\* Where the rows of the window are.
LEMMA LineInIs ==
  ASSUME NEW start \in Int, NEW r \in Window(start)
  PROVE  /\ LineIn(start, r) \in Rows /\ ~(LineIn(start, r) < SCREEN_SPLIT_TXT_ROW)
         /\ (LineIn(start, r) = LastLine) <=> (r = start + SCREEN_SPLIT_TXT_ROWS - 1)
         /\ LineIn(start + 1, r) + 1 = LineIn(start, r)
  BY ScreenSizes DEF LineIn, Window, SCREEN_SPLIT_TXT_ROW, LastLine, Rows

\* The window moves down by one row.
LEMMA WindowDown ==
  ASSUME NEW view, NEW buf \in [Rows -> TextLines], NEW dirty, NEW start \in Nat,
         start < SCREEN_SPLIT_TXT_ROW, Agrees(view, buf, dirty, start)
  PROVE  Agrees(Scrolled(view, SCREEN_SPLIT_TXT_ROW), buf, dirty, start + 1)
<1> DEFINE new == Scrolled(view, SCREEN_SPLIT_TXT_ROW)
<1>1. ASSUME NEW r \in Window(start + 1), NEW c \in Columns
      PROVE  \/ new[LineIn(start + 1, r)][c] = buf[r][c]
             \/ new[LineIn(start + 1, r)][c] = Blank /\ r \in dirty
  <2>1. PICK y \in Rows : /\ y = LineIn(start + 1, r) /\ ~(y < SCREEN_SPLIT_TXT_ROW)
                          /\ (y = LastLine) <=> (r = start + 1 + SCREEN_SPLIT_TXT_ROWS - 1)
    BY LineInIs
  <2>2. CASE y = LastLine
    <3>1. new[y] = BlankRow
      BY <2>1, <2>2, ScrolledAt
    <3>2. r \in Rows /\ r >= start + SCREEN_SPLIT_TXT_ROWS
      BY <2>1, <2>2, ScreenSizes DEF Rows, Window, SCREEN_SPLIT_TXT_ROW
    <3>3. r \in dirty
      BY <3>2 DEF Agrees
    <3>4. QED BY <2>1, <3>1, <3>3 DEF BlankRow
  <2>3. CASE y # LastLine
    <3>1. new[y] = view[y + 1]
      BY <2>1, <2>3, ScrolledAt
    <3>2. r \in Window(start)
      BY <2>1, <2>3, ScreenSizes DEF Window
    <3>3. y + 1 = LineIn(start, r)
      BY <2>1, <3>2, LineInIs
    <3>4. QED BY <2>1, <3>1, <3>2, <3>3 DEF Agrees
  <2>4. QED BY <2>2, <2>3
<1>2. ASSUME NEW r \in Rows, r >= start + 1 + SCREEN_SPLIT_TXT_ROWS
      PROVE  r \in dirty
  <2>1. r >= start + SCREEN_SPLIT_TXT_ROWS
    BY <1>2, ScreenSizes DEF Rows
  <2>2. QED BY <2>1 DEF Agrees
<1>3. QED BY <1>1, <1>2 DEF Agrees

\* The text scrolls under the window at its end.
LEMMA TextUp ==
  ASSUME NEW view, NEW buf \in [Rows -> TextLines], NEW dirty,
         Agrees(view, buf, dirty, SCREEN_SPLIT_TXT_ROW)
  PROVE  Agrees(Scrolled(view, SCREEN_SPLIT_TXT_ROW), Shifted(buf), Rows, SCREEN_SPLIT_TXT_ROW)
<1> DEFINE new == Scrolled(view, SCREEN_SPLIT_TXT_ROW)
           T == SCREEN_SPLIT_TXT_ROW
<1>1. ASSUME NEW r \in Window(T), NEW c \in Columns
      PROVE  \/ new[LineIn(T, r)][c] = Shifted(buf)[r][c]
             \/ new[LineIn(T, r)][c] = Blank /\ r \in Rows
  <2>1. T \in Nat /\ T + SCREEN_SPLIT_TXT_ROWS = SCREEN_ROWS
    BY ScreenSizes DEF SCREEN_SPLIT_TXT_ROW
  <2>2. r \in Rows /\ LineIn(T, r) = r /\ ~(r < T)
    BY <2>1, ScreenSizes DEF Rows, Window, LineIn
  <2>3. CASE r = LastLine
    BY <2>2, <2>3, ScrolledAt DEF BlankRow
  <2>4. CASE r # LastLine
    <3>1. new[r] = view[r + 1] /\ r + 1 \in Rows
      BY <2>2, <2>4, ScrolledAt
    <3>2. Shifted(buf)[r] = buf[r + 1]
      BY <2>2, <2>4 DEF Shifted
    <3>3. r + 1 \in Window(T) /\ LineIn(T, r + 1) = r + 1
      BY <2>1, <2>2, <3>1, ScreenSizes DEF Rows, Window, LineIn
    <3>4. view[r + 1][c] = buf[r + 1][c] \/ view[r + 1][c] = Blank
      BY <3>3 DEF Agrees
    <3>5. QED BY <2>2, <3>1, <3>2, <3>4
  <2>5. QED BY <2>3, <2>4
<1>2. QED BY <1>1 DEF Agrees

LEMMA TextScrollIs ==
  ASSUME NEW t, DOMAIN t = ScreenFields, NEW u, u = screen_txt_scroll_up(t)
  PROVE  /\ DOMAIN u = ScreenFields /\ u.buf = Shifted(t.buf) /\ u.dirty = Rows
         /\ u.text_row = t.text_row /\ u.mode = t.mode /\ u.top = t.top /\ u.stray = t.stray
         /\ u.lcd = t.lcd /\ u.offset = t.offset /\ SameCursor(t, u)
  BY DEF screen_txt_scroll_up, Shifted, LastLine, SameCursor, ScreenFields, BootScreen

\* What the next line finds in every mode: a row to write on.  The split screen's window
\* moves down by one row at the most, once the line has been written to.
Moves(t, u) == t.stray \/ (t.mode = "SPLIT" /\ WindowStart(u) < WindowStart(t))

LEMMA LineBelowText ==
  ASSUME NEW t, ScreenSound(t), t.mode # "SPLIT", NEW u, u = LineBelow(t)
  PROVE  ScreenSound(u) /\ u.stray = t.stray /\ u.mode = t.mode
<1> DEFINE v == [t EXCEPT !.column = 0, !.row = @ + 1]
<1>1. /\ DOMAIN v = ScreenFields /\ v.column = 0 /\ v.row = t.row + 1 /\ SameLcd(t, v)
  BY DEF ScreenSound, TextSound, OnMemory, SameLcd, SameText, ScreenFields, BootScreen
<1>2. u = MakeRoom(v)
  BY DEF LineBelow
<1> HIDE DEF v
<1>3. TextSound(v) /\ v.mode = t.mode /\ v.stray = t.stray
  BY <1>1, SameLcdSound DEF ScreenSound, SameLcd, SameText
<1>4. CASE ~(v.row >= SCREEN_ROWS)
  <2>1. u = v
    BY <1>2, <1>3, <1>4 DEF MakeRoom
  <2>2. AtCursor(v)
    BY <1>1, <1>4, Letters, ScreenSizes DEF AtCursor, ScreenSound, Rows
  <2>3. QED BY <1>3, <2>1, <2>2 DEF ScreenSound
<1>5. CASE v.row >= SCREEN_ROWS
  <2> DEFINE up == screen_txt_scroll_up(v)
             w == IF v.mode = "TXT" THEN lcd_scroll_up(up) ELSE up
  <2>1. u = [w EXCEPT !.row = SCREEN_ROWS - 1, !.scrolled = TRUE]
    BY <1>2, <1>3, <1>5 DEF MakeRoom, ScrollText
  <2>2. /\ DOMAIN up = ScreenFields /\ up.buf = Shifted(v.buf) /\ up.dirty = Rows
        /\ up.text_row = v.text_row /\ up.mode = v.mode /\ up.top = v.top /\ up.stray = v.stray
        /\ up.lcd = v.lcd /\ up.offset = v.offset /\ SameCursor(v, up)
    BY <1>1, TextScrollIs
  <2> HIDE DEF up
  <2>3. OnMemory(up) /\ TextTyped(up)
    BY <1>3, <2>2, ShiftedIs DEF TextSound, OnMemory, TextTyped
  <2>4. View(up) = View(v)
    BY <2>2 DEF View, Shown, lcd_scroll_map_row
  <2>5. OnMemory(w) /\ SameText(up, w) /\ SameCursor(up, w)
        /\ View(w) = IF v.mode = "TXT" THEN Scrolled(View(v), 0) ELSE View(v)
    <3>1. CASE v.mode = "TXT"
      <4>1. up.top = 0
        BY <1>3, <2>2, <3>1 DEF TextSound, TextTyped
      <4>2. QED BY <2>3, <2>4, <3>1, <4>1, ScrollUpIs
    <3>2. CASE v.mode # "TXT"
      BY <2>2, <2>3, <2>4, <3>2 DEF SameText, SameCursor
    <3>3. QED BY <3>1, <3>2
  <2> HIDE DEF w
  <2>6. /\ SameLcd(w, u) /\ u.row = SCREEN_ROWS - 1 /\ u.column = w.column
    BY <2>1, <2>5 DEF SameLcd, SameText, OnMemory, ScreenFields, BootScreen
  <2>7. FacesOf(w, w.stray)
    <3>1. w.mode = v.mode /\ w.buf = Shifted(v.buf) /\ w.mode # "SPLIT"
      BY <1>3, <2>2, <2>5 DEF SameText
    <3>2. ASSUME w.mode = "TXT", NEW r \in Rows PROVE View(w)[r] = w.buf[r]
      <4>1. View(w)[r] = IF r = LastLine THEN BlankRow ELSE View(v)[r + 1]
        <5>1. ~(r < 0) /\ View(w) = Scrolled(View(v), 0)
          BY <2>5, <3>1, <3>2 DEF Rows
        <5>2. QED BY <5>1, ScrolledAt
      <4>2. r # LastLine => View(v)[r + 1] = v.buf[r + 1]
        <5>1. r # LastLine => r + 1 \in Rows
          BY ScreenSizes DEF Rows, LastLine
        <5>2. QED BY <1>3, <3>1, <3>2, <5>1 DEF TextSound, FacesOf, Faces
      <4>3. w.buf[r] = IF r = LastLine THEN BlankRow ELSE v.buf[r + 1]
        BY <3>1 DEF Shifted
      <4>4. QED BY <4>1, <4>2, <4>3
    <3>3. w.mode = "GFX" => View(w) = View(v)
      BY <2>5, <3>1
    <3>4. QED BY <1>3, <3>1, <3>2, <3>3 DEF TextSound, FacesOf, Faces
  <2>8. TextSound(w)
    <3>1. TextTyped(w)
      BY <2>3, <2>5 DEF TextTyped, SameText
    <3>2. QED BY <2>5, <2>7, <3>1 DEF TextSound
  <2>9. TextSound(u)
    BY <2>6, <2>8, SameLcdSound
  <2>10. AtCursor(u)
    BY <1>1, <2>2, <2>5, <2>6, Letters, ScreenSizes DEF AtCursor, SameCursor, Rows
  <2>11. QED BY <1>3, <2>2, <2>5, <2>6, <2>9, <2>10 DEF ScreenSound, SameLcd, SameText
<1>6. QED BY <1>4, <1>5

\* The row of the cursor becomes the last one written to.
Follows(u, v) ==
  /\ DOMAIN v = ScreenFields /\ v.buf = u.buf /\ v.dirty = u.dirty /\ v.mode = u.mode
  /\ v.top = u.top /\ v.stray = u.stray /\ v.lcd = u.lcd /\ v.offset = u.offset
  /\ v.text_row = u.row

LEMMA LineBelowSplit ==
  ASSUME NEW t, ScreenSound(t), t.mode = "SPLIT", NEW u, u = LineBelow(t), NEW v, Follows(u, v)
  PROVE  /\ OnMemory(v) /\ TextTyped(v) /\ FacesOf(v, Moves(t, v)) /\ v.stray = t.stray
         /\ u.row \in Rows /\ u.column = 0 /\ DOMAIN u = ScreenFields /\ u.mode = "SPLIT"
<1> DEFINE d == [t EXCEPT !.column = 0, !.row = @ + 1]
           start == WindowStart(t)
<1>1. /\ DOMAIN d = ScreenFields /\ d.column = 0 /\ d.row = t.row + 1 /\ SameLcd(t, d)
  BY DEF ScreenSound, TextSound, OnMemory, SameLcd, SameText, ScreenFields, BootScreen
<1>2. u = MakeRoom(d)
  BY DEF LineBelow
<1> HIDE DEF d
<1>3. /\ TextSound(d) /\ d.mode = "SPLIT" /\ d.stray = t.stray /\ d.text_row = t.text_row
      /\ d.top = SCREEN_SPLIT_TXT_ROW /\ WindowStart(d) = start
  BY <1>1, SameLcdSound DEF ScreenSound, TextSound, TextTyped, SameLcd, SameText, WindowStart
<1>4. /\ t.text_row \in Rows /\ t.row \in Rows /\ start \in 0 .. SCREEN_SPLIT_TXT_ROW
      /\ start = IF t.text_row < SCREEN_SPLIT_TXT_ROWS THEN 0
                 ELSE t.text_row - (SCREEN_SPLIT_TXT_ROWS - 1)
      /\ SCREEN_SPLIT_TXT_ROW = SCREEN_ROWS - SCREEN_SPLIT_TXT_ROWS
  BY WindowIs DEF ScreenSound, TextSound, TextTyped, AtCursor, WindowStart, SCREEN_SPLIT_TXT_ROW
<1>5. /\ UnderPicture(View(d))
      /\ ~t.stray => Agrees(View(d), d.buf, d.dirty, start)
  BY <1>3 DEF TextSound, FacesOf, Faces
<1> HIDE DEF start
<1>6. WindowStart(v) = IF u.row < SCREEN_SPLIT_TXT_ROWS THEN 0
                       ELSE u.row - (SCREEN_SPLIT_TXT_ROWS - 1)
  BY DEF WindowStart, Follows
\* The Faces of v, from those of u.
<1>7. ASSUME OnMemory(u), u.buf \in [Rows -> TextLines], u.dirty \in SUBSET Rows,
             u.mode = "SPLIT", u.stray = t.stray, u.top = SCREEN_SPLIT_TXT_ROW, u.row \in Rows,
             UnderPicture(View(u)),
             ~t.stray /\ ~(WindowStart(v) < start) => Agrees(View(u), u.buf, u.dirty, WindowStart(v))
      PROVE  OnMemory(v) /\ TextTyped(v) /\ FacesOf(v, Moves(t, v)) /\ v.stray = t.stray
  <2>1. OnMemory(v)
    BY <1>7 DEF OnMemory, Follows
  <2>2. TextTyped(v) /\ v.stray = t.stray
    BY <1>3, <1>7 DEF TextTyped, Follows, TextSound
  <2>3. View(v) = View(u)
    BY DEF View, Shown, lcd_scroll_map_row, Follows
  <2>4. Moves(t, v) <=> (t.stray \/ WindowStart(v) < start)
    BY DEF Moves, start
  <2>5. FacesOf(v, Moves(t, v))
    BY <1>7, <2>3, <2>4 DEF FacesOf, Faces, Follows
  <2>6. QED BY <2>1, <2>2, <2>5
<1>8. CASE ~(d.row >= start + SCREEN_SPLIT_TXT_ROWS)
  <2>1. u = d
    BY <1>2, <1>3, <1>8 DEF MakeRoom
  <2>2. u.row \in Rows
    BY <1>1, <1>4, <1>8, <2>1, ScreenSizes DEF Rows
  <2>3. ~(WindowStart(v) < start) => WindowStart(v) = start
    BY <1>1, <1>4, <1>6, <1>8, <2>1, <2>2, ScreenSizes DEF Rows
  <2>4. /\ OnMemory(u) /\ u.buf \in [Rows -> TextLines] /\ u.dirty \in SUBSET Rows
        /\ u.mode = "SPLIT" /\ u.stray = t.stray /\ u.top = SCREEN_SPLIT_TXT_ROW
        /\ UnderPicture(View(u))
    BY <1>3, <1>5, <2>1 DEF TextSound, TextTyped
  <2>5. ~t.stray /\ ~(WindowStart(v) < start) => Agrees(View(u), u.buf, u.dirty, WindowStart(v))
    BY <1>5, <2>1, <2>3
  <2>6. QED BY <1>1, <1>7, <2>1, <2>2, <2>4, <2>5
<1>9. CASE d.row >= start + SCREEN_SPLIT_TXT_ROWS /\ t.text_row = LastLine
  <2> DEFINE up == screen_txt_scroll_up(d)
             w == lcd_scroll_up(up)
  <2>1. u = [w EXCEPT !.row = start + SCREEN_SPLIT_TXT_ROWS - 1, !.scrolled = TRUE]
    <3>1. start + 0 + SCREEN_SPLIT_TXT_ROWS - 1 = start + SCREEN_SPLIT_TXT_ROWS - 1
      BY <1>4, ScreenSizes
    <3>2. QED BY <1>2, <1>3, <1>9, <3>1 DEF MakeRoom, ScrollWindow, LastLine
  <2>2. start = SCREEN_SPLIT_TXT_ROW /\ start + SCREEN_SPLIT_TXT_ROWS - 1 = LastLine /\ LastLine \in Rows
    BY <1>4, <1>9, ScreenSizes DEF LastLine, Rows
  <2>3. /\ DOMAIN up = ScreenFields /\ up.buf = Shifted(d.buf) /\ up.dirty = Rows
        /\ up.mode = d.mode /\ up.top = d.top /\ up.stray = d.stray
        /\ up.lcd = d.lcd /\ up.offset = d.offset /\ SameCursor(d, up)
    BY <1>1, TextScrollIs
  <2> HIDE DEF up
  <2>4. OnMemory(up) /\ up.buf \in [Rows -> TextLines]
    BY <1>3, <2>3, ShiftedIs DEF TextSound, OnMemory, TextTyped
  <2>5. View(up) = View(d)
    BY <2>3 DEF View, Shown, lcd_scroll_map_row
  <2>6. /\ OnMemory(w) /\ View(w) = Scrolled(View(d), SCREEN_SPLIT_TXT_ROW)
        /\ SameText(up, w) /\ SameCursor(up, w)
    BY <1>3, <2>3, <2>4, <2>5, ScrollUpIs
  <2> HIDE DEF w
  <2>7. /\ SameLcd(w, u) /\ u.row = LastLine /\ u.column = w.column
    BY <2>1, <2>2, <2>6 DEF SameLcd, SameText, OnMemory, ScreenFields, BootScreen
  <2>8. /\ OnMemory(u) /\ u.buf = Shifted(d.buf) /\ u.dirty = Rows
        /\ u.mode = "SPLIT" /\ u.stray = t.stray /\ u.top = SCREEN_SPLIT_TXT_ROW
    BY <1>3, <2>3, <2>6, <2>7 DEF OnMemory, SameLcd, SameText
  <2>9. View(u) = Scrolled(View(d), SCREEN_SPLIT_TXT_ROW)
    BY <2>6, <2>7 DEF View, Shown, lcd_scroll_map_row, SameLcd, SameText
  <2>10. UnderPicture(View(u))
    BY <1>5, <2>9, ScrolledUnder
  <2>11. WindowStart(v) = start
    BY <1>4, <1>6, <2>2, <2>7, ScreenSizes DEF LastLine
  <2>12. ~t.stray => Agrees(View(u), u.buf, u.dirty, WindowStart(v))
    <3>1. d.buf \in [Rows -> TextLines]
      BY <1>3 DEF TextSound, TextTyped
    <3>2. QED BY <1>5, <2>2, <2>8, <2>9, <2>11, <3>1, TextUp
  <2>13. u.row \in Rows /\ u.buf \in [Rows -> TextLines] /\ u.column = 0
    BY <1>1, <2>2, <2>3, <2>4, <2>6, <2>7, <2>8 DEF SameCursor
  <2>14. QED BY <1>7, <2>7, <2>8, <2>10, <2>12, <2>13 DEF OnMemory
<1>10. CASE d.row >= start + SCREEN_SPLIT_TXT_ROWS /\ t.text_row # LastLine
  <2> DEFINE m == [d EXCEPT !.text_row = @ + 1, !.slid = TRUE]
             w == lcd_scroll_up(m)
  <2>1. u = [w EXCEPT !.row = start + 1 + SCREEN_SPLIT_TXT_ROWS - 1, !.scrolled = TRUE]
    BY <1>2, <1>3, <1>10 DEF MakeRoom, ScrollWindow, LastLine
  <2>2. /\ start < SCREEN_SPLIT_TXT_ROW /\ start \in Nat
        /\ start + 1 + SCREEN_SPLIT_TXT_ROWS - 1 = start + SCREEN_SPLIT_TXT_ROWS
        /\ start + SCREEN_SPLIT_TXT_ROWS \in Rows
    BY <1>4, <1>10, ScreenSizes DEF LastLine, Rows
  <2>3. /\ DOMAIN m = ScreenFields /\ m.buf = d.buf /\ m.dirty = d.dirty
        /\ m.mode = d.mode /\ m.top = d.top /\ m.stray = d.stray
        /\ m.lcd = d.lcd /\ m.offset = d.offset /\ SameCursor(d, m)
    BY <1>1 DEF SameCursor, ScreenFields, BootScreen
  <2> HIDE DEF m
  <2>4. OnMemory(m)
    BY <1>3, <2>3 DEF TextSound, OnMemory
  <2>5. View(m) = View(d)
    BY <2>3 DEF View, Shown, lcd_scroll_map_row
  <2>6. /\ OnMemory(w) /\ View(w) = Scrolled(View(d), SCREEN_SPLIT_TXT_ROW)
        /\ SameText(m, w) /\ SameCursor(m, w)
    BY <1>3, <2>3, <2>4, <2>5, ScrollUpIs
  <2> HIDE DEF w
  <2>7. /\ SameLcd(w, u) /\ u.row = start + SCREEN_SPLIT_TXT_ROWS /\ u.column = w.column
    BY <2>1, <2>2, <2>6 DEF SameLcd, SameText, OnMemory, ScreenFields, BootScreen
  <2>8. /\ OnMemory(u) /\ u.buf = d.buf /\ u.dirty = d.dirty
        /\ u.mode = "SPLIT" /\ u.stray = t.stray /\ u.top = SCREEN_SPLIT_TXT_ROW
    BY <1>3, <2>3, <2>6, <2>7 DEF OnMemory, SameLcd, SameText
  <2>9. View(u) = Scrolled(View(d), SCREEN_SPLIT_TXT_ROW)
    BY <2>6, <2>7 DEF View, Shown, lcd_scroll_map_row, SameLcd, SameText
  <2>10. UnderPicture(View(u))
    BY <1>5, <2>9, ScrolledUnder
  <2>11. WindowStart(v) = start + 1
    BY <1>4, <1>6, <2>2, <2>7, ScreenSizes
  <2>12. d.buf \in [Rows -> TextLines] /\ d.dirty \in SUBSET Rows
    BY <1>3 DEF TextSound, TextTyped
  <2>13. ~t.stray => Agrees(View(u), u.buf, u.dirty, WindowStart(v))
    BY <1>5, <2>2, <2>8, <2>9, <2>11, <2>12, WindowDown
  <2>14. u.row \in Rows /\ u.column = 0
    BY <1>1, <2>2, <2>3, <2>6, <2>7 DEF SameCursor
  <2>15. QED BY <1>7, <2>7, <2>8, <2>10, <2>12, <2>13, <2>14 DEF OnMemory
<1>11. QED BY <1>8, <1>9, <1>10

-----------------------------------------------------------------------------
(* Writing one character.                                                  *)

\* What a character leaves: a sound screen, but for the window moving back.
Settled(t, u) ==
  /\ OnMemory(u) /\ TextTyped(u) /\ AtCursor(u) /\ FacesOf(u, Moves(t, u))
  /\ u.stray = t.stray /\ u.mode = t.mode

LEMMA SoundSettled ==
  ASSUME NEW t, NEW u, ScreenSound(u), u.stray = t.stray, u.mode = t.mode
  PROVE  Settled(t, u)
  BY DEF ScreenSound, TextSound, Settled, FacesOf, Faces, Moves

\* In the other modes the last row written to does not matter.
LEMMA WrittenToSound ==
  ASSUME NEW t, ScreenSound(t), t.mode # "SPLIT", NEW u, u = WrittenTo(t)
  PROVE  ScreenSound(u) /\ u.stray = t.stray /\ u.mode = t.mode
<1>1. /\ DOMAIN u = ScreenFields /\ u.buf = t.buf /\ u.dirty = t.dirty /\ u.mode = t.mode
      /\ u.top = t.top /\ u.stray = t.stray /\ u.lcd = t.lcd /\ u.offset = t.offset
      /\ u.text_row = t.row /\ SameCursor(t, u)
  BY DEF WrittenTo, SameCursor, ScreenSound, TextSound, OnMemory, ScreenFields, BootScreen
<1>2. OnMemory(u) /\ TextTyped(u) /\ AtCursor(u)
  BY <1>1 DEF ScreenSound, TextSound, OnMemory, TextTyped, AtCursor, SameCursor
<1>3. View(u) = View(t)
  BY <1>1 DEF View, Shown, lcd_scroll_map_row
<1>4. FacesOf(u, u.stray)
  BY <1>1, <1>3 DEF ScreenSound, TextSound, FacesOf, Faces
<1>5. QED BY <1>1, <1>2, <1>4 DEF ScreenSound, TextSound

\* The screen that follows a record, as a record.
Followed(u) == [f \in ScreenFields |-> IF f = "text_row" THEN u.row ELSE u[f]]

LEMMA BelowIs ==
  ASSUME NEW t, ScreenSound(t), t.mode = "SPLIT", NEW u, u = LineBelow(t)
  PROVE  u.row \in Rows /\ u.column = 0 /\ DOMAIN u = ScreenFields /\ u.mode = "SPLIT"
<1>1. Follows(u, Followed(u))
  BY DEF Follows, Followed, ScreenFields, BootScreen
<1>2. QED BY <1>1, LineBelowSplit

LEMMA NewlineSettled ==
  ASSUME NEW t, ScreenSound(t), NEW w, w = Newline(t)
  PROVE  Settled(t, w)
<1> DEFINE u == LineBelow(t)
           a == AfterScroll(u)
<1>1. w = WrittenTo(a)
  BY DEF Newline
<1>2. CASE t.mode = "SPLIT"
  <2>1. u.row \in Rows /\ u.column = 0 /\ DOMAIN u = ScreenFields
    BY <1>2, BelowIs
  <2>2. a = u \/ a = screen_txt_set_cursor(u, 0, u.row)
    BY DEF AfterScroll, ToStart
  <2> HIDE DEF a
  <2>3. SameLcd(u, a) /\ a.row = u.row /\ a.column = 0
    <3>1. CASE a = u
      BY <2>1, <3>1 DEF SameLcd, SameText
    <3>2. CASE a = screen_txt_set_cursor(u, 0, u.row)
      <4>1. 0 \in Nat /\ u.row \in Nat /\ 0 \in Columns
        BY <2>1, Letters DEF Rows
      <4> HIDE DEF u
      <4>2. QED BY <2>1, <3>2, <4>1, SetCursorIs
    <3>3. QED BY <2>2, <3>1, <3>2
  <2>4. Follows(u, w) /\ w.row = u.row /\ w.column = 0
    BY <1>1, <2>3 DEF Follows, WrittenTo, SameLcd, SameText, ScreenFields, BootScreen
  <2>5. OnMemory(w) /\ TextTyped(w) /\ FacesOf(w, Moves(t, w)) /\ w.stray = t.stray
    BY <1>2, <2>4, LineBelowSplit
  <2>6. AtCursor(w) /\ w.mode = t.mode
    BY <1>2, <2>1, <2>4, BelowIs, Letters DEF AtCursor, Follows
  <2>7. QED BY <2>5, <2>6 DEF Settled
<1>3. CASE t.mode # "SPLIT"
  <2>1. ScreenSound(u) /\ u.stray = t.stray /\ u.mode = t.mode
    BY <1>3, LineBelowText
  <2>2. a = u \/ a = screen_txt_set_cursor(u, 0, u.row)
    BY DEF AfterScroll, ToStart
  <2> HIDE DEF a, u
  <2>3. ScreenSound(a) /\ a.stray = t.stray /\ a.mode = t.mode
    <3>1. CASE a = u
      BY <2>1, <3>1
    <3>2. CASE a = screen_txt_set_cursor(u, 0, u.row)
      <4>1. 0 \in Nat /\ u.row \in Nat /\ DOMAIN u = ScreenFields /\ TextSound(u)
        BY <2>1 DEF ScreenSound, AtCursor, Rows, TextSound, OnMemory
      <4>2. ScreenSound(a) /\ SameLcd(u, a)
        BY <3>2, <4>1, SetCursorIs, SetCursorSound
      <4>3. QED BY <2>1, <4>2 DEF SameLcd, SameText
    <3>3. QED BY <2>2, <3>1, <3>2
  <2>4. ScreenSound(w) /\ w.stray = t.stray /\ w.mode = t.mode
    BY <1>1, <1>3, <2>3, WrittenToSound
  <2>5. QED BY <2>4, SoundSettled
<1>4. QED BY <1>2, <1>3

\* One cell of the LCD.
LEMMA PutcIs ==
  ASSUME NEW t, OnMemory(t), NEW column, NEW y \in Rows, NEW c, NEW u, u = lcd_putc_attr(t, column, y, c)
  PROVE  /\ OnMemory(u) /\ SameText(t, u) /\ SameCursor(t, u)
         /\ \A z \in Rows : View(u)[z] = IF z = y THEN [View(t)[y] EXCEPT ![column] = c]
                                         ELSE View(t)[z]
<1> DEFINE m == lcd_scroll_map_row(t, y)
           lcd == [t.lcd EXCEPT ![m] = [t.lcd[m] EXCEPT ![column] = c]]
<1>1. y \in Frame /\ m \in Frame
  BY MapIn, ScreenSizes DEF Rows, Frame
<1>2. u = [t EXCEPT !.lcd = lcd, !.under = @ \ {<<m, column>>}]
  BY DEF lcd_putc_attr, OnMemory, ScreenFields, BootScreen
<1> HIDE DEF m, lcd
<1>3. u.lcd = lcd /\ SameText(t, u) /\ SameCursor(t, u) /\ u.offset = t.offset
  BY <1>2 DEF SameText, SameCursor, OnMemory, ScreenFields, BootScreen
<1>4. DOMAIN lcd = Frame
  BY DEF lcd, OnMemory
<1>5. OnMemory(u)
  BY <1>3, <1>4 DEF OnMemory, SameText
<1>6. ASSUME NEW z \in Rows
      PROVE  View(u)[z] = IF z = y THEN [View(t)[y] EXCEPT ![column] = c] ELSE View(t)[z]
  <2>1. z \in Frame
    BY ScreenSizes DEF Rows, Frame
  <2>2. lcd_scroll_map_row(u, z) = lcd_scroll_map_row(t, z) /\ lcd_scroll_map_row(t, z) \in Frame
    BY <1>3, <2>1, MapIn DEF lcd_scroll_map_row, SameText
  <2>3. View(u)[z] = lcd[lcd_scroll_map_row(t, z)] /\ View(t)[z] = t.lcd[lcd_scroll_map_row(t, z)]
        /\ View(t)[y] = t.lcd[m]
    BY <1>3, <2>2 DEF View, Shown, m
  <2>4. CASE z = y
    BY <1>1, <2>3, <2>4 DEF lcd, m, OnMemory
  <2>5. CASE z # y
    <3>1. lcd_scroll_map_row(t, z) # m
      BY <1>1, <2>1, <2>5, MapApart DEF m
    <3>2. QED BY <2>2, <2>3, <2>5, <3>1 DEF lcd, OnMemory
  <2>6. QED BY <2>4, <2>5
<1>7. QED BY <1>3, <1>5, <1>6

LEMMA WriteSound ==
  ASSUME NEW t, ScreenSound(t), NEW c \in Cells, NEW u, u = Write(t, c)
  PROVE  /\ ScreenSound(u) /\ SameCursor(t, u) /\ u.mode = t.mode /\ u.text_row = t.text_row
         /\ u.stray = t.stray
<1> DEFINE put == [t EXCEPT !.buf[t.row][t.column] = c, !.dirty = @ \cup {t.row}]
           buf == [t.buf EXCEPT ![t.row] = [t.buf[t.row] EXCEPT ![t.column] = c]]
           start == WindowStart(t)
<1>1. /\ t.row \in Rows /\ t.column \in Columns /\ t.buf \in [Rows -> TextLines]
      /\ t.text_row \in Rows /\ t.dirty \in SUBSET Rows /\ DOMAIN t = ScreenFields
  BY DEF ScreenSound, TextSound, TextTyped, AtCursor, OnMemory
<1>2. buf \in [Rows -> TextLines]
  <2>1. [t.buf[t.row] EXCEPT ![t.column] = c] \in TextLines
    BY <1>1 DEF TextLines
  <2>2. QED BY <1>1, <2>1
<1>3. /\ buf[t.row][t.column] = c
      /\ \A r \in Rows, d \in Columns : r # t.row \/ d # t.column => buf[r][d] = t.buf[r][d]
      /\ \A r \in Rows : r # t.row => buf[r] = t.buf[r]
  BY <1>1 DEF TextLines
<1>4. /\ DOMAIN put = ScreenFields /\ put.buf = buf /\ put.dirty = t.dirty \cup {t.row}
      /\ put.mode = t.mode /\ put.top = t.top /\ put.stray = t.stray /\ put.lcd = t.lcd
      /\ put.offset = t.offset /\ put.text_row = t.text_row /\ SameCursor(t, put)
  BY <1>1 DEF SameCursor, ScreenFields, BootScreen
<1>5. u = IF Displayed(t, t.row) THEN lcd_putc_attr(put, t.column, LineOf(t, t.row), c) ELSE put
  BY DEF Write
<1>12. buf[t.row] = [t.buf[t.row] EXCEPT ![t.column] = c]
  BY <1>1
<1> HIDE DEF put, buf
<1>6. OnMemory(put) /\ TextTyped(put) /\ View(put) = View(t) /\ WindowStart(put) = start
  <2>1. OnMemory(put) /\ TextTyped(put)
    BY <1>1, <1>2, <1>4 DEF ScreenSound, TextSound, OnMemory, TextTyped
  <2>2. View(put) = View(t)
    BY <1>4 DEF View, Shown, lcd_scroll_map_row
  <2>3. QED BY <1>4, <2>1, <2>2 DEF WindowStart
<1>7. start \in Nat /\ t.text_row \in Window(start) /\ Window(start) \subseteq Rows
  BY <1>1, WindowIs
<1>8. FacesOf(t, t.stray)
  BY DEF ScreenSound, TextSound
<1> HIDE DEF start
\* It is enough to look at the Faces.
<1>9. ASSUME OnMemory(u), SameText(put, u), SameCursor(put, u),
             Faces(t.mode, View(u), buf, t.dirty \cup {t.row}, start, t.stray)
      PROVE  /\ ScreenSound(u) /\ SameCursor(t, u) /\ u.mode = t.mode /\ u.text_row = t.text_row
             /\ u.stray = t.stray
  <2>1. TextTyped(u)
    BY <1>6, <1>9 DEF TextTyped, SameText
  <2>2. WindowStart(u) = start
    BY <1>6, <1>9 DEF WindowStart, SameText
  <2>3. FacesOf(u, u.stray)
    BY <1>4, <1>9, <2>2 DEF FacesOf, SameText
  <2>4. AtCursor(u)
    BY <1>1, <1>4, <1>9 DEF AtCursor, SameCursor
  <2>5. QED BY <1>4, <1>9, <2>1, <2>3, <2>4 DEF ScreenSound, TextSound, SameText, SameCursor
<1>10. CASE Displayed(t, t.row)
  <2> DEFINE y == LineOf(t, t.row)
  <2>1. y \in Rows /\ (t.mode = "SPLIT" => y = LineIn(start, t.row) /\ t.row \in Window(start))
    <3>1. CASE t.mode = "SPLIT"
      <4>1. t.row \in Window(start) /\ y = LineIn(start, t.row)
        BY <1>10, <3>1 DEF Displayed, InWindow, Window, LineOf, LineIn, start
      <4>2. QED BY <1>7, <4>1, LineInIs
    <3>2. CASE t.mode # "SPLIT"
      BY <1>1, <3>2 DEF LineOf
    <3>3. QED BY <3>1, <3>2
  <2> HIDE DEF y
  <2>2. /\ OnMemory(u) /\ SameText(put, u) /\ SameCursor(put, u)
        /\ \A z \in Rows : View(u)[z] = IF z = y THEN [View(t)[y] EXCEPT ![t.column] = c]
                                         ELSE View(t)[z]
    <3>1. u = lcd_putc_attr(put, t.column, y, c)
      BY <1>5, <1>10 DEF y
    <3>2. /\ OnMemory(u) /\ SameText(put, u) /\ SameCursor(put, u)
          /\ \A z \in Rows : View(u)[z] = IF z = y THEN [View(put)[y] EXCEPT ![t.column] = c]
                                           ELSE View(put)[z]
      <4>1. PICK k : k = t.column
        OBVIOUS
      <4>2. u = lcd_putc_attr(put, k, y, c)
        BY <3>1, <4>1
      <4>3. QED BY <1>6, <2>1, <4>1, <4>2, PutcIs
    <3>3. QED BY <1>6, <3>2
  <2>3. CASE t.mode = "TXT"
    <3>1. y = t.row
      BY <2>3 DEF y, LineOf
    <3>2. ASSUME NEW r \in Rows PROVE View(u)[r] = buf[r]
      <4>1. View(t)[r] = t.buf[r]
        BY <1>8, <2>3 DEF FacesOf, Faces
      <4>2. View(u)[r] = IF r = t.row THEN [View(t)[r] EXCEPT ![t.column] = c] ELSE View(t)[r]
        BY <2>2, <3>1
      <4>3. QED BY <1>3, <1>12, <4>1, <4>2
    <3>3. QED BY <1>9, <2>2, <2>3, <3>2 DEF Faces
  <2>4. CASE t.mode = "SPLIT"
    <3>1. UnderPicture(View(t)) /\ ~(y < SCREEN_SPLIT_TXT_ROW)
      BY <1>7, <1>8, <2>1, <2>4, LineInIs DEF FacesOf, Faces
    <3>2. UnderPicture(View(u))
      <4>1. View(t)[y] \in TextLines
        BY <2>1, <3>1 DEF UnderPicture
      <4>2. [View(t)[y] EXCEPT ![t.column] = c] \in TextLines
        BY <4>1 DEF TextLines
      <4>3. QED BY <2>1, <2>2, <3>1, <4>2 DEF UnderPicture
    <3>3. ASSUME ~t.stray PROVE Agrees(View(u), buf, t.dirty \cup {t.row}, start)
      <4>1. Agrees(View(t), t.buf, t.dirty, start)
        BY <1>8, <2>4, <3>3 DEF FacesOf, Faces, start
      <4>2. ASSUME NEW r \in Window(start), NEW d \in Columns
            PROVE  \/ View(u)[LineIn(start, r)][d] = buf[r][d]
                   \/ View(u)[LineIn(start, r)][d] = Blank /\ r \in t.dirty \cup {t.row}
        <5>1. LineIn(start, r) \in Rows /\ r \in Rows
          BY <1>7, LineInIs
        <5>2. \/ View(t)[LineIn(start, r)][d] = t.buf[r][d]
              \/ View(t)[LineIn(start, r)][d] = Blank /\ r \in t.dirty
          BY <4>1 DEF Agrees
        <5>3. CASE r = t.row
          <6>1. View(u)[LineIn(start, r)] = [View(t)[y] EXCEPT ![t.column] = c] /\ y = LineIn(start, r)
            BY <2>1, <2>2, <2>4, <5>1, <5>3
          <6>2. View(t)[y] \in TextLines
            BY <2>1, <3>1 DEF UnderPicture
          <6>3. [View(t)[y] EXCEPT ![t.column] = c][d] = IF d = t.column THEN c ELSE View(t)[y][d]
            BY <6>2 DEF TextLines
          <6>4. QED BY <1>3, <5>1, <5>2, <5>3, <6>1, <6>3
        <5>4. CASE r # t.row
          <6>1. LineIn(start, r) # y
            BY <1>7, <2>1, <2>4, <5>1, <5>4, ScreenSizes DEF LineIn, Rows, SCREEN_SPLIT_TXT_ROW
          <6>2. QED BY <1>3, <2>2, <5>1, <5>2, <5>4, <6>1
        <5>5. QED BY <5>3, <5>4
      <4>3. QED BY <4>1, <4>2 DEF Agrees
    <3>4. QED BY <1>9, <2>2, <2>4, <3>2, <3>3 DEF Faces
  <2>5. QED BY <1>10, <2>3, <2>4 DEF Displayed
<1>11. CASE ~Displayed(t, t.row)
  <2>1. u = put /\ OnMemory(u) /\ SameText(put, u) /\ SameCursor(put, u) /\ View(u) = View(t)
    BY <1>4, <1>5, <1>6, <1>11 DEF SameText, SameCursor
  <2>2. CASE t.mode = "SPLIT"
    <3>1. t.row \notin Window(start)
      BY <1>11, <2>2 DEF Displayed, InWindow, Window, start
    <3>2. ASSUME ~t.stray PROVE Agrees(View(t), buf, t.dirty \cup {t.row}, start)
      <4>1. Agrees(View(t), t.buf, t.dirty, start)
        BY <1>8, <2>2, <3>2 DEF FacesOf, Faces, start
      <4>2. \A r \in Window(start) : buf[r] = t.buf[r]
        BY <1>3, <1>7, <3>1
      <4>3. QED BY <4>1, <4>2 DEF Agrees
    <3>3. QED BY <1>8, <1>9, <2>1, <2>2, <3>2 DEF Faces, FacesOf
  <2>3. CASE t.mode # "SPLIT"
    <3>1. t.mode # "TXT"
      BY <1>11 DEF Displayed
    <3>2. QED BY <1>8, <1>9, <2>1, <2>3, <3>1 DEF Faces, FacesOf
  <2>4. QED BY <2>2, <2>3
<1>13. QED BY <1>10, <1>11

LEMMA BackspaceSound ==
  ASSUME NEW t, ScreenSound(t), NEW u, u = Backspace(t)
  PROVE  ScreenSound(u) /\ u.stray = t.stray /\ u.mode = t.mode
<1>1. CASE t.column = 0 /\ t.row = 0
  BY <1>1 DEF Backspace
<1>2. CASE ~(t.column = 0 /\ t.row = 0)
  <2> DEFINE b == CellBefore(t)
             w == Write(b, Blank)
  <2>1. u = Erase(b)
    BY <1>2 DEF Backspace
  <2>2. SameLcd(t, b) /\ AtCursor(b)
    <3>1. /\ DOMAIN t = ScreenFields /\ t.column \in Columns /\ t.row \in Rows
      BY DEF ScreenSound, AtCursor, TextSound, OnMemory
    <3>2. CASE t.column > 0
      <4>1. b.column = t.column - 1 /\ b.row = t.row /\ SameLcd(t, b)
        BY <3>1, <3>2 DEF CellBefore, SameLcd, SameText, ScreenFields, BootScreen
      <4>2. QED BY <3>1, <3>2, <4>1, ScreenSizes DEF AtCursor, Columns, MAX_COLUMN
    <3>3. CASE ~(t.column > 0)
      <4>1. b.column = MAX_COLUMN /\ b.row = t.row - 1 /\ SameLcd(t, b)
        BY <3>1, <3>3 DEF CellBefore, SameLcd, SameText, ScreenFields, BootScreen
      <4>2. t.row > 0
        BY <1>2, <3>1, <3>3, ScreenSizes DEF Columns, MAX_COLUMN, Rows
      <4>3. QED BY <3>1, <4>1, <4>2, ScreenSizes DEF AtCursor, Columns, MAX_COLUMN, Rows
    <3>4. QED BY <3>2, <3>3
  <2>3. ScreenSound(b) /\ b.stray = t.stray /\ b.mode = t.mode
    BY <2>2, SameLcdSound DEF ScreenSound, SameLcd, SameText
  <2> HIDE DEF b
  <2>4. ScreenSound(w) /\ w.stray = t.stray /\ w.mode = t.mode
    BY <2>3, WriteSound, Letters
  <2>5. u = w \/ u = ToCursor(w)
    BY <2>1 DEF Erase
  <2> HIDE DEF w
  <2>6. CASE u = ToCursor(w)
    <3>1. ScreenSound(u) /\ SameLcd(w, u)
      BY <2>4, <2>6, CursorSound
    <3>2. QED BY <2>4, <3>1 DEF SameLcd, SameText
  <2>7. QED BY <2>4, <2>5, <2>6
<1>3. QED BY <1>1, <1>2

\* Past the end of a row the next one.
LEMMA AdvanceSettled ==
  ASSUME NEW t, ScreenSound(t), NEW w, w = Advance(t)
  PROVE  Settled(t, w)
<1>0. t.column \in Columns /\ t.row \in Rows /\ DOMAIN t = ScreenFields
  BY DEF ScreenSound, AtCursor, TextSound, OnMemory
<1>1. CASE t.column # MAX_COLUMN
  <2>1. SameLcd(t, w) /\ w.column = t.column + 1 /\ w.row = t.row
    BY <1>0, <1>1 DEF Advance, SameLcd, SameText, ScreenFields, BootScreen
  <2>2. AtCursor(w)
    BY <1>0, <1>1, <2>1, ScreenSizes DEF AtCursor, Columns, MAX_COLUMN
  <2>3. ScreenSound(w) /\ w.stray = t.stray /\ w.mode = t.mode
    BY <2>1, <2>2, SameLcdSound DEF ScreenSound, SameLcd, SameText
  <2>4. QED BY <2>3, SoundSettled
<1>2. CASE t.column = MAX_COLUMN
  <2> DEFINE u == LineBelow(t)
             v == IF u.mode = "SPLIT" THEN WrittenTo(u) ELSE u
  <2>1. w = screen_txt_set_cursor(v, 0, v.row)
    BY <1>2 DEF Advance, Wrap, ToStart
  <2>2. CASE t.mode = "SPLIT"
    <3>1. u.row \in Rows /\ u.column = 0 /\ DOMAIN u = ScreenFields /\ u.mode = "SPLIT"
      BY <2>2, BelowIs
    <3>2. v = WrittenTo(u) /\ Follows(u, v) /\ v.row = u.row
      BY <3>1 DEF Follows, WrittenTo, ScreenFields, BootScreen
    <3> HIDE DEF u, v
    <3>3. SameLcd(v, w) /\ w.row = v.row /\ w.column = 0
      <4>1. 0 \in Nat /\ v.row \in Nat /\ 0 \in Columns /\ v.row \in Rows /\ DOMAIN v = ScreenFields
        BY <3>1, <3>2, Letters DEF Rows, Follows
      <4>2. QED BY <2>1, <4>1, SetCursorIs
    <3>4. Follows(u, w)
      BY <3>2, <3>3 DEF Follows, SameLcd, SameText
    <3>5. OnMemory(w) /\ TextTyped(w) /\ FacesOf(w, Moves(t, w)) /\ w.stray = t.stray
      BY <2>2, <3>4, LineBelowSplit DEF u
    <3>6. AtCursor(w) /\ w.mode = t.mode
      BY <2>2, <3>1, <3>2, <3>3, <3>4, Letters DEF AtCursor, Follows
    <3>7. QED BY <3>5, <3>6 DEF Settled
  <2>3. CASE t.mode # "SPLIT"
    <3>1. ScreenSound(u) /\ u.stray = t.stray /\ u.mode = t.mode
      BY <2>3, LineBelowText
    <3>2. v = u
      BY <2>3, <3>1
    <3> HIDE DEF u, v
    <3>3. 0 \in Nat /\ v.row \in Nat /\ DOMAIN v = ScreenFields /\ TextSound(v)
      BY <3>1, <3>2 DEF ScreenSound, AtCursor, Rows, TextSound, OnMemory
    <3>4. ScreenSound(w) /\ SameLcd(v, w)
      BY <2>1, <3>3, SetCursorIs, SetCursorSound
    <3>5. w.stray = t.stray /\ w.mode = t.mode
      BY <3>1, <3>2, <3>4 DEF SameLcd, SameText
    <3>6. QED BY <3>4, <3>5, SoundSettled
  <2>4. QED BY <2>2, <2>3
<1>3. QED BY <1>1, <1>2

Characters == Cells \cup {"newline", "backspace"}

\* A character written, a newline or a backspace: the screen stays sound, in whatever
\* mode and wherever the window and the memory of the LCD have got to.
LEMMA PutcSound ==
  ASSUME NEW t, ScreenSound(t), NEW c \in Characters
  PROVE  ScreenSound(screen_txt_putc(t, c))
<1> DEFINE b == [t EXCEPT !.scrolled = FALSE, !.slid = FALSE]
           w == Put(b, c)
           u == screen_txt_putc(t, c)
<1>1. SameLcd(t, b) /\ SameCursor(t, b)
  BY DEF SameLcd, SameText, SameCursor, ScreenSound, TextSound, OnMemory, ScreenFields, BootScreen
<1>2. ScreenSound(b) /\ b.stray = t.stray /\ b.mode = t.mode /\ WindowStart(b) = WindowStart(t)
  <2> HIDE DEF b
  <2>1. TextSound(b)
    BY <1>1, SameLcdSound DEF ScreenSound
  <2>2. QED BY <1>1, <2>1 DEF ScreenSound, AtCursor, SameCursor, SameLcd, SameText, WindowStart
<1>3. u = Watched(t, w)
  BY DEF screen_txt_putc
<1> HIDE DEF b
<1>4. Settled(b, w)
  <2>1. CASE c = "newline"
    BY <1>2, <2>1, NewlineSettled DEF Put
  <2>2. CASE c = "backspace"
    <3>1. w = Backspace(b)
      BY <2>2 DEF Put
    <3>2. ScreenSound(w) /\ w.stray = b.stray /\ w.mode = b.mode
      BY <1>2, <3>1, BackspaceSound
    <3>3. QED BY <3>2, SoundSettled
  <2>3. CASE c \in Cells /\ c # "newline" /\ c # "backspace"
    <3> DEFINE p == Write(b, c)
               q == IF Displayed(b, b.row) THEN lcd_move_cursor(p, b.column + 1, LineOf(b, b.row)) ELSE p
    <3>1. w = Advance(q)
      BY <2>3 DEF Put, PutGlyph
    <3>2. /\ ScreenSound(p) /\ p.mode = b.mode /\ p.text_row = b.text_row /\ p.stray = b.stray
          /\ DOMAIN p = ScreenFields
      <4>1. ScreenSound(p) /\ p.mode = b.mode /\ p.text_row = b.text_row /\ p.stray = b.stray
        BY <1>2, <2>3, WriteSound
      <4>2. QED BY <4>1 DEF ScreenSound, TextSound, OnMemory
    <3> HIDE DEF p
    <3>3. SameLcd(p, q) /\ SameCursor(p, q)
      <4>1. CASE q = p
        BY <3>2, <4>1 DEF SameLcd, SameText, SameCursor
      <4>2. CASE q = lcd_move_cursor(p, b.column + 1, LineOf(b, b.row))
        BY <3>2, <4>2, MoveCursorIs
      <4>3. QED BY <4>1, <4>2
    <3> HIDE DEF q
    <3>4. ScreenSound(q) /\ q.mode = b.mode /\ q.stray = b.stray /\ WindowStart(q) = WindowStart(b)
      BY <3>2, <3>3, SameLcdSound
         DEF ScreenSound, AtCursor, SameCursor, SameLcd, SameText, WindowStart
    <3>5. Settled(q, w)
      BY <3>1, <3>4, AdvanceSettled
    <3>6. QED BY <3>4, <3>5 DEF Settled, Moves
  <2>4. QED BY <2>1, <2>2, <2>3 DEF Characters
<1> HIDE DEF w
<1>5. /\ DOMAIN u = ScreenFields /\ u.stray = Moves(b, w)
      /\ u.buf = w.buf /\ u.dirty = w.dirty /\ u.mode = w.mode /\ u.top = w.top /\ u.lcd = w.lcd
      /\ u.offset = w.offset /\ u.text_row = w.text_row /\ SameCursor(w, u)
  BY <1>2, <1>3, <1>4
     DEF Watched, Moves, Settled, OnMemory, TextTyped, SameCursor, ScreenFields, BootScreen
<1>6. Moves(b, w) \in BOOLEAN
  BY <1>2 DEF Moves, ScreenSound, TextSound, TextTyped
<1>7. OnMemory(u) /\ TextTyped(u) /\ AtCursor(u)
  BY <1>4, <1>5, <1>6 DEF Settled, OnMemory, TextTyped, AtCursor, SameCursor
<1>8. View(u) = View(w) /\ WindowStart(u) = WindowStart(w)
  BY <1>5 DEF View, Shown, lcd_scroll_map_row, WindowStart
<1>9. FacesOf(u, u.stray)
  BY <1>4, <1>5, <1>8 DEF Settled, FacesOf
<1>10. QED BY <1>7, <1>9 DEF ScreenSound, TextSound

-----------------------------------------------------------------------------
(* Writing a text.  A fold is defined by recursion on the set of the       *)
(* places that are left; that it exists, and that it keeps what each       *)
(* character keeps, follow by the least size of a set for which they would *)
(* fail.  The screen alone and a line being drawn are folded alike.        *)

StepOf(k, acc, c) == IF k = "screen" THEN screen_txt_putc(acc, c) ELSE PutTyped(acc, c)

DrawnFields == {"t", "start_row", "slid"}
DrawnKept(acc) == DOMAIN acc = DrawnFields /\ ScreenSound(acc.t) /\ acc.start_row \in Rows
Folded(k, acc) == IF k = "screen" THEN ScreenSound(acc) ELSE DrawnKept(acc)

FoldEq(k, base, text, D, it) ==
  it = [p \in D |-> IF p = {} THEN base ELSE StepOf(k, it[p \ {Max(p)}], text[Max(p)])]

Within(S, n) == {p \in SUBSET S : Cardinality(p) <= n}

LEMMA PutsIs ==
  ASSUME NEW t, NEW text
  PROVE  screen_txt_puts(t, text)
           = (CHOOSE it : FoldEq("screen", t, text, SUBSET DOMAIN text, it))[DOMAIN text]
  BY Zenon DEF screen_txt_puts, FoldLeft, MapThenFoldSet, FoldEq, StepOf

LEMMA WrittenIs ==
  ASSUME NEW x, NEW text, NEW base,
         base = [t |-> screen_txt_set_cursor(x.t, x.l.start_col, x.l.start_row),
                 start_row |-> x.l.start_row, slid |-> x.l.slid]
  PROVE  Written(x, text)
           = (CHOOSE it : FoldEq("line", base, text, SUBSET DOMAIN text, it))[DOMAIN text]
  BY Zenon DEF Written, FoldLeft, MapThenFoldSet, FoldEq, StepOf

LEMMA MaxIn ==
  ASSUME NEW n \in Nat, NEW p \in SUBSET (1 .. n), p # {}
  PROVE  Max(p) \in p
<1> DEFINE S == {n - i : i \in p}
<1>1. S \in SUBSET Nat /\ S # {}
  <2>1. \A i \in p : n - i \in Nat
    OBVIOUS
  <2>2. PICK i \in p : TRUE
    OBVIOUS
  <2>3. n - i \in S
    OBVIOUS
  <2>4. QED BY <2>1, <2>3
<1> HIDE DEF S
<1>2. Least(S) \in S /\ \A k \in S : Least(S) <= k
  BY <1>1, LeastIs
<1>3. PICK i \in p : \A k \in S : n - i <= k
  BY <1>2 DEF S
<1>4. ASSUME NEW j \in p PROVE i >= j
  <2>1. n - j \in S
    BY DEF S
  <2>2. n - i <= n - j /\ i \in Nat /\ j \in Nat
    BY <1>3, <2>1
  <2>3. QED BY <2>2
<1>5. QED BY <1>4 DEF Max

LEMMA Places ==
  ASSUME NEW n \in Nat, NEW p \in SUBSET (1 .. n)
  PROVE  /\ IsFiniteSet(1 .. n) /\ IsFiniteSet(p) /\ Cardinality(p) \in Nat
         /\ p # {} => Cardinality(p \ {Max(p)}) = Cardinality(p) - 1
<1>1. IsFiniteSet(1 .. n)
  <2>1. 1 \in Int /\ n \in Int
    OBVIOUS
  <2>2. QED BY <2>1, FS_Interval, Zenon
<1>2. IsFiniteSet(p)
  BY <1>1, FS_Subset
<1>3. Cardinality(p) \in Nat
  BY <1>2, FS_CardinalityType
<1>4. p # {} => Cardinality(p \ {Max(p)}) = Cardinality(p) - 1
  BY <1>2, MaxIn, FS_RemoveElement
<1>5. QED BY <1>1, <1>2, <1>3, <1>4

LEMMA FoldExists ==
  ASSUME NEW k, NEW base, NEW text, NEW n \in Nat, DOMAIN text = 1 .. n
  PROVE  \E it : FoldEq(k, base, text, SUBSET DOMAIN text, it)
<1> DEFINE S == 1 .. n
           Good == {i \in Nat : \E it : FoldEq(k, base, text, Within(S, i), it)}
           Bad == Nat \ Good
<1>1. 0 \in Good
  <2> DEFINE it == [p \in Within(S, 0) |-> base]
  <2>1. \A p \in Within(S, 0) : p = {}
    <3>1. ASSUME NEW p \in Within(S, 0) PROVE p = {}
      <4>1. p \in SUBSET S /\ IsFiniteSet(p) /\ Cardinality(p) \in Nat /\ Cardinality(p) <= 0
        BY Places DEF Within
      <4>2. Cardinality(p) = 0
        BY <4>1
      <4>3. QED BY <4>1, <4>2, FS_EmptySet
    <3>2. QED BY <3>1
  <2>2. FoldEq(k, base, text, Within(S, 0), it)
    BY <2>1, Zenon DEF FoldEq
  <2>3. QED BY <2>2
<1>2. ASSUME NEW i \in Nat, i \in Good PROVE i + 1 \in Good
  <2>1. PICK it : FoldEq(k, base, text, Within(S, i), it)
    BY <1>2
  <2> DEFINE more == [p \in Within(S, i + 1) |->
                        IF p = {} THEN base ELSE StepOf(k, it[p \ {Max(p)}], text[Max(p)])]
  <2>2. ASSUME NEW p \in Within(S, i + 1), p # {}
        PROVE  p \ {Max(p)} \in Within(S, i)
    <3>1. /\ p \in SUBSET S /\ Cardinality(p) \in Nat /\ Cardinality(p) <= i + 1
          /\ Cardinality(p \ {Max(p)}) = Cardinality(p) - 1
      BY <2>2, Places DEF Within
    <3>2. Cardinality(p \ {Max(p)}) <= i
      BY <3>1
    <3>3. QED BY <3>1, <3>2 DEF Within
  <2>3. ASSUME NEW u \in Within(S, i) PROVE more[u] = it[u]
    <3>1. Cardinality(u) \in Nat /\ u \in SUBSET S /\ Cardinality(u) <= i
      BY Places DEF Within
    <3>2. u \in Within(S, i + 1)
      BY <3>1 DEF Within
    <3>3. it[u] = IF u = {} THEN base ELSE StepOf(k, it[u \ {Max(u)}], text[Max(u)])
      BY <2>1, Zenon DEF FoldEq
    <3>4. QED BY <3>2, <3>3, Zenon
  <2>4. \A p \in Within(S, i + 1) :
          (IF p = {} THEN base ELSE StepOf(k, it[p \ {Max(p)}], text[Max(p)]))
            = (IF p = {} THEN base ELSE StepOf(k, more[p \ {Max(p)}], text[Max(p)]))
    <3> HIDE DEF more
    <3>1. QED BY <2>2, <2>3
  <2>5. FoldEq(k, base, text, Within(S, i + 1), more)
    BY <2>4, Zenon DEF FoldEq
  <2>6. QED BY <2>5
<1>3. \A i \in Nat : i \in Good
  <2> HIDE DEF Good
  <2>1. ASSUME Bad # {} PROVE FALSE
    <3>1. PICK m \in Bad : \A y \in Bad : m <= y
      BY <2>1, LeastIs
    <3>2. m # 0 /\ m - 1 \in Nat /\ ~ (m <= m - 1)
      BY <1>1, <3>1
    <3>3. m - 1 \in Good /\ m - 1 + 1 = m
      BY <3>1, <3>2
    <3>4. QED BY <1>2, <3>1, <3>2, <3>3
  <2>2. QED BY <2>1
<1>4. S \in SUBSET (1 .. n) /\ Cardinality(S) \in Nat
  BY Places
<1>5. Within(S, Cardinality(S)) = SUBSET DOMAIN text
  <2>1. ASSUME NEW p \in SUBSET S PROVE Cardinality(p) <= Cardinality(S)
    BY Places, FS_Subset
  <2>2. QED BY <2>1 DEF Within
<1>6. QED BY <1>3, <1>4, <1>5

\* What every character keeps, the text keeps.
LEMMA FoldSound ==
  ASSUME NEW k, NEW base, NEW text \in Seq(Characters), Folded(k, base),
         \A acc, c : Folded(k, acc) /\ c \in Characters => Folded(k, StepOf(k, acc, c)),
         NEW it, it = (CHOOSE g : FoldEq(k, base, text, SUBSET DOMAIN text, g))
  PROVE  Folded(k, it[DOMAIN text])
<1>1. PICK n \in Nat : n = Len(text) /\ DOMAIN text = 1 .. n
  BY LenProperties
<1>2. FoldEq(k, base, text, SUBSET DOMAIN text, it)
  BY <1>1, FoldExists
<1> DEFINE Bad == {i \in Nat : \E p \in SUBSET (1 .. n) : Cardinality(p) = i /\ ~Folded(k, it[p])}
<1>3. ASSUME Bad # {} PROVE FALSE
  <2>1. Bad \in SUBSET Nat
    OBVIOUS
  <2>2. PICK m \in Bad : \A y \in Bad : m <= y
    <3> HIDE DEF Bad
    <3>1. QED BY <1>3, <2>1, LeastIs
  <2>3. PICK p \in SUBSET (1 .. n) : Cardinality(p) = m /\ ~Folded(k, it[p])
    BY <2>2
  <2>4. it[p] = IF p = {} THEN base ELSE StepOf(k, it[p \ {Max(p)}], text[Max(p)])
    BY <1>1, <1>2, Zenon DEF FoldEq
  <2>5. p # {}
    BY <2>3, <2>4
  <2> DEFINE q == p \ {Max(p)}
             c == text[Max(p)]
  <2>6. Max(p) \in p /\ Max(p) \in 1 .. n
    BY <2>5, MaxIn
  <2>7. c \in Characters
    BY <1>1, <2>6, ElementOfSeq
  <2>8. /\ q \in SUBSET (1 .. n) /\ Cardinality(q) = m - 1 /\ Cardinality(q) \in Nat
    BY <2>3, <2>5, Places
  <2>9. it[p] = StepOf(k, it[q], c)
    BY <2>4, <2>5
  <2> HIDE DEF q, c
  <2>10. ~Folded(k, it[q])
    BY <2>3, <2>7, <2>9
  <2>11. Cardinality(q) \in Bad
    BY <2>8, <2>10
  <2> HIDE DEF Bad
  <2>12. m <= Cardinality(q) /\ m \in Nat
    BY <2>1, <2>2, <2>11
  <2>13. QED BY <2>8, <2>12
<1>4. /\ 1 .. n \in SUBSET (1 .. n) /\ Cardinality(1 .. n) \in Nat
  BY Places
<1>5. QED BY <1>1, <1>3, <1>4

\* The screen alone.
LEMMA PutsSound ==
  ASSUME NEW t, ScreenSound(t), NEW text \in Seq(Characters)
  PROVE  ScreenSound(screen_txt_puts(t, text))
<1> DEFINE it == CHOOSE g : FoldEq("screen", t, text, SUBSET DOMAIN text, g)
<1>1. \A acc, c : Folded("screen", acc) /\ c \in Characters => Folded("screen", StepOf("screen", acc, c))
  BY PutcSound DEF Folded, StepOf
<1>2. Folded("screen", t)
  BY DEF Folded
<1>3. Folded("screen", it[DOMAIN text])
  <2>1. PICK g : g = it
    OBVIOUS
  <2> HIDE DEF it
  <2>2. g = CHOOSE h : FoldEq("screen", t, text, SUBSET DOMAIN text, h)
    BY <2>1 DEF it
  <2>3. Folded("screen", g[DOMAIN text])
    BY <1>1, <1>2, <2>2, FoldSound
  <2>4. QED BY <2>1, <2>3
<1>4. QED BY <1>3, PutsIs DEF Folded

\* A line being drawn: the screen, and the row that the line starts on.
LEMMA PutTypedKept ==
  ASSUME NEW p, DrawnKept(p), NEW c \in Characters
  PROVE  DrawnKept(PutTyped(p, c))
<1> DEFINE t == screen_txt_putc(p.t, c)
           q == PutTyped(p, c)
<1>1. ScreenSound(t)
  BY PutcSound DEF DrawnKept
<1>2. q = TookUp(p, t)
  BY DEF PutTyped
<1> HIDE DEF t
<1>3. DOMAIN q = DrawnFields /\ q.t = t
      /\ q.start_row = IF t.scrolled /\ p.start_row > 0 THEN p.start_row - 1 ELSE p.start_row
  BY <1>2 DEF TookUp, DrawnKept, DrawnFields
<1>4. p.start_row \in Rows
  BY DEF DrawnKept
<1>5. q.start_row \in Rows
  BY <1>3, <1>4, ScreenSizes DEF Rows
<1>6. QED BY <1>1, <1>3, <1>5 DEF DrawnKept

LEMMA WrittenKept ==
  ASSUME NEW x, ScreenSound(x.t), x.l.start_col \in Columns, x.l.start_row \in Rows,
         NEW text \in Seq(Characters)
  PROVE  DrawnKept(Written(x, text))
<1> DEFINE base == [t |-> screen_txt_set_cursor(x.t, x.l.start_col, x.l.start_row),
                    start_row |-> x.l.start_row, slid |-> x.l.slid]
           it == CHOOSE g : FoldEq("line", base, text, SUBSET DOMAIN text, g)
<1>1. \A acc, c : Folded("line", acc) /\ c \in Characters => Folded("line", StepOf("line", acc, c))
  BY PutTypedKept DEF Folded, StepOf
<1>2. Folded("line", base)
  <2>1. x.l.start_col \in Nat /\ x.l.start_row \in Nat
    BY DEF Columns, Rows
  <2>2. ScreenSound(screen_txt_set_cursor(x.t, x.l.start_col, x.l.start_row))
    BY <2>1, SetCursorSound DEF ScreenSound
  <2>3. QED BY <2>2 DEF Folded, DrawnKept, DrawnFields
<1>3. Folded("line", it[DOMAIN text]) /\ Written(x, text) = it[DOMAIN text]
  <2>1. PICK b : b = base
    OBVIOUS
  <2>2. PICK g : g = it
    OBVIOUS
  <2>3. g = CHOOSE h : FoldEq("line", b, text, SUBSET DOMAIN text, h)
    BY <2>1, <2>2
  <2> HIDE DEF it
  <2>4. Folded("line", b)
    BY <1>2, <2>1
  <2>5. Folded("line", g[DOMAIN text])
    BY <1>1, <2>3, <2>4, FoldSound
  <2>6. Written(x, text) = g[DOMAIN text]
    BY <2>1, <2>3, WrittenIs
  <2>7. QED BY <2>2, <2>5, <2>6
<1>4. QED BY <1>3 DEF Folded

-----------------------------------------------------------------------------
(* Rows redrawn.                                                           *)

RowAt(t, y) == IF t.mode = "SPLIT" THEN y - SCREEN_SPLIT_TXT_ROW + WindowStart(t) ELSE y
Due(t) == {r \in t.dirty : Displayed(t, r)}
DueLines(t) == {LineOf(t, r) : r \in Due(t)}

\* What the update leaves: the rows that were due are shown, and no longer dirty.
Updated(t, u) ==
  /\ OnMemory(u) /\ SameCursor(t, u)
  /\ u.buf = t.buf /\ u.text_row = t.text_row /\ u.dirty = t.dirty \ Due(t)
  /\ u.mode = t.mode /\ u.top = t.top /\ u.stray = t.stray
  /\ \A y \in Rows : View(u)[y] = IF y \in DueLines(t) THEN t.buf[RowAt(t, y)] ELSE View(t)[y]

LEMMA DueIs ==
  ASSUME NEW t, TextTyped(t)
  PROVE  DueLines(t) \in SUBSET Rows /\ DueLines(t) \in SUBSET Frame
<1>1. ASSUME NEW r \in Due(t) PROVE LineOf(t, r) \in Rows
  <2>1. r \in Rows /\ Displayed(t, r)
    BY DEF Due, TextTyped
  <2>2. CASE t.mode = "SPLIT"
    <3>1. r \in Window(WindowStart(t)) /\ LineOf(t, r) = LineIn(WindowStart(t), r)
      BY <2>1, <2>2 DEF Displayed, InWindow, Window, LineOf, LineIn
    <3>2. WindowStart(t) \in Int
      BY WindowIs DEF TextTyped
    <3>3. QED BY <3>1, <3>2, LineInIs
  <2>3. CASE t.mode # "SPLIT"
    BY <2>1, <2>3 DEF LineOf
  <2>4. QED BY <2>2, <2>3
<1>2. Rows \subseteq Frame
  BY ScreenSizes DEF Rows, Frame
<1>3. QED BY <1>1, <1>2 DEF DueLines

LEMMA UpdateIs ==
  ASSUME NEW t, OnMemory(t), TextTyped(t), NEW u, u = screen_txt_update(t)
  PROVE  Updated(t, u)
<1> DEFINE clean == [t EXCEPT !.dirty = @ \ Due(t)]
           ys == DueLines(t)
           line == [y \in ys |-> t.buf[RowAt(t, y)]]
           at == [y \in ys |-> lcd_scroll_map_row(clean, y)]
           lcd == [m \in DOMAIN clean.lcd |->
                     IF \E y \in ys : at[y] = m
                     THEN t.buf[RowAt(t, CHOOSE y \in ys : at[y] = m)] ELSE clean.lcd[m]]
           un == {w \in clean.under : \A y \in ys : at[y] # w[1]}
<1>1. u = [clean EXCEPT !.lcd = lcd, !.under = un]
  BY DEF screen_txt_update, LcdLines, Due, DueLines, RowAt
<1>2. /\ DOMAIN clean = ScreenFields /\ clean.dirty = t.dirty \ Due(t) /\ clean.lcd = t.lcd
      /\ clean.top = t.top /\ clean.offset = t.offset /\ clean.buf = t.buf
      /\ clean.text_row = t.text_row /\ clean.mode = t.mode /\ clean.stray = t.stray
      /\ SameCursor(t, clean)
  BY DEF OnMemory, SameCursor, ScreenFields, BootScreen
<1> HIDE DEF clean
<1>3. OnMemory(clean)
  BY <1>2 DEF OnMemory
<1>4. ys \in SUBSET Frame
  BY DueIs
<1> HIDE DEF ys
<1>5. lcd = Blitted(clean, ys, line)
  <2>1. ASSUME NEW m \in DOMAIN clean.lcd
        PROVE  lcd[m] = (IF \E y \in ys : lcd_scroll_map_row(clean, y) = m
                         THEN line[CHOOSE y \in ys : lcd_scroll_map_row(clean, y) = m]
                         ELSE clean.lcd[m])
    <3>0. \A y \in ys : at[y] = lcd_scroll_map_row(clean, y)
      OBVIOUS
    <3> HIDE DEF at
    <3>1. CASE \E y \in ys : lcd_scroll_map_row(clean, y) = m
      <4>1. \E y \in ys : at[y] = m
        BY <3>0, <3>1
      <4>2. PICK z \in ys : z = (CHOOSE y \in ys : lcd_scroll_map_row(clean, y) = m)
        BY <3>1
      <4>3. (CHOOSE y \in ys : at[y] = m) = z
        BY <3>0, <4>2
      <4>4. lcd[m] = t.buf[RowAt(t, z)]
        BY <4>1, <4>3
      <4>5. line[z] = t.buf[RowAt(t, z)]
        OBVIOUS
      <4>6. QED BY <3>1, <4>2, <4>4, <4>5
    <3>2. CASE ~ \E y \in ys : lcd_scroll_map_row(clean, y) = m
      BY <3>0, <3>2
    <3>3. QED BY <3>1, <3>2
  <2> HIDE DEF line
  <2>2. DOMAIN lcd = DOMAIN clean.lcd /\ lcd = [m \in DOMAIN lcd |-> lcd[m]]
    BY Zenon
  <2> HIDE DEF lcd
  <2>3. QED BY <2>1, <2>2, Zenon DEF Blitted
<1> HIDE DEF lcd, un, line
<1>6. /\ DOMAIN u = ScreenFields /\ u.lcd = lcd /\ SameText(clean, u) /\ SameCursor(clean, u)
      /\ u.offset = clean.offset
  BY <1>1, <1>2 DEF ScreenFields, BootScreen, SameText, SameCursor
<1>7. OnMemory(u)
  BY <1>3, <1>5, <1>6 DEF OnMemory, Blitted, SameText
<1>8. ASSUME NEW y \in Rows
      PROVE  View(u)[y] = IF y \in ys THEN t.buf[RowAt(t, y)] ELSE View(t)[y]
  <2>1. y \in Frame
    BY ScreenSizes DEF Rows, Frame
  <2>2. Shown(u, y) = IF y \in ys THEN line[y] ELSE Shown(clean, y)
    BY <1>3, <1>4, <1>5, <1>6, <1>7, <2>1, BlittedShown DEF SameText
  <2>3. Shown(clean, y) = Shown(t, y)
    BY <1>2 DEF Shown, lcd_scroll_map_row
  <2>4. QED BY <2>2, <2>3 DEF View, line
<1>9. QED BY <1>2, <1>6, <1>7, <1>8 DEF Updated, ys, SameText, SameCursor

\* What has to hold of the rows that are not redrawn.
Stale(t) ==
  /\ t.mode = "TXT" => \A r \in Rows \ t.dirty : View(t)[r] = t.buf[r]
  /\ t.mode = "GFX" => \A y \in Rows : View(t)[y] \in {Picture, BlankRow}
  /\ t.mode = "SPLIT" =>
       /\ \A y \in Rows : IF y < SCREEN_SPLIT_TXT_ROW THEN View(t)[y] = Picture
                          ELSE y \in DueLines(t) \/ View(t)[y] \in TextLines
       /\ ~t.stray =>
            /\ \A r \in Window(WindowStart(t)) \ t.dirty : \A c \in Columns :
                 View(t)[LineIn(WindowStart(t), r)][c] = t.buf[r][c]
            /\ \A r \in Rows : r >= WindowStart(t) + SCREEN_SPLIT_TXT_ROWS => r \in t.dirty

LEMMA UpdateSound ==
  ASSUME NEW t, OnMemory(t), TextTyped(t), AtCursor(t), Stale(t), NEW u, u = screen_txt_update(t)
  PROVE  ScreenSound(u) /\ u.stray = t.stray /\ u.mode = t.mode
<1> DEFINE start == WindowStart(t)
<1>1. Updated(t, u)
  BY UpdateIs
<1>2. TextTyped(u) /\ AtCursor(u) /\ OnMemory(u)
  BY <1>1 DEF Updated, TextTyped, AtCursor, SameCursor
<1>3. WindowStart(u) = start
  BY <1>1 DEF Updated, WindowStart
<1>4. /\ start \in Nat /\ Window(start) \subseteq Rows /\ t.buf \in [Rows -> TextLines]
      /\ t.dirty \in SUBSET Rows /\ SCREEN_SPLIT_TXT_ROW \in Nat
  BY WindowIs DEF TextTyped
<1> HIDE DEF start
<1>5. ASSUME t.mode = "TXT" PROVE \A r \in Rows : View(u)[r] = u.buf[r]
  <2>1. DueLines(t) = t.dirty /\ \A y : RowAt(t, y) = y
    BY <1>5 DEF DueLines, Due, Displayed, LineOf, RowAt
  <2>2. QED BY <1>1, <1>5, <2>1 DEF Updated, Stale
<1>6. ASSUME t.mode = "GFX" PROVE \A y \in Rows : View(u)[y] \in {Picture, BlankRow}
  <2>1. DueLines(t) = {}
    BY <1>6 DEF DueLines, Due, Displayed
  <2>2. QED BY <1>1, <1>6, <2>1 DEF Updated, Stale
<1>7. ASSUME t.mode = "SPLIT" PROVE UnderPicture(View(u)) /\ (~u.stray => Agrees(View(u), u.buf, u.dirty, start))
  <2>1. ASSUME NEW r \in Window(start)
        PROVE  /\ LineIn(start, r) \in Rows /\ ~(LineIn(start, r) < SCREEN_SPLIT_TXT_ROW)
               /\ LineOf(t, r) = LineIn(start, r) /\ Displayed(t, r) /\ RowAt(t, LineIn(start, r)) = r
    <3>1. LineIn(start, r) \in Rows /\ ~(LineIn(start, r) < SCREEN_SPLIT_TXT_ROW)
      BY <1>4, LineInIs
    <3>2. LineOf(t, r) = LineIn(start, r) /\ Displayed(t, r)
      BY <1>7 DEF LineOf, LineIn, Displayed, InWindow, Window, start
    <3>3. RowAt(t, LineIn(start, r)) = r
      <4>1. RowAt(t, LineIn(start, r)) = LineIn(start, r) - SCREEN_SPLIT_TXT_ROW + start
        BY <1>7 DEF RowAt, start
      <4>2. r \in Int
        BY <1>4 DEF Rows
      <4>3. QED BY <1>4, <4>1, <4>2 DEF LineIn
    <3>4. QED BY <3>1, <3>2, <3>3
  <2>2. ASSUME NEW r \in Rows, Displayed(t, r) PROVE r \in Window(start)
    BY <1>7, <2>2 DEF Displayed, InWindow, Window, start
  <2>3. ASSUME NEW y \in DueLines(t)
        PROVE  \E r \in Window(start) : r \in t.dirty /\ y = LineIn(start, r)
    <3>1. PICK r \in Due(t) : y = LineOf(t, r)
      BY DEF DueLines
    <3>2. r \in Window(start) /\ r \in t.dirty
      BY <1>4, <2>2 DEF Due
    <3>3. QED BY <2>1, <3>1, <3>2
  <2>4. ASSUME NEW y \in Rows
        PROVE  IF y < SCREEN_SPLIT_TXT_ROW THEN View(u)[y] = Picture ELSE View(u)[y] \in TextLines
    <3>1. CASE y \in DueLines(t)
      <4>1. PICK r \in Window(start) : r \in t.dirty /\ y = LineIn(start, r)
        BY <2>3, <3>1
      <4>2. ~(y < SCREEN_SPLIT_TXT_ROW) /\ View(u)[y] = t.buf[r] /\ r \in Rows
        BY <1>1, <1>4, <2>1, <3>1, <4>1 DEF Updated
      <4>3. QED BY <1>4, <4>2
    <3>2. CASE y \notin DueLines(t)
      BY <1>1, <1>7, <3>2 DEF Updated, Stale
    <3>3. QED BY <3>1, <3>2
  <2>5. ASSUME ~u.stray PROVE Agrees(View(u), u.buf, u.dirty, start)
    <3>1. ~t.stray /\ u.buf = t.buf /\ u.dirty = t.dirty \ Due(t)
      BY <1>1, <2>5 DEF Updated
    <3>2. ASSUME NEW r \in Window(start), NEW c \in Columns
          PROVE  View(u)[LineIn(start, r)][c] = t.buf[r][c]
      <4>1. CASE r \in t.dirty
        <5>1. LineIn(start, r) \in DueLines(t)
          BY <2>1, <4>1 DEF DueLines, Due
        <5>2. View(u)[LineIn(start, r)] = t.buf[r]
          BY <1>1, <2>1, <5>1 DEF Updated
        <5>3. QED BY <5>2
      <4>2. CASE r \notin t.dirty
        <5>1. LineIn(start, r) \notin DueLines(t)
          <6>1. ASSUME LineIn(start, r) \in DueLines(t) PROVE FALSE
            <7>1. PICK q \in Window(start) : q \in t.dirty /\ LineIn(start, r) = LineIn(start, q)
              BY <2>3, <6>1
            <7>2. r = q
              BY <2>1, <7>1
            <7>3. QED BY <4>2, <7>1, <7>2
          <6>2. QED BY <6>1
        <5>2. View(u)[LineIn(start, r)] = View(t)[LineIn(start, r)]
          BY <1>1, <2>1, <5>1 DEF Updated
        <5>3. View(t)[LineIn(start, r)][c] = t.buf[r][c]
          BY <1>7, <3>1, <4>2 DEF Stale, start
        <5>4. QED BY <5>2, <5>3
      <4>3. QED BY <4>1, <4>2
    <3>3. ASSUME NEW r \in Rows, r >= start + SCREEN_SPLIT_TXT_ROWS PROVE r \in u.dirty
      <4>1. r \in t.dirty
        BY <1>7, <3>1, <3>3 DEF Stale, start
      <4>2. r \notin Window(start)
        BY <1>4, <3>3, ScreenSizes DEF Window, Rows
      <4>3. QED BY <2>2, <3>1, <4>1, <4>2 DEF Due
    <3>4. QED BY <3>1, <3>2, <3>3 DEF Agrees
  <2>6. QED BY <2>4, <2>5 DEF UnderPicture
<1>8. FacesOf(u, u.stray)
  BY <1>1, <1>3, <1>5, <1>6, <1>7 DEF FacesOf, Faces, Updated
<1>9. QED BY <1>1, <1>2, <1>8 DEF ScreenSound, TextSound, Updated

\* A sound screen is flushed.
LEMMA FlushSound ==
  ASSUME NEW t, ScreenSound(t), NEW u, u = screen_txt_update(t)
  PROVE  ScreenSound(u)
<1>1. /\ OnMemory(t) /\ TextTyped(t) /\ AtCursor(t)
      /\ Faces(t.mode, View(t), t.buf, t.dirty, WindowStart(t), t.stray)
  BY DEF ScreenSound, TextSound, FacesOf
<1>2. Stale(t)
  BY <1>1 DEF Faces, Stale, UnderPicture, Agrees
<1>3. QED BY <1>1, <1>2, UpdateSound

\* A screen all of whose rows are dirty is drawn again.
LEMMA RedrawSound ==
  ASSUME NEW t, OnMemory(t), TextTyped(t), AtCursor(t), t.mode # "GFX",
         t.mode = "SPLIT" => \A y \in 0 .. SCREEN_SPLIT_TXT_ROW - 1 : View(t)[y] = Picture,
         NEW u, u = screen_txt_update(screen_txt_mark_all_dirty(t))
  PROVE  ScreenSound(u) /\ u.stray = t.stray /\ u.mode = t.mode
<1> DEFINE d == screen_txt_mark_all_dirty(t)
<1>1. /\ DOMAIN d = ScreenFields /\ d.buf = t.buf /\ d.text_row = t.text_row /\ d.mode = t.mode
      /\ d.top = t.top /\ d.stray = t.stray /\ d.lcd = t.lcd /\ d.offset = t.offset
      /\ d.dirty = Rows /\ SameCursor(t, d)
  BY DEF screen_txt_mark_all_dirty, SameCursor, OnMemory, ScreenFields, BootScreen
<1> HIDE DEF d
<1>2. OnMemory(d) /\ TextTyped(d) /\ AtCursor(d)
  BY <1>1 DEF OnMemory, TextTyped, AtCursor, SameCursor
<1>3. View(d) = View(t)
  BY <1>1 DEF View, Shown, lcd_scroll_map_row
<1>4. ASSUME d.mode = "SPLIT", NEW y \in Rows
      PROVE  IF y < SCREEN_SPLIT_TXT_ROW THEN View(d)[y] = Picture ELSE y \in DueLines(d)
  <2>1. CASE y < SCREEN_SPLIT_TXT_ROW
    <3>1. y \in 0 .. SCREEN_SPLIT_TXT_ROW - 1
      BY <2>1, ScreenSizes DEF Rows, SCREEN_SPLIT_TXT_ROW
    <3>2. QED BY <1>1, <1>3, <1>4, <2>1, <3>1
  <2>2. CASE ~(y < SCREEN_SPLIT_TXT_ROW)
    <3>1. PICK start \in Nat : /\ start = WindowStart(d) /\ Window(start) \subseteq Rows
      BY <1>2, WindowIs DEF TextTyped
    <3>2. PICK r \in Int : r = y - SCREEN_SPLIT_TXT_ROW + start
      BY ScreenSizes DEF Rows, SCREEN_SPLIT_TXT_ROW
    <3>3. r \in Window(start) /\ y = LineIn(start, r)
      BY <2>2, <3>2, ScreenSizes DEF Rows, SCREEN_SPLIT_TXT_ROW, Window, LineIn
    <3>4. r \in d.dirty /\ Displayed(d, r) /\ LineOf(d, r) = y
      BY <1>1, <1>4, <3>1, <3>3 DEF Displayed, InWindow, Window, LineOf, LineIn
    <3>5. QED BY <2>2, <3>4 DEF DueLines, Due
  <2>3. QED BY <2>1, <2>2
<1>5. Window(WindowStart(d)) \subseteq Rows
  BY <1>2, WindowIs DEF TextTyped
<1>6. Stale(d)
  BY <1>1, <1>4, <1>5 DEF Stale
<1>7. ScreenSound(u) /\ u.stray = d.stray /\ u.mode = d.mode
  BY <1>2, <1>6, UpdateSound DEF d
<1>8. QED BY <1>1, <1>7

-----------------------------------------------------------------------------
(* The screen cleared, and its modes.                                      *)

LEMMA ClearSound ==
  ASSUME NEW t, ScreenSound(t), NEW u, u = screen_txt_clear(t)
  PROVE  ScreenSound(u)
<1> DEFINE e == screen_txt_mark_all_dirty(
                  [t EXCEPT !.text_row = 0, !.buf = [r \in Rows |-> BlankRow], !.stray = FALSE])
           z == [e EXCEPT !.offset = 0]
           ys == IF t.mode = "SPLIT" THEN e.top .. FRAME_ROWS - 1 ELSE 0 .. FRAME_ROWS - 1
           w == PlainLines(z, ys, BlankRow)
<1>1. u = screen_txt_set_cursor(w, 0, 0)
  BY DEF screen_txt_clear, lcd_scroll_clear, lcd_clear_screen, PlainLines, LcdLines
<1>2. /\ DOMAIN e = ScreenFields /\ e.buf = [r \in Rows |-> BlankRow] /\ e.text_row = 0
      /\ e.dirty = Rows /\ e.mode = t.mode /\ e.top = t.top /\ e.stray = FALSE
      /\ e.lcd = t.lcd /\ e.offset = t.offset
  BY DEF screen_txt_mark_all_dirty, ScreenSound, TextSound, OnMemory, ScreenFields, BootScreen
<1> HIDE DEF e
<1>3. /\ DOMAIN z = ScreenFields /\ z.offset = 0 /\ z.lcd = t.lcd /\ SameText(e, z)
  BY <1>2 DEF SameText, ScreenFields, BootScreen
<1> HIDE DEF z
<1>4. /\ OnMemory(t) /\ TextTyped(t) /\ FacesOf(t, t.stray)
  BY DEF ScreenSound, TextSound
<1>5. OnMemory(z) /\ TextTyped(z) /\ WindowStart(z) = 0 /\ 0 \in Rows
  <2>1. 0 \in Rows /\ [r \in Rows |-> BlankRow] \in [Rows -> TextLines]
    BY ScreenSizes, Letters DEF Rows
  <2>2. OnMemory(z)
    BY <1>2, <1>3, <1>4, ScreenSizes DEF OnMemory, SameText
  <2>3. TextTyped(z)
    BY <1>2, <1>3, <1>4, <2>1 DEF TextTyped, SameText
  <2>4. WindowStart(z) = 0
    BY <1>2, <1>3, ScreenSizes DEF WindowStart, SameText
  <2>5. QED BY <2>1, <2>2, <2>3, <2>4
<1>6. ys \in SUBSET Frame
  BY <1>2, <1>4 DEF Frame, OnMemory
<1>7. /\ OnMemory(w) /\ SameText(z, w)
      /\ \A y \in Frame : Shown(w, y) = IF y \in ys THEN BlankRow ELSE Shown(z, y)
  <2>1. PICK v : v = BlankRow
    OBVIOUS
  <2>2. w = PlainLines(z, ys, v)
    BY <2>1
  <2> HIDE DEF w, ys
  <2>3. QED BY <1>5, <1>6, <2>1, <2>2, PlainLinesIs
<1> HIDE DEF w
<1>8. ASSUME NEW y \in Rows
      PROVE  View(w)[y] = IF y \in ys THEN BlankRow ELSE View(t)[y]
  <2>1. y \in Frame /\ View(w)[y] = IF y \in ys THEN BlankRow ELSE Shown(z, y)
    <3>1. y \in Frame
      BY ScreenSizes DEF Rows, Frame
    <3>2. QED BY <1>7, <3>1 DEF View
  <2>2. ASSUME y \notin ys PROVE Shown(z, y) = View(t)[y]
    <3>1. t.top = z.top /\ y < t.top
      BY <1>2, <1>3, <1>4, <2>1, <2>2, ScreenSizes DEF Frame, SameText, OnMemory
    <3>2. QED BY <1>3, <3>1 DEF Shown, lcd_scroll_map_row, View
  <2>3. QED BY <2>1, <2>2
<1>9. TextTyped(w) /\ WindowStart(w) = 0 /\ w.mode = t.mode /\ w.stray = FALSE
      /\ w.buf = [r \in Rows |-> BlankRow] /\ w.dirty = Rows
  BY <1>2, <1>3, <1>5, <1>7 DEF TextTyped, WindowStart, SameText
<1>10. CASE t.mode = "SPLIT"
  <2>1. \A y \in Rows : y \in ys <=> ~(y < SCREEN_SPLIT_TXT_ROW)
    <3>1. e.top = SCREEN_SPLIT_TXT_ROW /\ SCREEN_SPLIT_TXT_ROW \in Nat
      BY <1>2, <1>4, <1>10, ScreenSizes DEF TextTyped, SCREEN_SPLIT_TXT_ROW
    <3>2. QED BY <1>10, <3>1, ScreenSizes DEF Rows
  <2> HIDE DEF ys
  <2>2. UnderPicture(View(w))
    <3>1. UnderPicture(View(t))
      BY <1>4, <1>10 DEF FacesOf, Faces
    <3>2. QED BY <1>8, <2>1, <3>1, Letters DEF UnderPicture
  <2>3. Agrees(View(w), w.buf, w.dirty, 0)
    <3>1. ASSUME NEW r \in Window(0), NEW c \in Columns
          PROVE  View(w)[LineIn(0, r)][c] = w.buf[r][c]
      <4>1. LineIn(0, r) \in Rows /\ ~(LineIn(0, r) < SCREEN_SPLIT_TXT_ROW)
        BY LineInIs
      <4>2. View(w)[LineIn(0, r)] = BlankRow
        BY <1>8, <2>1, <4>1
      <4>3. r \in Rows
        BY ScreenSizes DEF Window, Rows
      <4>4. QED BY <1>9, <4>2, <4>3
    <3>2. QED BY <1>9, <3>1 DEF Agrees
  <2>4. FacesOf(w, w.stray)
    BY <1>9, <1>10, <2>2, <2>3 DEF FacesOf, Faces
  <2>5. QED BY <1>1, <1>7, <1>9, <2>4, SetCursorSound DEF TextSound
<1>11. CASE t.mode # "SPLIT"
  <2>1. \A y \in Rows : y \in ys
    BY <1>11, ScreenSizes DEF Rows
  <2> HIDE DEF ys
  <2>2. FacesOf(w, w.stray)
    BY <1>8, <1>9, <1>11, <2>1 DEF FacesOf, Faces
  <2>3. QED BY <1>1, <1>7, <1>9, <2>2, SetCursorSound DEF TextSound
<1>12. QED BY <1>10, <1>11

\* The memory of the LCD defined anew for a mode.
InMode(t, mode) == [t EXCEPT !.mode = mode, !.stray = FALSE]
Redefined(e, mode) == lcd_define_scrolling(e, IF mode = "SPLIT" THEN SCREEN_SPLIT_TXT_ROW ELSE 0)

LEMMA ModeDefined ==
  ASSUME NEW t, ScreenSound(t), NEW mode \in {"TXT", "SPLIT", "GFX"},
         NEW e, e = InMode(t, mode) \/ e = lcd_erase_cursor(InMode(t, mode)),
         NEW d, d = Redefined(e, mode)
  PROVE  OnMemory(d) /\ TextTyped(d) /\ AtCursor(d) /\ d.mode = mode /\ d.stray = FALSE
<1>0. PICK x : x = InMode(t, mode)
  OBVIOUS
<1>1. OnMemory(t) /\ TextTyped(t) /\ AtCursor(t)
  BY DEF ScreenSound, TextSound
<1>2. /\ DOMAIN x = ScreenFields /\ x.buf = t.buf /\ x.text_row = t.text_row /\ x.dirty = t.dirty
      /\ x.mode = mode /\ x.stray = FALSE /\ x.lcd = t.lcd /\ SameCursor(t, x)
  BY <1>1, <1>0 DEF InMode, OnMemory, SameCursor, ScreenFields, BootScreen
<1>3. /\ DOMAIN e = ScreenFields /\ e.buf = t.buf /\ e.text_row = t.text_row /\ e.dirty = t.dirty
      /\ e.mode = mode /\ e.stray = FALSE /\ e.lcd = t.lcd /\ SameCursor(t, e)
  BY <1>2, <1>0 DEF lcd_erase_cursor, SameCursor, ScreenFields, BootScreen
<1>4. /\ DOMAIN d = ScreenFields /\ d.buf = t.buf /\ d.text_row = t.text_row /\ d.dirty = t.dirty
      /\ d.mode = mode /\ d.stray = FALSE /\ d.lcd = t.lcd /\ SameCursor(t, d) /\ d.offset = 0
      /\ d.top = IF mode = "SPLIT" THEN SCREEN_SPLIT_TXT_ROW ELSE 0
  BY <1>3 DEF Redefined, lcd_define_scrolling, SameCursor, ScreenFields, BootScreen
<1>5. d.top \in Nat /\ d.top < SCREEN_ROWS /\ 0 \in 0 .. FRAME_ROWS - d.top - 1
  BY <1>4, ScreenSizes DEF SCREEN_SPLIT_TXT_ROW
<1>6. QED BY <1>1, <1>4, <1>5 DEF OnMemory, TextTyped, AtCursor, SameCursor

LEMMA PictureShown ==
  ASSUME NEW t, OnMemory(t), TextTyped(t), AtCursor(t), NEW n \in 0 .. SCREEN_ROWS,
         NEW u, u = ShowPicture(t, n)
  PROVE  /\ OnMemory(u) /\ TextTyped(u) /\ AtCursor(u) /\ u.mode = t.mode /\ u.stray = t.stray
         /\ \A y \in 0 .. n - 1 : View(u)[y] = Picture
<1> DEFINE ys == 0 .. n - 1
<1>1. u = PlainLines(t, ys, Picture)
  BY DEF ShowPicture, PlainLines, LcdLines
<1>2. ys \in SUBSET Frame /\ ys \in SUBSET Rows
  BY ScreenSizes DEF Frame, Rows
<1>3. /\ OnMemory(u) /\ SameText(t, u) /\ SameCursor(t, u)
      /\ \A y \in Frame : Shown(u, y) = IF y \in ys THEN Picture ELSE Shown(t, y)
  BY <1>1, <1>2, PlainLinesIs
<1>4. \A y \in ys : View(u)[y] = Picture
  BY <1>2, <1>3 DEF View
<1>5. QED BY <1>3, <1>4 DEF TextTyped, AtCursor, SameText, SameCursor

LEMMA SetModeSound ==
  ASSUME NEW t, ScreenSound(t), NEW mode \in {"TXT", "SPLIT", "GFX"},
         NEW u, u = screen_set_mode(t, mode)
  PROVE  ScreenSound(u)
<1>1. CASE mode = t.mode
  BY <1>1 DEF screen_set_mode
<1>2. CASE mode # t.mode
  <2>1. u = SetMode(t, mode)
    BY <1>2 DEF screen_set_mode
  <2>2. PICK x : x = InMode(t, mode)
    OBVIOUS
  <2>3. PICK e : e = lcd_erase_cursor(x)
    OBVIOUS
  <2>4. CASE mode = "TXT"
    <3>1. PICK d : d = Redefined(x, mode)
      OBVIOUS
    <3>2. u = screen_txt_update(screen_txt_mark_all_dirty(d))
      BY <2>1, <2>2, <2>4, <3>1 DEF SetMode, InMode, Redefined
    <3>3. OnMemory(d) /\ TextTyped(d) /\ AtCursor(d) /\ d.mode = mode /\ d.stray = FALSE
      BY <2>2, <3>1, ModeDefined
    <3>4. QED BY <2>4, <3>2, <3>3, RedrawSound
  <2>5. CASE mode = "GFX"
    <3>1. PICK d : d = Redefined(e, mode)
      OBVIOUS
    <3>2. u = ShowPicture(d, SCREEN_ROWS)
      BY <2>1, <2>2, <2>3, <2>5, <3>1 DEF SetMode, InMode, Redefined
    <3>3. OnMemory(d) /\ TextTyped(d) /\ AtCursor(d) /\ d.mode = mode /\ d.stray = FALSE
      BY <2>2, <2>3, <3>1, ModeDefined
    <3>4. SCREEN_ROWS \in 0 .. SCREEN_ROWS
      BY ScreenSizes
    <3>5. /\ OnMemory(u) /\ TextTyped(u) /\ AtCursor(u) /\ u.mode = "GFX"
          /\ \A y \in Rows : View(u)[y] = Picture
      BY <2>5, <3>2, <3>3, <3>4, PictureShown DEF Rows
    <3>6. QED BY <3>5 DEF ScreenSound, TextSound, FacesOf, Faces
  <2>6. CASE mode = "SPLIT"
    <3>1. PICK d : d = Redefined(e, mode)
      OBVIOUS
    <3>2. PICK p : p = ShowPicture(d, SCREEN_SPLIT_TXT_ROW)
      OBVIOUS
    <3>3. u = screen_txt_update(screen_txt_mark_all_dirty(p))
      BY <2>1, <2>2, <2>3, <2>6, <3>1, <3>2 DEF SetMode, InMode, Redefined
    <3>4. OnMemory(d) /\ TextTyped(d) /\ AtCursor(d) /\ d.mode = mode /\ d.stray = FALSE
      BY <2>2, <2>3, <3>1, ModeDefined
    <3>5. SCREEN_SPLIT_TXT_ROW \in 0 .. SCREEN_ROWS
      BY ScreenSizes DEF SCREEN_SPLIT_TXT_ROW
    <3>6. /\ OnMemory(p) /\ TextTyped(p) /\ AtCursor(p) /\ p.mode = "SPLIT"
          /\ \A y \in 0 .. SCREEN_SPLIT_TXT_ROW - 1 : View(p)[y] = Picture
      BY <2>6, <3>2, <3>4, <3>5, PictureShown
    <3>7. QED BY <3>3, <3>6, RedrawSound
  <2>7. QED BY <2>4, <2>5, <2>6
<1>3. QED BY <1>1, <1>2

LEMMA ModeKeySound ==
  ASSUME NEW t, ScreenSound(t), NEW key \in DOMAIN ModeKeys
  PROVE  ScreenSound(screen_handle_mode_key(t, key))
<1>1. ModeKeys[key] \in {"TXT", "SPLIT", "GFX"}
  BY DEF ModeKeys
<1>2. ScreenSound(screen_set_mode(t, ModeKeys[key]))
  BY <1>1, SetModeSound
<1>3. PICK u, on : u = screen_set_mode(t, ModeKeys[key]) /\ on = (key # "F3")
  OBVIOUS
<1>4. screen_handle_mode_key(t, key) = screen_txt_enable_cursor(u, on)
  BY <1>3 DEF screen_handle_mode_key
<1>5. QED BY <1>2, <1>3, <1>4, CursorSound

LEMMA BootSound == ScreenSound(BootScreen)
<1> DEFINE t == BootScreen
<1>1. /\ DOMAIN t = ScreenFields /\ t.buf = [r \in Rows |-> BlankRow] /\ t.column = 0 /\ t.row = 0
      /\ t.text_row = 0 /\ t.dirty = Rows /\ t.mode = "TXT" /\ t.top = 0 /\ t.offset = 0
      /\ t.lcd = [m \in Frame |-> BlankRow] /\ t.stray = FALSE
  BY DEF BootScreen, ScreenFields, Frame
<1> HIDE DEF t
<1>2. 0 \in Rows /\ 0 \in Columns /\ [r \in Rows |-> BlankRow] \in [Rows -> TextLines]
  BY ScreenSizes, Letters DEF Rows
<1>3. OnMemory(t)
  BY <1>1, ScreenSizes DEF OnMemory
<1>4. TextTyped(t) /\ AtCursor(t)
  BY <1>1, <1>2 DEF TextTyped, AtCursor
<1>5. ASSUME NEW y \in Rows PROVE View(t)[y] = BlankRow
  <2>1. lcd_scroll_map_row(t, y) \in Frame
    BY <1>3, MapIn, ScreenSizes DEF Rows, Frame
  <2>2. QED BY <1>1, <2>1 DEF View, Shown
<1>6. FacesOf(t, t.stray)
  BY <1>1, <1>5 DEF FacesOf, Faces
<1>7. QED BY <1>3, <1>4, <1>6 DEF ScreenSound, TextSound, t

-----------------------------------------------------------------------------
(* What each key keeps of the screen.                                      *)

Placed(l) ==
  /\ l.start_col \in Columns /\ l.start_row \in Rows
  /\ l.end_col \in Columns /\ l.end_row \in Rows

Texted(x) == ScreenSound(x.t) /\ Placed(x.l)

LEMMA CalcIs ==
  ASSUME NEW l, l.start_col \in Columns, l.start_row \in Rows, NEW index \in Nat
  PROVE  calc_cursor_pos(l, index)[1] \in Nat /\ calc_cursor_pos(l, index)[2] \in Nat
<1>1. PICK C \in Nat \ {0} : C = SCREEN_COLUMNS
  BY ScreenSizes
<1>2. PICK a \in Nat : a = l.start_col + index
  BY DEF Columns
<1>3. PICK r \in Nat : r = l.start_row
  BY DEF Rows
<1>4. calc_cursor_pos(l, index) = <<a % C, r + (a \div C)>>
  BY <1>1, <1>2, <1>3 DEF calc_cursor_pos
<1>5. a % C \in Nat /\ a \div C \in Nat
  BY <1>1, <1>2
<1>6. QED BY <1>3, <1>4, <1>5

LEMMA SetCellSound ==
  ASSUME NEW t, ScreenSound(t), NEW l, l.start_col \in Columns, l.start_row \in Rows,
         NEW index \in Nat
  PROVE  ScreenSound(SetCursor(t, calc_cursor_pos(l, index)))
<1>1. PICK cell : cell = calc_cursor_pos(l, index)
  OBVIOUS
<1>2. cell[1] \in Nat /\ cell[2] \in Nat
  BY <1>1, CalcIs
<1>3. ScreenSound(screen_txt_set_cursor(t, cell[1], cell[2]))
  BY <1>2, SetCursorSound DEF ScreenSound
<1>4. QED BY <1>1, <1>3 DEF SetCursor

\* A line drawn again, wherever it starts and however much the screen scrolls.
LEMMA RelinedText ==
  ASSUME NEW x, IsSession(x), Texted(x), x.l.buf \in Texts,
         NEW text \in Texts, NEW index \in Nat, NEW y, y = Relined(x, text, index)
  PROVE  Texted(y)
<1> DEFINE l1 == [x.l EXCEPT !.buf = text, !.index = index]
           x1 == [x EXCEPT !.l.buf = text, !.l.index = index]
<1>1. /\ IsLine(l1) /\ l1.buf = text /\ l1.index = index
      /\ l1.start_col = x.l.start_col /\ l1.start_row = x.l.start_row
  BY DEF IsSession, IsLine, LineFields
<1>2. x1 = [x EXCEPT !.l = l1]
  BY DEF IsSession
<1> HIDE DEF l1
<1>3. x1.l = l1 /\ x1.t = x.t /\ DOMAIN x1 = {"t", "l", "h"}
  BY <1>2 DEF IsSession
<1> DEFINE all == x1.l.buf \o Blanks(x1, Len(x.l.buf))
           p == Written(x1, all)
<1>4. y = Drawn(x1, p)
  BY DEF Relined, redraw_input_line
<1> HIDE DEF x1
<1>5. all \in Seq(Characters)
  <2>1. text \in Seq(Characters) /\ Len(text) \in Nat
    <3>1. Glyphs \subseteq Characters
      BY DEF Characters, Cells
    <3>2. text \in Seq(Glyphs)
      BY DEF Texts
    <3>3. \A i \in 1 .. Len(text) : text[i] \in Characters
      BY <3>1, <3>2, ElementOfSeq
    <3>4. text \in Seq(Characters)
      BY <3>2, <3>3, SeqDef, LenProperties
    <3>5. QED BY <3>2, <3>4, LenProperties
  <2>2. PICK k \in Nat : k = IF Len(x.l.buf) > Len(x1.l.buf) THEN Len(x.l.buf) - Len(x1.l.buf) ELSE 0
    <3>1. x1.l.buf = text
      BY <1>1, <1>3
    <3>2. PICK n \in Nat : n = Len(x.l.buf)
      BY LenProperties DEF Texts
    <3>3. PICK m \in Nat : m = Len(x1.l.buf)
      BY <2>1, <3>1
    <3>4. (IF n > m THEN n - m ELSE 0) \in Nat
      OBVIOUS
    <3>5. QED BY <3>2, <3>3, <3>4
  <2>3. Blanks(x1, Len(x.l.buf)) = [i \in 1 .. k |-> Blank]
    BY <2>2 DEF Blanks
  <2>4. Blank \in Characters
    BY Letters DEF Characters
  <2>5. [i \in 1 .. k |-> Blank] \in Seq(Characters)
    BY <2>4, SeqDef
  <2>6. QED BY <1>1, <1>3, <2>1, <2>3, <2>5, ConcatProperties
<1> HIDE DEF all
<1>6. DrawnKept(p)
  BY <1>1, <1>3, <1>5, WrittenKept DEF Texted, Placed
<1> HIDE DEF p
<1> DEFINE l2 == DrawnLine(l1, p)
<1>7. /\ l2.start_col = x.l.start_col /\ l2.start_row = p.start_row
      /\ l2.end_col = p.t.column /\ l2.end_row = p.t.row
  BY <1>1 DEF DrawnLine, IsLine, LineFields
<1> HIDE DEF l2
<1>8. /\ y.l = l2 /\ y.t = SetCursor(p.t, calc_cursor_pos(l2, index))
  BY <1>1, <1>3, <1>4 DEF Drawn, l2
<1>9. Placed(l2)
  BY <1>6, <1>7 DEF DrawnKept, ScreenSound, AtCursor, Placed, Texted
<1>10. ScreenSound(SetCursor(p.t, calc_cursor_pos(l2, index)))
  BY <1>6, <1>9, SetCellSound DEF DrawnKept, Placed
<1>11. QED BY <1>8, <1>9, <1>10 DEF Texted

\* The same line on the same screen, but for the search.
SamePlace(x, z) ==
  /\ IsSession(z) /\ z.t = x.t /\ z.l.buf = x.l.buf
  /\ z.l.start_col = x.l.start_col /\ z.l.start_row = x.l.start_row
  /\ z.l.end_col = x.l.end_col /\ z.l.end_row = x.l.end_row

LEMMA SamePlaceText ==
  ASSUME NEW x, Texted(x), NEW z, SamePlace(x, z)
  PROVE  Texted(z)
  BY DEF Texted, SamePlace, Placed

OtherSearch(x, z, b, j, q) ==
  z \in {[x EXCEPT !.l.in_history_search = b, !.l.history_index = j],
         [x EXCEPT !.l.history_index = j],
         [x EXCEPT !.l.in_history_search = b],
         [x EXCEPT !.l.search_prefix = q, !.l.in_history_search = b]}

LEMMA SearchChanged ==
  ASSUME NEW x, IsSession(x), NEW b, NEW j, NEW q, NEW z, OtherSearch(x, z, b, j, q)
  PROVE  SamePlace(x, z) /\ z.h = x.h
<1>1. ASSUME NEW m, IsLine(m), m.buf = x.l.buf,
             m.start_col = x.l.start_col, m.start_row = x.l.start_row,
             m.end_col = x.l.end_col, m.end_row = x.l.end_row, z = [x EXCEPT !.l = m]
      PROVE  SamePlace(x, z) /\ z.h = x.h
  <2>1. z.l = m /\ z.t = x.t /\ z.h = x.h /\ DOMAIN z = DOMAIN x /\ z = [f \in DOMAIN z |-> z[f]]
    BY <1>1 DEF IsSession
  <2>2. QED BY <1>1, <2>1 DEF SamePlace, IsSession
<1>2. CASE z = [x EXCEPT !.l.in_history_search = b, !.l.history_index = j]
  <2> DEFINE m == [x.l EXCEPT !.in_history_search = b, !.history_index = j]
  <2>1. z = [x EXCEPT !.l = m]
    BY <1>2 DEF IsSession
  <2>2. /\ IsLine(m) /\ m.buf = x.l.buf
        /\ m.start_col = x.l.start_col /\ m.start_row = x.l.start_row
        /\ m.end_col = x.l.end_col /\ m.end_row = x.l.end_row
    BY DEF IsSession, IsLine, LineFields
  <2> HIDE DEF m
  <2>3. QED BY <1>1, <2>1, <2>2
<1>3. CASE z = [x EXCEPT !.l.history_index = j]
  <2> DEFINE m == [x.l EXCEPT !.history_index = j]
  <2>1. z = [x EXCEPT !.l = m]
    BY <1>3 DEF IsSession
  <2>2. /\ IsLine(m) /\ m.buf = x.l.buf
        /\ m.start_col = x.l.start_col /\ m.start_row = x.l.start_row
        /\ m.end_col = x.l.end_col /\ m.end_row = x.l.end_row
    BY DEF IsSession, IsLine, LineFields
  <2> HIDE DEF m
  <2>3. QED BY <1>1, <2>1, <2>2
<1>4. CASE z = [x EXCEPT !.l.in_history_search = b]
  <2> DEFINE m == [x.l EXCEPT !.in_history_search = b]
  <2>1. z = [x EXCEPT !.l = m]
    BY <1>4 DEF IsSession
  <2>2. /\ IsLine(m) /\ m.buf = x.l.buf
        /\ m.start_col = x.l.start_col /\ m.start_row = x.l.start_row
        /\ m.end_col = x.l.end_col /\ m.end_row = x.l.end_row
    BY DEF IsSession, IsLine, LineFields
  <2> HIDE DEF m
  <2>3. QED BY <1>1, <2>1, <2>2
<1>5. CASE z = [x EXCEPT !.l.search_prefix = q, !.l.in_history_search = b]
  <2> DEFINE m == [x.l EXCEPT !.search_prefix = q, !.in_history_search = b]
  <2>1. z = [x EXCEPT !.l = m]
    BY <1>5 DEF IsSession
  <2>2. /\ IsLine(m) /\ m.buf = x.l.buf
        /\ m.start_col = x.l.start_col /\ m.start_row = x.l.start_row
        /\ m.end_col = x.l.end_col /\ m.end_row = x.l.end_row
    BY DEF IsSession, IsLine, LineFields
  <2> HIDE DEF m
  <2>3. QED BY <1>1, <2>1, <2>2
<1>6. QED BY <1>2, <1>3, <1>4, <1>5 DEF OtherSearch

LEMMA EditedText ==
  ASSUME NEW x, IsSession(x), Texted(x), x.l.buf \in Texts,
         NEW text \in Texts, NEW index \in Nat, NEW y, y = Edited(x, text, index)
  PROVE  Texted(y)
<1>1. PICK b, j, q : b = FALSE /\ j = x.h.head /\ q = <<>>
  OBVIOUS
<1>2. PICK z : z = [x EXCEPT !.l.in_history_search = b, !.l.history_index = j]
  OBVIOUS
<1>3. SamePlace(x, z)
  <2>1. OtherSearch(x, z, b, j, q)
    BY <1>2 DEF OtherSearch
  <2>2. QED BY <2>1, SearchChanged
<1>4. y = Relined(z, text, index)
  BY <1>1, <1>2 DEF Edited
<1>5. IsSession(z) /\ Texted(z) /\ z.l.buf \in Texts
  BY <1>3, SamePlaceText DEF SamePlace
<1>6. QED BY <1>4, <1>5, RelinedText

LEMMA RecalledText ==
  ASSUME NEW x, IsSession(x), Texted(x), x.l.buf \in Texts,
         NEW text \in Texts, NEW j, NEW y, y = Recalled(x, j, text)
  PROVE  Texted(y)
<1>1. PICK z : z = [x EXCEPT !.l.history_index = j]
  OBVIOUS
<1>2. SamePlace(x, z)
  <2>1. PICK b, q : b = FALSE /\ q = <<>>
    OBVIOUS
  <2>2. OtherSearch(x, z, b, j, q)
    BY <1>1 DEF OtherSearch
  <2>3. QED BY <2>2, SearchChanged
<1>3. y = Relined(z, text, Len(text))
  BY <1>1 DEF Recalled
<1>4. IsSession(z) /\ Texted(z) /\ z.l.buf \in Texts
  BY <1>2, SamePlaceText DEF SamePlace
<1>5. Len(text) \in Nat
  BY LenProperties DEF Texts
<1>6. QED BY <1>3, <1>4, <1>5, RelinedText

\* The slot of the history that UP or DOWN shows.
LEMMA HistoryText ==
  ASSUME NEW h, RingSound(h), NEW j \in Slots
  PROVE  history_get(h, LINE_SIZE - 1, j) \in Texts
<1>1. h.buffer[j] \in Texts
  BY DEF RingSound
<1>2. PICK n \in Nat : n = LINE_SIZE - 1 /\ n > 0
  BY Sizes
<1>3. Copied(h.buffer[j], n) \in Texts
  BY <1>1, <1>2, CopiedIs
<1>4. QED BY <1>2, <1>3 DEF history_get

LEMMA SearchingText ==
  ASSUME NEW x, SessionSound(x), Texted(x), NEW z, z = Searching(x)
  PROVE  Texted(z)
<1>1. CASE x.l.in_history_search
  BY <1>1 DEF Searching
<1>2. CASE ~x.l.in_history_search
  <2>1. PICK b, j, q : b = TRUE /\ j = 0 /\ q = Copied(x.l.buf, HISTORY_LINE_LENGTH)
    OBVIOUS
  <2>2. z = [x EXCEPT !.l.search_prefix = q, !.l.in_history_search = b]
    BY <1>2, <2>1 DEF Searching
  <2>3. IsSession(x)
    BY DEF SessionSound
  <2>4. SamePlace(x, z)
    <3>1. OtherSearch(x, z, b, j, q)
      BY <2>2 DEF OtherSearch
    <3>2. QED BY <2>3, <3>1, SearchChanged
  <2>5. QED BY <2>4, SamePlaceText
<1>3. QED BY <1>1, <1>2

LEMMA KeyUpText ==
  ASSUME NEW x, SessionSound(x), Texted(x), NEW y, y = KeyUp(x)
  PROVE  Texted(y)
<1>1. CASE history_is_empty(x.h)
  BY <1>1 DEF KeyUp
<1>2. CASE ~history_is_empty(x.h)
  <2>1. PICK z : z = Searching(x)
    OBVIOUS
  <2>2. PICK j : j = history_prev_matching(z.h, z.l.history_index, z.l.search_prefix)
    OBVIOUS
  <2>3. SessionSound(z) /\ Texted(z)
    BY <2>1, SearchingSound, SearchingText
  <2>4. y = Found(z, j)
    BY <1>2, <2>1, <2>2 DEF KeyUp, Older
  <2>5. CASE j = z.l.history_index
    BY <2>3, <2>4, <2>5 DEF Found
  <2>6. CASE j # z.l.history_index
    <3>1. /\ RingSound(z.h) /\ z.l.history_index \in Slots /\ z.l.search_prefix \in Texts
          /\ Ahead(z.h.tail, z.l.history_index) <= Ahead(z.h.tail, z.h.head)
          /\ IsSession(z) /\ z.l.buf \in Texts
      BY <2>3 DEF SessionSound, LineSound
    <3>2. j \in Slots
      BY <2>2, <2>6, <3>1, OlderIs
    <3>3. PICK text \in Texts : text = history_get(z.h, LINE_SIZE - 1, j)
      BY <3>1, <3>2, HistoryText
    <3>4. y = Recalled(z, j, text)
      BY <2>4, <2>6, <3>3 DEF Found
    <3>5. QED BY <2>3, <3>1, <3>4, RecalledText
  <2>7. QED BY <2>5, <2>6
<1>3. QED BY <1>1, <1>2

LEMMA KeyDownText ==
  ASSUME NEW x, SessionSound(x), Texted(x), NEW y, y = KeyDown(x)
  PROVE  Texted(y)
<1>1. CASE history_is_empty(x.h) \/ history_is_end_index(x.h, x.l.history_index)
  BY <1>1 DEF KeyDown
<1>2. CASE ~(history_is_empty(x.h) \/ history_is_end_index(x.h, x.l.history_index))
  <2>1. PICK z : z = Searching(x)
    OBVIOUS
  <2>2. PICK j : j = history_next_matching(z.h, z.l.history_index, z.l.search_prefix)
    OBVIOUS
  <2>3. SessionSound(z) /\ Texted(z) /\ z.h = x.h /\ z.l.history_index = x.l.history_index
    BY <2>1, SearchingSound, SearchingText
  <2>4. y = Returned(z, j) /\ x.l.history_index # x.h.head
    BY <1>2, <2>1, <2>2 DEF KeyDown, Newer, history_is_end_index
  <2>5. /\ RingSound(z.h) /\ z.l.history_index \in Slots /\ z.l.search_prefix \in Texts
        /\ Ahead(z.h.tail, z.l.history_index) <= Ahead(z.h.tail, z.h.head)
        /\ z.l.history_index # z.h.head /\ IsSession(z) /\ z.l.buf \in Texts
    BY <2>3, <2>4 DEF SessionSound, LineSound
  <2>6. j \in Slots
    BY <2>2, <2>5, NewerIs
  <2>7. CASE j = z.h.head
    <3>1. PICK b, q : b = FALSE /\ q = <<>>
      OBVIOUS
    <3>2. PICK w : w = [z EXCEPT !.l.in_history_search = b]
      OBVIOUS
    <3>3. SamePlace(z, w)
      <4>1. OtherSearch(z, w, b, j, q)
        BY <3>2 DEF OtherSearch
      <4>2. QED BY <2>5, <4>1, SearchChanged
    <3>4. PICK text \in Texts : text = z.l.search_prefix
      BY <2>5
    <3>5. y = Recalled(w, j, text)
      BY <2>4, <2>7, <3>1, <3>2, <3>4 DEF Returned, history_is_end_index
    <3>6. IsSession(w) /\ Texted(w) /\ w.l.buf \in Texts
      BY <2>3, <2>5, <3>3, SamePlaceText DEF SamePlace
    <3>7. QED BY <3>5, <3>6, RecalledText
  <2>8. CASE j # z.h.head
    <3>1. PICK text \in Texts : text = history_get(z.h, LINE_SIZE - 1, j)
      BY <2>5, <2>6, HistoryText
    <3>2. y = Recalled(z, j, text)
      BY <2>4, <2>8, <3>1 DEF Returned, history_is_end_index
    <3>3. QED BY <2>3, <2>5, <3>2, RecalledText
  <2>9. QED BY <2>7, <2>8
<1>3. QED BY <1>1, <1>2

LEMMA MovedText ==
  ASSUME NEW x, IsSession(x), Placed(x.l), NEW index, NEW e, NEW t, ScreenSound(t),
         NEW y, y = Moved(x, index, e, t)
  PROVE  Texted(y)
<1> DEFINE l1 == [x.l EXCEPT !.index = index, !.ended = e]
<1>1. y = [x EXCEPT !.l = l1, !.t = t]
  BY DEF Moved, IsSession
<1>2. /\ l1.start_col = x.l.start_col /\ l1.start_row = x.l.start_row
      /\ l1.end_col = x.l.end_col /\ l1.end_row = x.l.end_row
  BY DEF IsSession, IsLine, LineFields
<1> HIDE DEF l1
<1>3. y.l = l1 /\ y.t = t
  BY <1>1 DEF IsSession
<1>4. QED BY <1>2, <1>3 DEF Texted, Placed

LEMMA GoToText ==
  ASSUME NEW x, IsSession(x), Texted(x), NEW i \in Nat, NEW y, y = GoTo(x, i)
  PROVE  Texted(y)
<1>1. PICK e : e = FALSE
  OBVIOUS
<1>2. PICK t : t = SetCursor(x.t, calc_cursor_pos(x.l, i))
  OBVIOUS
<1>3. y = Moved(x, i, e, t)
  BY <1>1, <1>2 DEF GoTo, Moved
<1>4. ScreenSound(t)
  BY <1>2, SetCellSound DEF Texted, Placed
<1>5. QED BY <1>3, <1>4, MovedText DEF Texted

LEMMA KeyText ==
  ASSUME NEW x, SessionSound(x), Texted(x), NEW key \in Keys, NEW y, y = Key(x, key)
  PROVE  Texted(y)
<1>1. /\ x.l.buf \in Texts /\ Len(x.l.buf) \in Nat /\ Len(x.l.buf) < LINE_SIZE
      /\ x.l.index \in Nat /\ x.l.index <= Len(x.l.buf) /\ x.l.index \in 0 .. Len(x.l.buf)
      /\ IsSession(x)
  BY LenProperties DEF SessionSound, LineSound, Texts
<1>2. CASE key = "BACKSPACE"
  <2>1. CASE x.l.index > 0
    <3>1. PICK text \in Texts : text = Without(x.l.buf, x.l.index)
      BY <1>1, <2>1, WithoutIs
    <3>2. y = Edited(x, text, x.l.index - 1)
      BY <1>2, <2>1, <3>1 DEF Key, ModeKeys
    <3>3. x.l.index - 1 \in Nat
      BY <1>1, <2>1
    <3>4. QED BY <1>1, <3>2, <3>3, EditedText
  <2>2. CASE ~(x.l.index > 0)
    BY <1>2, <2>2 DEF Key, ModeKeys
  <2>3. QED BY <2>1, <2>2
<1>3. CASE key = "DEL"
  <2>1. CASE x.l.index < Len(x.l.buf)
    <3>1. x.l.index + 1 \in 1 .. Len(x.l.buf)
      BY <1>1, <2>1
    <3>2. PICK text \in Texts : text = Without(x.l.buf, x.l.index + 1)
      BY <1>1, <3>1, WithoutIs
    <3>3. y = Edited(x, text, x.l.index)
      BY <1>3, <2>1, <3>2 DEF Key, ModeKeys
    <3>4. QED BY <1>1, <3>3, EditedText
  <2>2. CASE ~(x.l.index < Len(x.l.buf))
    BY <1>3, <2>2 DEF Key, ModeKeys
  <2>3. QED BY <2>1, <2>2
<1>4. CASE key = "ESC"
  <2>1. CASE x.l.index > 0
    <3>1. y = Edited(x, <<>>, 0) /\ <<>> \in Texts /\ 0 \in Nat
      BY <1>4, <2>1 DEF Key, ModeKeys, Texts
    <3>2. QED BY <1>1, <3>1, EditedText
  <2>2. CASE ~(x.l.index > 0)
    BY <1>4, <2>2 DEF Key, ModeKeys
  <2>3. QED BY <2>1, <2>2
<1>5. CASE key = "HOME"
  <2>1. y = KeyHome(x)
    BY <1>5 DEF Key, ModeKeys
  <2>2. CASE x.l.index = 0
    BY <2>1, <2>2 DEF KeyHome
  <2>3. CASE x.l.index # 0
    <3>1. PICK e, t : e = FALSE /\ t = screen_txt_set_cursor(x.t, x.l.start_col, x.l.start_row)
      OBVIOUS
    <3>2. y = Moved(x, 0, e, t)
      BY <2>1, <2>3, <3>1 DEF KeyHome, Moved
    <3>3. x.l.start_col \in Nat /\ x.l.start_row \in Nat
      BY DEF Texted, Placed, Columns, Rows
    <3>4. ScreenSound(t)
      BY <3>1, <3>3, SetCursorSound DEF Texted, ScreenSound
    <3>5. QED BY <1>1, <3>2, <3>4, MovedText DEF Texted
  <2>4. QED BY <2>2, <2>3
<1>6. CASE key = "END"
  <2>1. y = KeyEnd(x)
    BY <1>6 DEF Key, ModeKeys
  <2>2. CASE x.l.index = Len(x.l.buf)
    BY <2>1, <2>2 DEF KeyEnd
  <2>3. CASE x.l.index # Len(x.l.buf)
    <3>1. PICK e, t : e = TRUE /\ t = screen_txt_set_cursor(x.t, x.l.end_col, x.l.end_row)
      OBVIOUS
    <3>2. y = Moved(x, Len(x.l.buf), e, t)
      BY <2>1, <2>3, <3>1 DEF KeyEnd, Moved
    <3>3. x.l.end_col \in Nat /\ x.l.end_row \in Nat
      BY DEF Texted, Placed, Columns, Rows
    <3>4. ScreenSound(t)
      BY <3>1, <3>3, SetCursorSound DEF Texted, ScreenSound
    <3>5. QED BY <1>1, <3>2, <3>4, MovedText DEF Texted
  <2>4. QED BY <2>2, <2>3
<1>7. CASE key = "UP"
  BY <1>7, KeyUpText DEF Key, ModeKeys
<1>8. CASE key = "DOWN"
  BY <1>8, KeyDownText DEF Key, ModeKeys
<1>9. CASE key = "LEFT"
  <2>1. CASE x.l.index > 0
    <3>1. y = GoTo(x, x.l.index - 1) /\ x.l.index - 1 \in Nat
      BY <1>1, <1>9, <2>1 DEF Key, ModeKeys
    <3>2. QED BY <1>1, <3>1, GoToText
  <2>2. CASE ~(x.l.index > 0)
    BY <1>9, <2>2 DEF Key, ModeKeys
  <2>3. QED BY <2>1, <2>2
<1>10. CASE key = "RIGHT"
  <2>1. CASE x.l.index < Len(x.l.buf)
    <3>1. y = GoTo(x, x.l.index + 1) /\ x.l.index + 1 \in Nat
      BY <1>1, <1>10, <2>1 DEF Key, ModeKeys
    <3>2. QED BY <1>1, <3>1, GoToText
  <2>2. CASE ~(x.l.index < Len(x.l.buf))
    BY <1>10, <2>2 DEF Key, ModeKeys
  <2>3. QED BY <2>1, <2>2
<1>11. CASE key \in DOMAIN ModeKeys
  <2>1. key \in {"F1", "F2", "F3"}
    BY <1>11 DEF ModeKeys
  <2>2. y = [x EXCEPT !.t = screen_handle_mode_key(@, key)]
    BY <1>11, <2>1 DEF Key, ModeKeys
  <2>3. PICK t : t = screen_handle_mode_key(x.t, key) /\ ScreenSound(t)
    BY <1>11, ModeKeySound DEF Texted
  <2>4. y = [x EXCEPT !.t = t]
    BY <2>2, <2>3
  <2>5. y.t = t /\ y.l = x.l
    BY <1>1, <2>4 DEF IsSession
  <2>6. QED BY <2>3, <2>5 DEF Texted
<1>12. CASE key \in Glyphs
  <2>1. key \notin EditKeys /\ key \notin DOMAIN ModeKeys
    BY <1>12, ConsoleAssumption
  <2>2. y = Typed(x, key)
    BY <2>1 DEF Key, EditKeys
  <2>3. CASE Len(x.l.buf) < LINE_SIZE - 1
    <3>1. PICK text \in Texts : text = With(x.l.buf, x.l.index, key)
      BY <1>1, <1>12, WithIs
    <3>2. y = Edited(x, text, x.l.index + 1) /\ x.l.index + 1 \in Nat
      BY <1>1, <2>2, <2>3, <3>1 DEF Typed
    <3>3. QED BY <1>1, <3>2, EditedText
  <2>4. CASE ~(Len(x.l.buf) < LINE_SIZE - 1)
    BY <2>2, <2>4 DEF Typed
  <2>5. QED BY <2>3, <2>4
<1>13. key \in EditKeys \/ key \in DOMAIN ModeKeys \/ key \in Glyphs
  BY DEF Keys
<1>14. QED BY <1>2, <1>3, <1>4, <1>5, <1>6, <1>7, <1>8, <1>9, <1>10, <1>11, <1>12, <1>13 DEF EditKeys

\* Only the screen, which stays sound.
LEMMA OtherText ==
  ASSUME NEW x, IsSession(x), Placed(x.l), NEW t, ScreenSound(t), NEW y, y = [x EXCEPT !.t = t]
  PROVE  Texted(y) /\ y.l = x.l
<1>1. y.t = t /\ y.l = x.l
  BY DEF IsSession
<1>2. QED BY <1>1 DEF Texted

LEMMA BeginText ==
  ASSUME NEW t, ScreenSound(t), NEW h, NEW x, x = BeginLine(t, h)
  PROVE  Texted(x)
<1>1. PICK on \in BOOLEAN : on = TRUE
  OBVIOUS
<1>2. PICK u : u = screen_txt_enable_cursor(t, on)
  OBVIOUS
<1>3. PICK w : w = screen_txt_draw_cursor(u)
  OBVIOUS
<1>4. ScreenSound(u)
  BY <1>2, CursorSound
<1>5. ScreenSound(w)
  BY <1>3, <1>4, CursorSound
<1>6. /\ x.t = w
      /\ x.l.start_col = t.column /\ x.l.start_row = t.row
      /\ x.l.end_col = t.column /\ x.l.end_row = t.row
  BY <1>1, <1>2, <1>3 DEF BeginLine
<1>7. t.column \in Columns /\ t.row \in Rows
  BY DEF ScreenSound, AtCursor
<1>8. QED BY <1>5, <1>6, <1>7 DEF Texted, Placed

LEMMA ReadText ==
  ASSUME NEW x, SessionSound(x), Texted(x), NEW key \in Keys, NEW y, y = Read(x, key)
  PROVE  Texted(y)
<1>1. PICK u : u = screen_txt_erase_cursor(x.t)
  OBVIOUS
<1>2. PICK a : a = [x EXCEPT !.t = u]
  OBVIOUS
<1>3. ScreenSound(u)
  BY <1>1, CursorSound DEF Texted
<1>4. SessionSound(a) /\ Texted(a)
  BY <1>2, <1>3, OtherScreen, OtherText DEF SessionSound, Texted
<1>5. PICK b : b = Key(a, key)
  OBVIOUS
<1>6. SessionSound(b) /\ Texted(b)
  BY <1>4, <1>5, KeySound, KeyText
<1>7. PICK w : w = screen_txt_draw_cursor(b.t)
  OBVIOUS
<1>8. ScreenSound(w)
  BY <1>6, <1>7, CursorSound DEF Texted
<1>9. a = Erased(x)
  BY <1>1, <1>2 DEF Erased
<1>10. y = [b EXCEPT !.t = w]
  BY <1>5, <1>7, <1>9 DEF Read, Waiting
<1>11. QED BY <1>6, <1>8, <1>10, OtherText DEF SessionSound, Texted

\* The cursor is erased and turned off, when a line has ended.
LEMMA EndedText ==
  ASSUME NEW t, ScreenSound(t)
  PROVE  ScreenSound(screen_txt_enable_cursor(screen_txt_erase_cursor(t), FALSE))
<1>1. PICK on \in BOOLEAN : on = FALSE
  OBVIOUS
<1>2. PICK u : u = screen_txt_erase_cursor(t)
  OBVIOUS
<1>3. ScreenSound(u)
  BY <1>2, CursorSound
<1>4. ScreenSound(screen_txt_enable_cursor(u, on))
  BY <1>3, CursorSound
<1>5. QED BY <1>1, <1>2, <1>4

LEMMA EnterText ==
  ASSUME NEW x, IsSession(x), Texted(x), NEW y, y = Enter(x)
  PROVE  Texted(y) /\ y.l = x.l
<1>1. PICK e : e = screen_txt_enable_cursor(screen_txt_erase_cursor(x.t), FALSE)
  OBVIOUS
<1>2. PICK u : u = screen_txt_set_cursor(e, x.l.end_col, x.l.end_row)
  OBVIOUS
<1>3. PICK w : w = screen_txt_putc(u, "newline")
  OBVIOUS
<1>4. PICK g : g = history_add(x.h, x.l.buf)
  OBVIOUS
<1>5. ScreenSound(e)
  BY <1>1, EndedText DEF Texted
<1>6. x.l.end_col \in Nat /\ x.l.end_row \in Nat
  BY DEF Texted, Placed, Columns, Rows
<1>7. ScreenSound(u)
  BY <1>2, <1>5, <1>6, SetCursorSound DEF ScreenSound
<1>8. ScreenSound(w)
  BY <1>3, <1>7, PutcSound DEF Characters
<1>9. y = [x EXCEPT !.t = w, !.h = g]
  BY <1>1, <1>2, <1>3, <1>4 DEF Enter
<1>10. y.t = w /\ y.l = x.l
  BY <1>9 DEF IsSession
<1>11. QED BY <1>8, <1>10 DEF Texted

LEMMA BreakText ==
  ASSUME NEW x, IsSession(x), Texted(x),
         NEW y, y = [Break(x) EXCEPT !.t = screen_txt_puts(@, <<"!", "newline">>)]
  PROVE  Texted(y) /\ y.l = x.l
<1>1. PICK e : e = screen_txt_enable_cursor(screen_txt_erase_cursor(x.t), FALSE)
  OBVIOUS
<1>2. PICK b : b = [x EXCEPT !.t = e]
  OBVIOUS
<1>3. PICK w : w = screen_txt_puts(e, <<"!", "newline">>)
  OBVIOUS
<1>4. ScreenSound(e)
  BY <1>1, EndedText DEF Texted
<1>5. <<"!", "newline">> \in Seq(Characters)
  BY DEF Characters, Cells
<1>6. ScreenSound(w)
  BY <1>3, <1>4, <1>5, PutsSound
<1>7. b = Break(x)
  BY <1>1, <1>2 DEF Break
<1>8. b.t = e /\ b.l = x.l /\ DOMAIN b = DOMAIN x
  BY <1>2 DEF IsSession
<1>9. y = [b EXCEPT !.t = w]
  BY <1>3, <1>7, <1>8
<1>10. y.t = w /\ y.l = b.l
  BY <1>8, <1>9 DEF IsSession
<1>11. QED BY <1>6, <1>8, <1>10 DEF Texted

-----------------------------------------------------------------------------
(* The program and the screen.                                             *)

Fits(l) == Len(l.buf) < LINE_SIZE /\ l.index \in 0 .. Len(l.buf)

TextInv == HistoryInv /\ Texted(s) /\ Fits(s.l)

LEMMA InitTextInv == Init => TextInv
<1> SUFFICES ASSUME Init PROVE TextInv
  OBVIOUS
<1>1. HistoryInv
  BY InitHistoryInv
<1>2. PICK x : x = BeginLine(BootScreen, EmptyHistory)
  OBVIOUS
<1>3. Texted(x) /\ SessionSound(x)
  BY <1>2, BootSound, BeginText, EmptySound, BeginSound
<1>4. s = [x EXCEPT !.t = BootScreen]
  BY <1>2 DEF Init
<1>5. Texted(s) /\ s.l = x.l
  BY <1>3, <1>4, BootSound, OtherText DEF SessionSound, Texted
<1>6. QED BY <1>1, <1>3, <1>5 DEF TextInv, Fits, SessionSound, LineSound

\* A call that writes on the screen.
LEMMA ShownText ==
  ASSUME TextInv, NEW t, ScreenSound(t), OnScreen(t)
  PROVE  Texted(s') /\ Fits(s'.l)
<1>1. s' = [s EXCEPT !.t = t] /\ IsSession(s) /\ Placed(s.l)
  BY DEF OnScreen, TextInv, HistoryInv, Texted
<1>2. Texted(s') /\ s'.l = s.l
  BY <1>1, OtherText
<1>3. QED BY <1>2 DEF TextInv

\* What a command writes.
LEMMA CommandIs ==
  ASSUME NEW m \in Commands
  PROVE  /\ m.op = "print" => m.text \in Seq(Characters)
         /\ m.op = "setcursor" => m.column \in Nat /\ m.row \in Nat
         /\ m.op = "screen" => m.mode \in {"TXT", "SPLIT", "GFX"}
         /\ m.op = "readchar" => m.keys \in SUBSET Keys
<1>1. ASSUME m.op = "print" PROVE m.text \in Seq(Characters)
  <2>1. m.text \in Seq(Glyphs \cup {"newline", "backspace"})
    BY <1>1 DEF Commands
  <2>2. PICK text : text = m.text
    OBVIOUS
  <2>3. PICK G : G = Glyphs \cup {"newline", "backspace"}
    OBVIOUS
  <2>4. G \subseteq Characters
    BY <2>3 DEF Characters, Cells
  <2>5. text \in Seq(G)
    BY <2>1, <2>2, <2>3
  <2>6. \A i \in 1 .. Len(text) : text[i] \in Characters
    BY <2>4, <2>5, ElementOfSeq
  <2>7. text \in Seq(Characters)
    BY <2>5, <2>6, SeqDef, LenProperties
  <2>8. QED BY <2>2, <2>7
<1>2. ASSUME m.op = "setcursor" PROVE m.column \in Nat /\ m.row \in Nat
  BY <1>2 DEF Commands, Columns, Rows
<1>3. ASSUME m.op = "screen" PROVE m.mode \in {"TXT", "SPLIT", "GFX"}
  BY <1>3 DEF Commands
<1>4. ASSUME m.op = "readchar" PROVE m.keys \in SUBSET Keys
  BY <1>4 DEF Commands
<1>5. QED BY <1>1, <1>2, <1>3, <1>4

LEMMA StepTextInv == TextInv /\ [Next]_vars => TextInv'
<1> SUFFICES ASSUME TextInv, [Next]_vars PROVE TextInv'
  OBVIOUS
<1>1. HistoryInv'
  BY StepHistoryInv DEF TextInv
<1>2. HistoryInv /\ Texted(s) /\ Fits(s.l) /\ ScreenSound(s.t) /\ IsSession(s)
  BY DEF TextInv, Texted, HistoryInv
<1> SUFFICES Texted(s') /\ Fits(s'.l)
  BY <1>1 DEF TextInv
<1>3. ASSUME NEW op, Calling(op) PROVE Next1 \in Commands /\ Next1.op = op
  BY <1>2, <1>3, Program DEF Calling
<1>4. CASE output_write
  <2>1. Next1.text \in Seq(Characters)
    BY <1>3, <1>4, CommandIs DEF output_write
  <2>2. PICK p : p = screen_txt_puts(s.t, Next1.text)
    OBVIOUS
  <2>3. PICK t : t = screen_txt_update(p)
    OBVIOUS
  <2>4. ScreenSound(p)
    BY <1>2, <2>1, <2>2, PutsSound
  <2>5. ScreenSound(t)
    BY <2>3, <2>4, FlushSound
  <2>6. OnScreen(t)
    BY <1>4, <2>2, <2>3 DEF output_write
  <2>7. QED BY <2>5, <2>6, ShownText
<1>5. CASE prim_cleartext
  <2>1. PICK t : t = screen_txt_clear(s.t)
    OBVIOUS
  <2>2. ScreenSound(t)
    BY <1>2, <2>1, ClearSound
  <2>3. OnScreen(t)
    BY <1>5, <2>1 DEF prim_cleartext
  <2>4. QED BY <2>2, <2>3, ShownText
<1>6. CASE prim_setcursor
  <2>1. Next1.column \in Nat /\ Next1.row \in Nat
    BY <1>3, <1>6, CommandIs DEF prim_setcursor
  <2>2. PICK t : t = screen_txt_set_cursor(s.t, Next1.column, Next1.row)
    OBVIOUS
  <2>3. ScreenSound(t)
    BY <1>2, <2>1, <2>2, SetCursorSound DEF ScreenSound
  <2>4. OnScreen(t)
    BY <1>6, <2>2 DEF prim_setcursor
  <2>5. QED BY <2>3, <2>4, ShownText
<1>7. CASE prim_screen
  <2>1. Next1.mode \in {"TXT", "SPLIT", "GFX"}
    BY <1>3, <1>7, CommandIs DEF prim_screen
  <2>2. PICK t : t = screen_set_mode(s.t, Next1.mode)
    OBVIOUS
  <2>3. ScreenSound(t)
    BY <1>2, <2>1, <2>2, SetModeSound
  <2>4. OnScreen(t)
    BY <1>7, <2>2 DEF prim_screen
  <2>5. QED BY <2>3, <2>4, ShownText
<1>8. CASE input_read_char
  <2>1. PICK key \in Next1.keys :
          IF key \in DOMAIN ModeKeys
          THEN /\ OnScreen(screen_handle_mode_key(s.t, key))
               /\ calls' = [calls EXCEPT ![1].keys = @ \ {key}]
               /\ UNCHANGED <<waiting, typed, entered>>
          ELSE Done /\ UNCHANGED s
    BY <1>8 DEF input_read_char
  <2>2. CASE key \in DOMAIN ModeKeys
    <3>1. PICK t : t = screen_handle_mode_key(s.t, key)
      OBVIOUS
    <3>2. ScreenSound(t)
      BY <1>2, <2>2, <3>1, ModeKeySound
    <3>3. OnScreen(t)
      BY <2>1, <2>2, <3>1
    <3>4. QED BY <3>2, <3>3, ShownText
  <2>3. CASE key \notin DOMAIN ModeKeys
    BY <1>2, <2>1, <2>3
  <2>4. QED BY <2>2, <2>3
<1>9. CASE Prompt
  <2>1. PICK p : p = screen_txt_puts(s.t, <<"?">>)
    OBVIOUS
  <2>2. PICK t : t = screen_txt_update(p)
    OBVIOUS
  <2>3. <<"?">> \in Seq(Characters)
    BY DEF Characters, Cells
  <2>4. ScreenSound(p)
    BY <1>2, <2>1, <2>3, PutsSound
  <2>5. ScreenSound(t)
    BY <2>2, <2>4, FlushSound
  <2>6. s' = BeginLine(t, s.h) /\ RingSound(s.h)
    BY <1>2, <1>9, <2>1, <2>2 DEF Prompt, HistoryInv
  <2>7. Texted(s') /\ SessionSound(s')
    BY <2>5, <2>6, BeginText, BeginSound
  <2>8. QED BY <2>7 DEF SessionSound, LineSound, Fits
<1>10. CASE Press
  <2>1. PICK key \in Next1.keys : s' = Read(s, key)
    BY <1>10 DEF Press
  <2>2. waiting /\ waiting' = waiting /\ SessionSound(s) /\ calls # <<>> /\ Next1.op = "line"
    BY <1>2, <1>10 DEF Press, HistoryInv, SessionSound, Next1
  <2>3. key \in Keys
    BY <1>2, <2>1, <2>2, Program
  <2>4. Texted(s')
    BY <1>2, <2>1, <2>2, <2>3, ReadText
  <2>5. LineSound(s.l, s.h)'
    BY <1>1, <2>2 DEF HistoryInv
  <2>6. QED BY <2>4, <2>5 DEF LineSound, Fits
<1>11. CASE picocalc_read_line
  <2>1. s' = Enter(s)
    BY <1>11 DEF picocalc_read_line
  <2>2. QED BY <1>2, <2>1, EnterText
<1>12. CASE BreakLine
  <2>1. s' = [Break(s) EXCEPT !.t = screen_txt_puts(@, <<"!", "newline">>)]
    BY <1>12 DEF BreakLine
  <2>2. QED BY <1>2, <2>1, BreakText
<1>13. CASE Rest \/ UNCHANGED vars
  BY <1>2, <1>13 DEF Rest, vars
<1>14. QED
  BY <1>4, <1>5, <1>6, <1>7, <1>8, <1>9, <1>10, <1>11, <1>12, <1>13 DEF Next

\* Every row on display is the row of the buffer it stands for.
LEMMA TextInvType == TextInv => TypeOK
<1> SUFFICES ASSUME TextInv PROVE TypeOK
  OBVIOUS
<1>1. OnMemory(s.t) /\ TextTyped(s.t) /\ AtCursor(s.t) /\ RingSound(s.h) /\ Fits(s.l)
  BY DEF TextInv, Texted, ScreenSound, TextSound, HistoryInv
<1>2. \A r \in Rows : \A c \in Columns : s.t.buf[r][c] \in Cells
  BY <1>1 DEF TextTyped, TextLines
<1>3. /\ s.t.row \in Rows /\ s.t.column \in Columns /\ s.t.text_row \in Rows
      /\ s.t.dirty \subseteq Rows
  BY <1>1 DEF TextTyped, AtCursor
<1>4. s.t.offset \in 0 .. FRAME_ROWS - s.t.top - 1
  BY <1>1 DEF OnMemory
<1>5. Len(s.l.buf) < LINE_SIZE /\ s.l.index \in 0 .. Len(s.l.buf)
  BY <1>1 DEF Fits
<1>6. s.h.head \in Slots /\ s.h.tail \in Slots
  BY <1>1 DEF RingSound
<1>7. QED BY <1>2, <1>3, <1>4, <1>5, <1>6 DEF TypeOK

LEMMA TextInvTrue == TextInv => TextTrue
<1> SUFFICES ASSUME TextInv PROVE TextTrue
  OBVIOUS
<1>1. TypeOK
  BY TextInvType
<1>2. PICK t : t = s.t
  OBVIOUS
<1>3. /\ TextTyped(t)
      /\ Faces(t.mode, View(t), t.buf, t.dirty, WindowStart(t), t.stray)
  BY <1>2 DEF TextInv, Texted, ScreenSound, TextSound, FacesOf
<1>4. \A y \in Rows : View(t)[y] = Shown(t, y)
  BY DEF View
<1>5. ASSUME NEW row \in Rows, Displayed(t, row) /\ ~t.stray, NEW c \in Columns
      PROVE  \/ Shown(t, LineOf(t, row))[c] = t.buf[row][c]
             \/ Shown(t, LineOf(t, row))[c] = Blank /\ t.mode = "SPLIT" /\ row \in t.dirty
  <2>1. CASE t.mode = "TXT"
    <3>1. LineOf(t, row) = row /\ View(t)[row] = t.buf[row]
      BY <1>3, <2>1 DEF LineOf, Faces
    <3>2. QED BY <1>4, <3>1
  <2>2. CASE t.mode # "TXT"
    <3>1. t.mode = "SPLIT" /\ InWindow(t, row)
      BY <1>5, <2>2 DEF Displayed
    <3>2. row \in Window(WindowStart(t)) /\ LineOf(t, row) = LineIn(WindowStart(t), row)
      BY <3>1 DEF InWindow, Window, LineOf, LineIn
    <3>3. Agrees(View(t), t.buf, t.dirty, WindowStart(t))
      BY <1>3, <1>5, <3>1 DEF Faces
    <3>4. \/ View(t)[LineOf(t, row)][c] = t.buf[row][c]
          \/ View(t)[LineOf(t, row)][c] = Blank /\ row \in t.dirty
      BY <3>2, <3>3 DEF Agrees
    <3>5. LineOf(t, row) \in Rows
      <4>1. PICK st : st = WindowStart(t) /\ st \in 0 .. SCREEN_SPLIT_TXT_ROW
        BY <1>3, WindowIs DEF TextTyped
      <4>2. row \in st .. st + SCREEN_SPLIT_TXT_ROWS - 1 /\ LineOf(t, row) = SCREEN_SPLIT_TXT_ROW + row - st
        BY <3>2, <4>1 DEF Window, LineIn
      <4>3. QED BY <4>1, <4>2, ScreenSizes DEF SCREEN_SPLIT_TXT_ROW, Rows
    <3>6. QED BY <1>4, <3>1, <3>4, <3>5
  <2>3. QED BY <2>1, <2>2
<1>6. ASSUME NEW y \in Rows
      PROVE  CASE t.mode = "GFX" -> Shown(t, y) \in {Picture, BlankRow}
               [] t.mode = "SPLIT" -> (Shown(t, y) = Picture) = (y < SCREEN_SPLIT_TXT_ROW)
               [] OTHER -> Shown(t, y) # Picture
  <2>1. CASE t.mode = "GFX"
    <3>1. Shown(t, y) \in {Picture, BlankRow}
      BY <1>3, <1>4, <2>1 DEF Faces
    <3>2. QED BY <2>1, <3>1
  <2>2. CASE t.mode = "SPLIT"
    <3>1. IF y < SCREEN_SPLIT_TXT_ROW THEN Shown(t, y) = Picture ELSE Shown(t, y) \in TextLines
      BY <1>3, <1>4, <2>2 DEF Faces, UnderPicture
    <3>2. (Shown(t, y) = Picture) = (y < SCREEN_SPLIT_TXT_ROW)
      BY <3>1, Letters
    <3>3. QED BY <2>2, <3>2
  <2>3. CASE t.mode = "TXT"
    <3>1. Shown(t, y) = t.buf[y] /\ t.buf[y] \in TextLines
      BY <1>3, <1>4, <2>3 DEF Faces, TextTyped
    <3>2. Shown(t, y) # Picture
      BY <3>1, Letters
    <3>3. QED BY <2>3, <3>2
  <2>4. QED BY <1>3, <2>1, <2>2, <2>3 DEF TextTyped
<1>7. /\ \A row \in Rows : Displayed(s.t, row) /\ ~s.t.stray =>
           \A c \in Columns :
             \/ Shown(s.t, LineOf(s.t, row))[c] = s.t.buf[row][c]
             \/ Shown(s.t, LineOf(s.t, row))[c] = Blank /\ s.t.mode = "SPLIT" /\ row \in s.t.dirty
      /\ \A y \in Rows :
           CASE s.t.mode = "GFX" -> Shown(s.t, y) \in {Picture, BlankRow}
             [] s.t.mode = "SPLIT" -> (Shown(s.t, y) = Picture) = (y < SCREEN_SPLIT_TXT_ROW)
             [] OTHER -> Shown(s.t, y) # Picture
  BY <1>2, <1>5, <1>6
<1>8. /\ ShowsAsMapped(s.t) => \A row \in Rows : Displayed(s.t, row) /\ ~s.t.stray =>
           \A c \in Columns :
             \/ Shown(s.t, LineOf(s.t, row))[c] = s.t.buf[row][c]
             \/ Shown(s.t, LineOf(s.t, row))[c] = Blank /\ s.t.mode = "SPLIT" /\ row \in s.t.dirty
      /\ ShowsAsMapped(s.t) => \A y \in Rows :
           CASE s.t.mode = "GFX" -> Shown(s.t, y) \in {Picture, BlankRow}
             [] s.t.mode = "SPLIT" -> (Shown(s.t, y) = Picture) = (y < SCREEN_SPLIT_TXT_ROW)
             [] OTHER -> Shown(s.t, y) # Picture
  BY <1>7
<1>9. QED BY <1>1, <1>8 DEF TextTrue

\* Whatever is printed, typed, cleared or scrolled, in whichever mode, the LCD shows
\* the text buffer through the hardware's scrolled memory, and the picture above it.
THEOREM TextAlwaysTrue == Spec => []TextTrue
<1>1. Spec => []TextInv
  BY InitTextInv, StepTextInv, PTL DEF Spec
<1>2. QED BY <1>1, TextInvTrue, PTL

\* The state is what the variables are meant to hold.
THEOREM ConsoleTypeCorrect == Spec => []TypeOK
<1>1. Spec => []TextInv
  BY InitTextInv, StepTextInv, PTL DEF Spec
<1>2. QED BY <1>1, TextInvType, PTL

=============================================================================
