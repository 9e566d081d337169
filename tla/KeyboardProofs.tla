--------------------------- MODULE KeyboardProofs ---------------------------
(***************************************************************************)
(* Proofs about Keyboard, for every set of keys, number of bitmap words    *)
(* and size of queue, ring and drain.                                      *)
(***************************************************************************)
EXTENDS Keyboard, SequenceTheorems, WellFoundedInduction, TLAPS

-----------------------------------------------------------------------------
(* Sequences of events: the last one about a key says whether it is held.  *)

\* A non-empty set of positions has a last one.
LEMMA LastExists ==
  ASSUME NEW n \in Nat, NEW S \in SUBSET (1 .. n), S # {}
  PROVE  \E i \in S : \A j \in S : j <= i
<1> DEFINE T == {k \in Nat : n - k \in S}
<1>1. IsWellFoundedOn(OpToRel(<, Nat), Nat)
  BY NatLessThanWellFounded
<1>2. T # {}
  <2>1. PICK i \in S : TRUE
    OBVIOUS
  <2>2. n - i \in T
    BY <2>1
  <2>3. QED BY <2>2
<1>3. PICK k \in T : \A m \in T : ~ (<<m, k>> \in OpToRel(<, Nat))
  BY <1>1, <1>2, WFMin, T \subseteq Nat
<1>4. \A m \in T : k <= m
  <2>1. SUFFICES ASSUME NEW m \in T, m < k PROVE FALSE
    OBVIOUS
  <2>2. m \in Nat /\ k \in Nat
    OBVIOUS
  <2>3. <<m, k>> \in OpToRel(<, Nat)
    BY <2>1, <2>2 DEF OpToRel
  <2>4. QED BY <1>3, <2>3
<1>5. \A j \in S : n - j \in T /\ j = n - (n - j)
  OBVIOUS
<1>6. n - k \in S /\ \A j \in S : j <= n - k
  BY <1>4, <1>5
<1>7. QED BY <1>6

About(s, code) == {i \in 1 .. Len(s) : StateCode(s[i].code) = code}

\* Whether a key is held once the events of s have been applied to the bitmap d.
HeldAfter(s, d, code) ==
    IF About(s, code) = {} THEN code \in d
    ELSE s[CHOOSE i \in About(s, code) : \A j \in About(s, code) : j <= i].state # "released"

Applied(d, e) == (d \cup Presses(e)) \ Releases(e)

LEMMA HeldAgreesIs ==
  HeldAgrees <=> \A code \in Watched : code \in told <=> HeldAfter(InFlight, down, code)
BY DEF HeldAgrees, HeldAfter, About

LEMMA LastDecides ==
  ASSUME NEW s \in Seq(Events), NEW d, NEW code,
         NEW i \in About(s, code), \A j \in About(s, code) : j <= i
  PROVE  HeldAfter(s, d, code) <=> s[i].state # "released"
<1>1. \A k \in About(s, code) : (\A j \in About(s, code) : j <= k) => k = i
  BY DEF About
<1>2. i = CHOOSE k \in About(s, code) : \A j \in About(s, code) : j <= k
  BY <1>1
<1>3. QED BY <1>2 DEF HeldAfter

\* What an event does to the key it is about, and to the others.
LEMMA AppliedIs ==
  ASSUME NEW e \in Events, NEW d, NEW code \in Watched
  PROVE  code \in Applied(d, e) <=>
            IF StateCode(e.code) = code THEN e.state # "released" ELSE code \in d
BY DEF Applied, Presses, Releases

\* An event queued behind the others decides about its key and no other.
LEMMA HeldAppend ==
  ASSUME NEW s \in Seq(Events), NEW e \in Events, NEW d, NEW code
  PROVE  HeldAfter(Append(s, e), d, code) <=>
            IF StateCode(e.code) = code THEN e.state # "released" ELSE HeldAfter(s, d, code)
<1> DEFINE t == Append(s, e)
<1>1. /\ t \in Seq(Events) /\ Len(s) \in Nat /\ Len(t) = Len(s) + 1
      /\ \A i \in 1 .. Len(s) : t[i] = s[i]
      /\ t[Len(s) + 1] = e
  BY AppendProperties, LenProperties
<1> HIDE DEF t
<1>2. CASE StateCode(e.code) = code
  <2>1. Len(t) \in About(t, code) /\ \A j \in About(t, code) : j <= Len(t)
    BY <1>1, <1>2 DEF About
  <2>2. QED BY <1>1, <1>2, <2>1, LastDecides DEF t
<1>3. CASE StateCode(e.code) # code
  <2>1. About(t, code) = About(s, code)
    BY <1>1, <1>3 DEF About
  <2>2. CASE About(s, code) = {}
    BY <1>3, <2>1, <2>2 DEF HeldAfter, t
  <2>3. CASE About(s, code) # {}
    <3>1. PICK i \in About(s, code) : \A j \in About(s, code) : j <= i
      BY <1>1, <2>3, LastExists DEF About
    <3>2. s[i] = t[i]
      BY <1>1 DEF About
    <3>3. HeldAfter(s, d, code) <=> s[i].state # "released"
      BY <3>1, LastDecides
    <3>4. HeldAfter(t, d, code) <=> t[i].state # "released"
      BY <1>1, <2>1, <3>1, LastDecides
    <3>5. QED BY <1>3, <3>2, <3>3, <3>4 DEF t
  <2>4. QED BY <2>2, <2>3
<1>4. QED BY <1>2, <1>3

\* Applying the oldest event to the bitmap does not change what the rest leave.
LEMMA HeldTail ==
  ASSUME NEW s \in Seq(Events), s # <<>>, NEW d, NEW code \in Watched
  PROVE  HeldAfter(Tail(s), Applied(d, Head(s)), code) <=> HeldAfter(s, d, code)
<1> DEFINE t == Tail(s)
<1>1. /\ t \in Seq(Events) /\ Len(s) \in Nat \ {0} /\ Len(t) = Len(s) - 1
      /\ \A i \in 1 .. Len(t) : t[i] = s[i + 1]
      /\ Head(s) \in Events /\ s[1] = Head(s)
  BY HeadTailProperties, EmptySeq
<1> HIDE DEF t
<1>2. CASE About(t, code) # {}
  <2> About(t, code) \in SUBSET (1 .. Len(t)) /\ Len(t) \in Nat
    BY <1>1 DEF About
  <2>1. PICK k \in About(t, code) : \A j \in About(t, code) : j <= k
    BY <1>2, LastExists
  <2>2. k + 1 \in About(s, code)
    <3>1. k \in 1 .. Len(t) /\ StateCode(t[k].code) = code
      BY DEF About
    <3>2. k + 1 \in 1 .. Len(s) /\ s[k + 1] = t[k]
      BY <1>1, <3>1
    <3>3. QED BY <3>1, <3>2 DEF About
  <2>3. ASSUME NEW j \in About(s, code), j > k + 1 PROVE FALSE
    <3>1. j - 1 \in About(t, code)
      <4>1. j \in 1 .. Len(s) /\ StateCode(s[j].code) = code /\ k \in 1 .. Len(t)
        BY DEF About
      <4>2. j - 1 \in 1 .. Len(t) /\ (j - 1) + 1 = j
        BY <1>1, <2>3, <4>1
      <4>3. t[j - 1] = s[j]
        BY <1>1, <4>2
      <4>4. QED BY <4>1, <4>2, <4>3 DEF About
    <3>2. QED BY <2>1, <2>3, <3>1 DEF About
  <2>4. \A j \in About(s, code) : j <= k + 1
    BY <2>3 DEF About
  <2>5. HeldAfter(s, d, code) <=> s[k + 1].state # "released"
    BY <2>2, <2>4, LastDecides
  <2>6. HeldAfter(t, Applied(d, Head(s)), code) <=> t[k].state # "released"
    BY <1>1, <2>1, LastDecides
  <2>7. QED BY <1>1, <2>5, <2>6 DEF About, t
<1>3. CASE About(t, code) = {}
  <2>1. HeldAfter(t, Applied(d, Head(s)), code) <=> code \in Applied(d, Head(s))
    BY <1>3 DEF HeldAfter
  <2>2. \A i \in About(s, code) : i = 1
    <3>1. SUFFICES ASSUME NEW i \in About(s, code), i # 1 PROVE FALSE
      OBVIOUS
    <3>2. i - 1 \in About(t, code)
      BY <1>1, <3>1 DEF About
    <3>3. QED BY <1>3, <3>2
  <2>3. CASE StateCode(Head(s).code) = code
    <3>1. 1 \in About(s, code)
      BY <1>1, <2>3 DEF About
    <3>2. HeldAfter(s, d, code) <=> s[1].state # "released"
      BY <2>2, <3>1, LastDecides
    <3>3. QED BY <1>1, <2>1, <2>3, <3>2, AppliedIs DEF t
  <2>4. CASE StateCode(Head(s).code) # code
    <3>1. About(s, code) = {}
      BY <1>1, <2>2, <2>4 DEF About
    <3>2. HeldAfter(s, d, code) <=> code \in d
      BY <3>1 DEF HeldAfter
    <3>3. QED BY <1>1, <2>1, <2>4, <3>2, AppliedIs DEF t
  <2>5. QED BY <2>3, <2>4
<1>4. QED BY <1>2, <1>3

-----------------------------------------------------------------------------
(* The ring.                                                               *)

Chars == {<<>>} \cup ((Codes \cup {Return}) \X BOOLEAN)
Rings == [0 .. RingSize - 1 -> Chars]

\* The characters between two indices of a ring, oldest first.
Waiting(r, h, t) ==
    [i \in 1 .. (h - t + RingSize) % RingSize |-> r[(t + i - 1) % RingSize]]

LEMMA BufferedIs == Buffered = Waiting(ring, head, tail)
BY DEF Buffered, Waiting

LEMMA Modulo ==
  ASSUME NEW N \in Nat \ {0}, NEW a \in Nat, a < 2 * N
  PROVE  a % N = IF a < N THEN a ELSE a - N
<1>1. CASE a < N
  BY <1>1
<1>2. CASE a >= N
  BY <1>2
<1>3. QED BY <1>1, <1>2

LEMMA StepIs ==
  ASSUME NEW h \in 0 .. RingSize - 1
  PROVE  Step(h) = (IF h = RingSize - 1 THEN 0 ELSE h + 1) /\ Step(h) \in 0 .. RingSize - 1
<1>1. RingSize \in Nat \ {0, 1} /\ h \in Nat /\ h + 1 \in Nat /\ h + 1 < 2 * RingSize
  BY KeyboardAssumption
<1>2. PICK a \in Nat : a = h + 1
  BY <1>1
<1>3. a % RingSize = IF a < RingSize THEN a ELSE a - RingSize
  BY <1>1, <1>2, Modulo
<1>4. QED BY <1>1, <1>2, <1>3 DEF Step

LEMMA WaitingIs ==
  ASSUME NEW r \in Rings, NEW h \in 0 .. RingSize - 1, NEW t \in 0 .. RingSize - 1
  PROVE  /\ Waiting(r, h, t) \in Seq(Chars)
         /\ Len(Waiting(r, h, t)) = IF t <= h THEN h - t ELSE h - t + RingSize
         /\ Len(Waiting(r, h, t)) \in 0 .. RingSize - 1
         /\ \A i \in 1 .. Len(Waiting(r, h, t)) :
               Waiting(r, h, t)[i] =
                  r[IF t + i - 1 < RingSize THEN t + i - 1 ELSE t + i - 1 - RingSize]
         /\ Waiting(r, h, t) = <<>> <=> h = t
<1>1. RingSize \in Nat \ {0, 1}
  BY KeyboardAssumption
<1> DEFINE n == IF t <= h THEN h - t ELSE h - t + RingSize
<1>2. n \in 0 .. RingSize - 1 /\ (n = 0 <=> h = t)
  BY <1>1
<1>3. (h - t + RingSize) % RingSize = n
  <2>1. h - t + RingSize \in Nat /\ h - t + RingSize < 2 * RingSize
    BY <1>1
  <2>2. PICK a \in Nat : a = h - t + RingSize
    BY <2>1
  <2>3. a % RingSize = IF a < RingSize THEN a ELSE a - RingSize
    BY <1>1, <2>1, <2>2, Modulo
  <2>4. QED BY <1>1, <2>2, <2>3
<1>4. ASSUME NEW i \in 1 .. n
      PROVE  /\ (t + i - 1) % RingSize =
                   IF t + i - 1 < RingSize THEN t + i - 1 ELSE t + i - 1 - RingSize
             /\ (t + i - 1) % RingSize \in 0 .. RingSize - 1
  <2>1. t + i - 1 \in Nat /\ t + i - 1 < 2 * RingSize
    BY <1>1, <1>2
  <2>2. PICK a \in Nat : a = t + i - 1
    BY <2>1
  <2>3. a % RingSize = IF a < RingSize THEN a ELSE a - RingSize
    BY <1>1, <2>1, <2>2, Modulo
  <2>4. QED BY <1>1, <2>1, <2>2, <2>3
<1>5. Waiting(r, h, t) = [i \in 1 .. n |-> r[(t + i - 1) % RingSize]]
  BY <1>3 DEF Waiting
<1> HIDE DEF n
<1>6. \A i \in 1 .. n : r[(t + i - 1) % RingSize] \in Chars
  BY <1>4 DEF Rings
<1>7. Waiting(r, h, t) \in [1 .. n -> Chars]
  BY <1>5, <1>6
<1>8. Waiting(r, h, t) \in Seq(Chars) /\ Len(Waiting(r, h, t)) = n
  BY <1>2, <1>7, SeqDef
<1>9. \A i \in 1 .. n : Waiting(r, h, t)[i] = r[(t + i - 1) % RingSize]
  BY <1>5
<1>10. Waiting(r, h, t) = <<>> <=> n = 0
  BY <1>2, <1>8, EmptySeq
<1>11. QED BY <1>2, <1>4, <1>8, <1>9, <1>10 DEF n

\* A character pushed into a ring with room joins the end; a ring without room
\* already holds all it can.
LEMMA Pushing ==
  ASSUME NEW r \in Rings, NEW h \in 0 .. RingSize - 1, NEW t \in 0 .. RingSize - 1,
         NEW c \in Chars
  PROVE  /\ Step(h) = t => Len(Waiting(r, h, t)) = RingSize - 1
         /\ Step(h) # t => /\ Len(Waiting(r, h, t)) < RingSize - 1
                           /\ Waiting([r EXCEPT ![h] = c], Step(h), t)
                                 = Append(Waiting(r, h, t), c)
<1>1. RingSize \in Nat \ {0, 1}
  BY KeyboardAssumption
<1>2. PICK q \in Rings : q = [r EXCEPT ![h] = c]
  BY DEF Rings
<1>3. PICK g \in 0 .. RingSize - 1 : g = Step(h) /\ g = IF h = RingSize - 1 THEN 0 ELSE h + 1
  BY StepIs
<1> DEFINE u == Waiting(r, h, t)
           v == Waiting(q, g, t)
<1>4. /\ u \in Seq(Chars) /\ Len(u) \in 0 .. RingSize - 1
      /\ Len(u) = IF t <= h THEN h - t ELSE h - t + RingSize
      /\ \A i \in 1 .. Len(u) :
            u[i] = r[IF t + i - 1 < RingSize THEN t + i - 1 ELSE t + i - 1 - RingSize]
  BY WaitingIs
<1>5. /\ v \in Seq(Chars)
      /\ Len(v) = IF t <= g THEN g - t ELSE g - t + RingSize
      /\ \A i \in 1 .. Len(v) :
            v[i] = q[IF t + i - 1 < RingSize THEN t + i - 1 ELSE t + i - 1 - RingSize]
  BY WaitingIs
<1> HIDE DEF u, v
<1>6. CASE g = t
  BY <1>1, <1>3, <1>4, <1>6 DEF u
<1>7. CASE g # t
  <2>1. Len(u) \in Nat /\ Len(u) < RingSize - 1 /\ Len(v) = Len(u) + 1
    BY <1>1, <1>3, <1>4, <1>5, <1>7
  <2>5. ASSUME NEW i \in 1 .. Len(u) PROVE v[i] = u[i]
    <3> DEFINE k == IF t + i - 1 < RingSize THEN t + i - 1 ELSE t + i - 1 - RingSize
    <3>1. k # h /\ k \in 0 .. RingSize - 1
      BY <1>1, <1>4, <2>1
    <3>2. i \in 1 .. Len(v)
      BY <2>1
    <3>3. u[i] = r[k] /\ v[i] = q[k]
      BY <1>4, <1>5, <3>2
    <3> HIDE DEF k
    <3>4. QED BY <1>2, <3>1, <3>3 DEF Rings
  <2>6. v[Len(u) + 1] = c
    <3>1. h = IF t + Len(u) < RingSize THEN t + Len(u) ELSE t + Len(u) - RingSize
      BY <1>1, <1>4, <2>1
    <3>2. Len(u) + 1 \in 1 .. Len(v) /\ t + (Len(u) + 1) - 1 = t + Len(u)
      BY <2>1
    <3>3. v[Len(u) + 1] = q[h]
      BY <1>5, <3>1, <3>2
    <3>4. QED BY <1>2, <3>3 DEF Rings
  <2>7. /\ Append(u, c) \in Seq(Chars) /\ Len(Append(u, c)) = Len(u) + 1
        /\ \A i \in 1 .. Len(u) : Append(u, c)[i] = u[i]
        /\ Append(u, c)[Len(u) + 1] = c
    BY <1>4, AppendProperties
  <2>8. \A i \in 1 .. Len(v) : v[i] = Append(u, c)[i]
    BY <2>1, <2>5, <2>6, <2>7
  <2>9. v = Append(u, c)
    BY <1>4, <1>5, <2>1, <2>7, <2>8, SeqEqual
  <2>10. QED BY <1>2, <1>3, <1>7, <2>1, <2>9 DEF u, v
<1>8. QED BY <1>6, <1>7

\* A character taken is the oldest, and the rest follow in their order.
LEMMA Taking ==
  ASSUME NEW r \in Rings, NEW h \in 0 .. RingSize - 1, NEW t \in 0 .. RingSize - 1,
         h # t
  PROVE  /\ Waiting(r, h, t) # <<>>
         /\ Head(Waiting(r, h, t)) = r[t]
         /\ Waiting(r, h, Step(t)) = Tail(Waiting(r, h, t))
<1>1. RingSize \in Nat \ {0, 1}
  BY KeyboardAssumption
<1>2. PICK g \in 0 .. RingSize - 1 : g = Step(t) /\ g = IF t = RingSize - 1 THEN 0 ELSE t + 1
  BY StepIs
<1> DEFINE u == Waiting(r, h, t)
           v == Waiting(r, h, g)
<1>3. /\ u \in Seq(Chars) /\ Len(u) \in 0 .. RingSize - 1 /\ (u = <<>> <=> h = t)
      /\ Len(u) = IF t <= h THEN h - t ELSE h - t + RingSize
      /\ \A i \in 1 .. Len(u) :
            u[i] = r[IF t + i - 1 < RingSize THEN t + i - 1 ELSE t + i - 1 - RingSize]
  BY WaitingIs
<1>4. /\ v \in Seq(Chars)
      /\ Len(v) = IF g <= h THEN h - g ELSE h - g + RingSize
      /\ \A i \in 1 .. Len(v) :
            v[i] = r[IF g + i - 1 < RingSize THEN g + i - 1 ELSE g + i - 1 - RingSize]
  BY WaitingIs
<1> HIDE DEF u, v
<1>5. Len(u) \in 1 .. RingSize - 1 /\ Len(v) = Len(u) - 1
  BY <1>1, <1>2, <1>3, <1>4
<1>6. u[1] = r[t]
  BY <1>1, <1>3, <1>5
<1>7. ASSUME NEW i \in 1 .. Len(v) PROVE v[i] = u[i + 1]
  <2>1. (IF g + i - 1 < RingSize THEN g + i - 1 ELSE g + i - 1 - RingSize)
           = IF t + (i + 1) - 1 < RingSize THEN t + (i + 1) - 1 ELSE t + (i + 1) - 1 - RingSize
    BY <1>1, <1>2, <1>5
  <2>2. i + 1 \in 1 .. Len(u)
    BY <1>5
  <2>3. QED BY <1>3, <1>4, <2>1, <2>2
<1>8. /\ Tail(u) \in Seq(Chars) /\ Len(Tail(u)) = Len(u) - 1 /\ Head(u) = u[1]
      /\ \A i \in 1 .. Len(Tail(u)) : Tail(u)[i] = u[i + 1]
  BY <1>3, HeadTailProperties
<1>9. v = Tail(u)
  BY <1>4, <1>5, <1>7, <1>8, SeqEqual
<1>10. QED BY <1>2, <1>3, <1>6, <1>8, <1>9 DEF u, v

-----------------------------------------------------------------------------
(* The inductive invariant.  Beside the bounds it says who may touch the   *)
(* bitmaps: while the thread is inside the driver no handler runs, and the *)
(* presses of the words already handed over are gone from the pending ones.*)

TypeInv ==
    /\ TypeOK
    /\ ring \in Rings
    /\ Len(event) = IF pc = "decode" THEN 1 ELSE 0
    /\ event \in Seq(Events)
    /\ after \in {"eval", "check", "copy"}

Owned ==
    pc \in {"drain", "decode", "copy", "clear", "flush"} => pollBusy /\ irqLeft = 0

Handover ==
    /\ word # 1 => pc \in {"copy", "clear"}
    /\ pc \in {"copy", "clear"} => \A i \in 1 .. word - 1 : pending \cap Word(i) = {}
    /\ pc = "flush" => pending = {}

KeyInv == TypeInv /\ Owned /\ Handover /\ HeldAgrees /\ InHand

LEMMA EventTypes ==
  ASSUME NEW e \in Events, NEW ctl \in BOOLEAN
  PROVE  /\ Presses(e) \subseteq Watched /\ Releases(e) \subseteq Watched
         /\ Shifts(e, ctl) \in BOOLEAN
         /\ Types(e, ctl) = <<>> \/ \E c \in Chars : Types(e, ctl) = <<c>>
<1>1. StateCode(e.code) \in Codes \cup {Return}
  BY DEF StateCode, Events
<1>2. <<StateCode(e.code), ctl /\ e.code \in Foldable>> \in Chars
  BY <1>1 DEF Chars
<1> HIDE DEF Chars
<1>3. QED BY <1>2 DEF Presses, Releases, Shifts, Types

\* What decoding an event leaves: the types, and the characters waiting.
LEMMA Decoding ==
  ASSUME TypeInv, NEW e \in Events, Decode(e)
  PROVE  /\ pending' = pending \cup (Presses(e) \ down) /\ pending' \subseteq Watched
         /\ down' = Applied(down, e) /\ down' \subseteq Watched
         /\ control' = Shifts(e, control) /\ control' \in BOOLEAN
         /\ interrupt' \in BOOLEAN /\ requests' \subseteq RequestKeys
         /\ mode' \in ModeKeys \cup {"none"} /\ window' \in {"none", "thread"}
         /\ ring' \in Rings /\ head' \in 0 .. RingSize - 1
         /\ UNCHANGED <<latched, tail, inputActive>>
         /\ Buffered' = IF Len(Buffered) < RingSize - 1
                        THEN Buffered \o Types(e, control) ELSE Buffered
<1>1. /\ head \in 0 .. RingSize - 1 /\ tail \in 0 .. RingSize - 1 /\ ring \in Rings
      /\ control \in BOOLEAN /\ pending \subseteq Watched /\ down \subseteq Watched
      /\ interrupt \in BOOLEAN /\ requests \subseteq RequestKeys
      /\ mode \in ModeKeys \cup {"none"} /\ window \in {"none", "thread"}
  BY DEF TypeInv, TypeOK
<1>2. /\ Presses(e) \subseteq Watched /\ Releases(e) \subseteq Watched
      /\ Shifts(e, control) \in BOOLEAN
      /\ Types(e, control) = <<>> \/ \E c \in Chars : Types(e, control) = <<c>>
  BY <1>1, EventTypes
<1>3. /\ pending' = pending \cup (Presses(e) \ down) /\ pending' \subseteq Watched
      /\ down' = Applied(down, e) /\ down' \subseteq Watched
      /\ control' = Shifts(e, control) /\ control' \in BOOLEAN
      /\ UNCHANGED <<latched, tail, inputActive>>
  BY <1>1, <1>2 DEF Decode, Applied
<1>4. interrupt' \in BOOLEAN /\ requests' \subseteq RequestKeys
  BY <1>1 DEF Decode, TakeInterrupt, TakeRequest
<1>5. mode' \in ModeKeys \cup {"none"} /\ window' \in {"none", "thread"}
  BY <1>1 DEF Decode, TakeModeKey, HandleModeKey, screen
<1>6. Buffered \in Seq(Chars) /\ Len(Buffered) \in 0 .. RingSize - 1
  BY <1>1, BufferedIs, WaitingIs
<1>7. Buffered' = Waiting(ring', head', tail)
  BY <1>3 DEF Buffered, Waiting
<1>8. CASE Types(e, control) = <<>>
  <2>1. UNCHANGED <<ring, head>>
    BY <1>8 DEF Decode, TakeCharacters
  <2>2. Buffered \o <<>> = Buffered
    BY <1>6, ConcatEmptySeq
  <2>3. Buffered' = Buffered
    BY <1>7, <2>1, BufferedIs
  <2>4. QED BY <1>1, <1>3, <1>4, <1>5, <1>8, <2>1, <2>2, <2>3
<1>9. CASE Types(e, control) # <<>>
  <2>1. PICK c \in Chars : Types(e, control) = <<c>>
    BY <1>2, <1>9
  <2>2. Push(c)
    BY <1>9, <2>1 DEF Decode, TakeCharacters
  <2>3. CASE Step(head) = tail
    <3>1. UNCHANGED <<ring, head>> /\ Buffered' = Buffered
      BY <1>7, <2>2, <2>3, BufferedIs DEF Push
    <3>2. Len(Buffered) = RingSize - 1
      BY <1>1, <2>3, BufferedIs, Pushing
    <3>3. QED BY <1>1, <1>3, <1>4, <1>5, <3>1, <3>2, KeyboardAssumption
  <2>4. CASE Step(head) # tail
    <3>1. ring' = [ring EXCEPT ![head] = c] /\ head' = Step(head)
      BY <2>2, <2>4 DEF Push
    <3>2. Len(Buffered) < RingSize - 1 /\ Buffered' = Append(Buffered, c)
      BY <1>1, <1>7, <2>4, <3>1, BufferedIs, Pushing
    <3>3. Append(Buffered, c) = Buffered \o <<c>>
      BY <1>6, AppendIsConcat
    <3>4. ring' \in Rings /\ head' \in 0 .. RingSize - 1
      BY <1>1, <3>1, StepIs DEF Rings
    <3>5. QED BY <1>3, <1>4, <1>5, <2>1, <3>2, <3>3, <3>4
  <2>5. QED BY <2>3, <2>4
<1>10. QED BY <1>8, <1>9

\* Characters in waiting keep their head while others join.
LEMMA HeadStays ==
  ASSUME NEW s \in Seq(Chars), s # <<>>, NEW t, t = <<>> \/ \E c \in Chars : t = <<c>>
  PROVE  s \o t # <<>> /\ Head(s \o t) = Head(s)
<1>1. t \in Seq(Chars)
  <2>1. CASE t = <<>>
    BY <2>1, EmptySeq
  <2>2. ASSUME NEW c \in Chars, t = <<c>> PROVE t \in Seq(Chars)
    <3> HIDE DEF Chars
    <3>1. QED BY <2>2
  <2>3. QED BY <2>1, <2>2
<1>2. s \o t \in Seq(Chars) /\ Len(s \o t) = Len(s) + Len(t) /\ Len(s) \in Nat \ {0}
      /\ Len(t) \in Nat /\ (s \o t)[1] = s[1]
  BY <1>1, ConcatProperties, EmptySeq, LenProperties
<1>3. s \o t # <<>>
  BY <1>2, EmptySeq
<1>4. QED BY <1>2, <1>3

LEMMA EmptyIs ==
  ASSUME NEW S, NEW s \in Seq(S)
  PROVE  s = <<>> <=> Len(s) = 0
<1>1. s = <<>> => Len(s) = 0
  BY EmptySeq
<1>2. s # <<>> => Len(s) # 0
  BY EmptySeq
<1>3. QED BY <1>1, <1>2

\* The events on their way, and the thread's hold on the oldest.
LEMMA Flying ==
  ASSUME TypeInv
  PROVE  /\ InFlight \in Seq(Events) /\ Len(InFlight) = Len(event) + Len(fifo)
         /\ event = <<>> => InFlight = fifo
         /\ event = <<>> <=> pc # "decode"
         /\ pc = "decode" => /\ InFlight # <<>> /\ event[1] \in Events
                             /\ Head(InFlight) = event[1] /\ Tail(InFlight) = fifo
<1>1. event \in Seq(Events) /\ fifo \in Seq(Events) /\ Len(event) = IF pc = "decode" THEN 1 ELSE 0
  BY DEF TypeInv, TypeOK
<1>2. InFlight \in Seq(Events) /\ Len(InFlight) = Len(event) + Len(fifo)
  BY <1>1, ConcatProperties DEF InFlight
<1>3. event = <<>> => InFlight = fifo
  BY <1>1, ConcatEmptySeq DEF InFlight
<1>4. event = <<>> <=> pc # "decode"
  BY <1>1, EmptyIs
<1>5. ASSUME pc = "decode"
      PROVE  /\ InFlight # <<>> /\ event[1] \in Events
             /\ Head(InFlight) = event[1] /\ Tail(InFlight) = fifo
  <2>1. Len(event) = 1 /\ Len(fifo) \in Nat /\ event[1] \in Events
    <3>1. Len(event) = 1 /\ Len(fifo) \in Nat
      BY <1>1, <1>5, LenProperties
    <3>2. 1 \in 1 .. Len(event)
      BY <3>1
    <3>3. event[1] \in Events
      BY <1>1, <3>2, ElementOfSeq
    <3>4. QED BY <3>1, <3>3
  <2>2. InFlight # <<>>
    BY <1>2, <2>1, EmptyIs
  <2>3. \A i \in 1 .. Len(fifo) + 1 : InFlight[i] = IF i <= 1 THEN event[i] ELSE fifo[i - 1]
    <3>1. \A i \in 1 .. Len(event) + Len(fifo) :
             InFlight[i] = IF i <= Len(event) THEN event[i] ELSE fifo[i - Len(event)]
      BY <1>1, ConcatProperties DEF InFlight
    <3>2. QED BY <2>1, <3>1
  <2>4. /\ Tail(InFlight) \in Seq(Events) /\ Len(Tail(InFlight)) = Len(fifo)
        /\ \A i \in 1 .. Len(fifo) : Tail(InFlight)[i] = InFlight[i + 1]
        /\ Head(InFlight) = InFlight[1]
    BY <1>2, <2>1, <2>2, HeadTailProperties
  <2>5. \A i \in 1 .. Len(fifo) : Tail(InFlight)[i] = fifo[i]
    BY <2>1, <2>3, <2>4
  <2>6. Tail(InFlight) = fifo
    BY <1>1, <2>4, <2>5, SeqEqual
  <2>7. QED BY <2>1, <2>2, <2>3, <2>4, <2>6
<1>6. QED BY <1>2, <1>3, <1>4, <1>5

\* A step that leaves the events and the bitmap alone leaves their agreement.
LEMMA HeldSame ==
  ASSUME HeldAgrees, UNCHANGED <<told, fifo, event, down>>
  PROVE  HeldAgrees'
<1>1. InFlight' = InFlight
  BY DEF InFlight
<1>2. HeldAgrees' <=> \A code \in Watched : code \in told' <=> HeldAfter(InFlight', down', code)
  BY DEF HeldAgrees, HeldAfter, About
<1>3. QED BY <1>1, <1>2, HeldAgreesIs

\* Applying the oldest event in flight keeps the agreement.
LEMMA HeldApplied ==
  ASSUME TypeInv, HeldAgrees, told' = told, InFlight # <<>>,
         down' = Applied(down, Head(InFlight)), InFlight' = Tail(InFlight)
  PROVE  HeldAgrees'
<1>1. InFlight \in Seq(Events)
  BY Flying
<1>2. \A code \in Watched : code \in told <=> HeldAfter(InFlight, down, code)
  BY HeldAgreesIs
<1>3. ASSUME NEW code \in Watched
      PROVE  code \in told' <=> HeldAfter(InFlight', down', code)
  BY <1>1, <1>2, HeldTail
<1>4. HeldAgrees' <=> \A code \in Watched : code \in told' <=> HeldAfter(InFlight', down', code)
  BY DEF HeldAgrees, HeldAfter, About
<1>5. QED BY <1>3, <1>4

-----------------------------------------------------------------------------
(* One lemma for each actor.                                               *)

LEMMA FingerKeeps ==
  ASSUME KeyInv, Finger
  PROVE  KeyInv' /\ \E e \in Events : InFlight' = Append(InFlight, e)
<1>1. TypeInv /\ HeldAgrees
  BY DEF KeyInv
<1>2. PICK e \in Events : fifo' = Append(fifo, e) /\ told' = (told \cup Presses(e)) \ Releases(e)
  BY DEF Finger, Sendable
<1>3. /\ Len(fifo) < FifoSize
      /\ UNCHANGED <<bitmaps, control, buffer, flags, locks, pc, loop, char, screen>>
  BY DEF Finger
<1>4. fifo \in Seq(Events) /\ event \in Seq(Events) /\ told \subseteq Watched
  BY <1>1 DEF TypeInv, TypeOK
<1>5. TypeInv'
  <2>1. fifo' \in Seq(Events) /\ Len(fifo') = Len(fifo) + 1 /\ Len(fifo) \in Nat
    BY <1>2, <1>4, AppendProperties, LenProperties
  <2>2. Len(fifo') <= FifoSize
    BY <1>3, <2>1, KeyboardAssumption
  <2>3. told' \subseteq Watched
    BY <1>2, <1>4 DEF Presses
  <2>4. UNCHANGED <<bitmaps, control, buffer, interrupt, requests, inputActive, locks, pc, loop,
                    mode, window>>
    BY <1>3 DEF flags, screen
  <2>5. TypeOK'
    <3>1. TypeOK /\ UNCHANGED <<down, pending, latched, control, head, tail, interrupt, requests,
                               inputActive, pollBusy, busInUse, irqLeft, left, event, word, pc, mode,
                               window>>
      BY <1>1, <2>4 DEF TypeInv, bitmaps, buffer, locks, loop
    <3>2. QED BY <2>1, <2>2, <2>3, <3>1 DEF TypeOK
  <2>6. QED BY <1>1, <2>4, <2>5 DEF TypeInv, buffer, loop
<1>6. InFlight' = Append(InFlight, e)
  <2>1. event' = event
    BY <1>3 DEF loop
  <2>2. <<e>> \in Seq(Events) /\ Append(fifo, e) = fifo \o <<e>>
    BY <1>4, AppendIsConcat
  <2>3. event \o (fifo \o <<e>>) = (event \o fifo) \o <<e>>
    BY <1>4, <2>2, ConcatAssociative
  <2>4. InFlight \in Seq(Events) /\ InFlight \o <<e>> = Append(InFlight, e)
    BY <1>1, Flying, AppendIsConcat
  <2>5. QED BY <1>2, <2>1, <2>2, <2>3, <2>4 DEF InFlight
<1>7. HeldAgrees'
  <2>1. \A code \in Watched : code \in told <=> HeldAfter(InFlight, down, code)
    BY <1>1, HeldAgreesIs
  <2>2. InFlight \in Seq(Events) /\ down' = down
    BY <1>1, <1>3, Flying DEF bitmaps
  <2>3. ASSUME NEW code \in Watched
        PROVE  code \in told' <=> HeldAfter(InFlight', down', code)
    BY <1>2, <1>6, <2>1, <2>2, HeldAppend, AppliedIs DEF Applied
  <2>4. HeldAgrees' <=> \A code \in Watched : code \in told' <=> HeldAfter(InFlight', down', code)
    BY DEF HeldAgrees, HeldAfter, About
  <2>5. QED BY <2>3, <2>4
<1>8. Owned' /\ Handover' /\ InHand'
  BY <1>3 DEF KeyInv, Owned, Handover, InHand, Buffered, bitmaps, buffer, locks, loop
<1>9. QED BY <1>2, <1>5, <1>6, <1>7, <1>8 DEF KeyInv

\* A handler that starts or ends changes only its count and the flag.
LEMMA HandlerTypes ==
  ASSUME TypeOK, irqLeft' \in 0 .. DrainMax /\ pollBusy' \in BOOLEAN,
         UNCHANGED <<told, fifo, down, pending, latched, control, head, tail, interrupt,
                     requests, inputActive, busInUse, pc, left, event, word, mode, window>>
  PROVE  TypeOK'
  BY DEF TypeOK

LEMMA IrqKeeps ==
  ASSUME KeyInv, Irq
  PROVE  KeyInv'
<1>1. TypeInv /\ Owned /\ Handover /\ HeldAgrees /\ InHand /\ DrainMax \in Nat \ {0}
  BY KeyboardAssumption DEF KeyInv
<1>2. CASE Tick
  <2>1. TypeInv' /\ Owned' /\ Handover' /\ InHand'
    <3>1. TypeInv'
      <4>1. irqLeft' \in 0 .. DrainMax /\ pollBusy' \in BOOLEAN
        BY <1>1, <1>2 DEF Tick
      <4>2. /\ UNCHANGED <<told, fifo, down, pending, latched, control, head, tail, interrupt,
                           requests, inputActive, busInUse, pc, left, event, word, mode, window>>
            /\ UNCHANGED <<ring, event, pc, after>>
        BY <1>2 DEF Tick, external, bitmaps, buffer, flags, loop, screen
      <4>3. TypeOK'
        BY <1>1, <4>1, <4>2, HandlerTypes DEF TypeInv
      <4>4. QED BY <1>1, <4>2, <4>3 DEF TypeInv
    <3>2. Owned' /\ Handover'
      BY <1>1, <1>2 DEF Tick, Owned, Handover, bitmaps, loop
    <3>3. InHand'
      BY <1>1, <1>2 DEF Tick, InHand, Buffered, buffer
    <3>4. QED BY <3>1, <3>2, <3>3
  <2>2. QED BY <1>1, <1>2, <2>1, HeldSame DEF KeyInv, Tick, external, bitmaps, loop
<1>3. CASE IrqPollEnds
  <2>1. TypeInv' /\ Owned' /\ Handover' /\ InHand'
    <3>1. TypeInv'
      <4>1. irqLeft' \in 0 .. DrainMax /\ pollBusy' \in BOOLEAN
        <5>1. irqLeft' = 0 /\ pollBusy' = FALSE
          BY <1>3 DEF IrqPollEnds
        <5>2. 0 \in 0 .. DrainMax
          BY KeyboardAssumption
        <5>3. QED BY <5>1, <5>2
      <4>2. /\ UNCHANGED <<told, fifo, down, pending, latched, control, head, tail, interrupt,
                           requests, inputActive, busInUse, pc, left, event, word, mode, window>>
            /\ UNCHANGED <<ring, event, pc, after>>
        BY <1>3 DEF IrqPollEnds, external, bitmaps, buffer, flags, loop, screen
      <4>3. TypeOK'
        BY <1>1, <4>1, <4>2, HandlerTypes DEF TypeInv
      <4>4. QED BY <1>1, <4>2, <4>3 DEF TypeInv
    <3>2. Owned' /\ Handover'
      BY <1>1, <1>3 DEF IrqPollEnds, Owned, Handover, bitmaps, loop
    <3>3. InHand'
      BY <1>1, <1>3 DEF IrqPollEnds, InHand, Buffered, buffer
    <3>4. QED BY <3>1, <3>2, <3>3
  <2>2. QED BY <1>1, <1>3, <2>1, HeldSame DEF KeyInv, IrqPollEnds, external, bitmaps, loop
<1>4. CASE IrqPollOnce
  <2> DEFINE e == Head(fifo)
  <2>1. /\ irqLeft > 0 /\ fifo # <<>> /\ Decode(e) /\ fifo' = Tail(fifo)
        /\ irqLeft' = irqLeft - 1 /\ pollBusy' = (irqLeft > 1)
        /\ UNCHANGED <<told, busInUse, pc, loop, char>>
    BY <1>4 DEF IrqPollOnce
  <2>2. pc \notin {"drain", "decode", "copy", "clear", "flush"}
    BY <1>1, <2>1 DEF Owned, TypeInv, TypeOK
  <2>3. event = <<>> /\ InFlight = fifo /\ fifo \in Seq(Events)
    BY <1>1, <2>2, Flying DEF TypeInv, TypeOK
  <2>4. /\ e \in Events /\ Tail(fifo) \in Seq(Events) /\ Len(Tail(fifo)) = Len(fifo) - 1
        /\ Len(fifo) \in Nat
    BY <2>1, <2>3, HeadTailProperties, LenProperties
  <2> HIDE DEF e
  <2>5. /\ pending' \subseteq Watched /\ down' = Applied(down, e) /\ down' \subseteq Watched
        /\ control' \in BOOLEAN /\ interrupt' \in BOOLEAN /\ requests' \subseteq RequestKeys
        /\ mode' \in ModeKeys \cup {"none"} /\ window' \in {"none", "thread"}
        /\ ring' \in Rings /\ head' \in 0 .. RingSize - 1
        /\ UNCHANGED <<latched, tail, inputActive>>
        /\ Buffered' = IF Len(Buffered) < RingSize - 1
                       THEN Buffered \o Types(e, control) ELSE Buffered
    BY <1>1, <2>1, <2>4, Decoding
  <2>6. TypeInv'
    <3>1. fifo' \in Seq(Events) /\ Len(fifo') <= FifoSize
      BY <1>1, <2>1, <2>4, KeyboardAssumption DEF TypeInv, TypeOK
    <3>2. irqLeft' \in 0 .. DrainMax /\ pollBusy' \in BOOLEAN
      BY <1>1, <2>1 DEF TypeInv, TypeOK
    <3>3. QED BY <1>1, <2>1, <2>5, <3>1, <3>2 DEF TypeInv, TypeOK, loop
  <2>7. Owned' /\ Handover'
    BY <1>1, <2>1, <2>2 DEF Owned, Handover, loop
  <2>8. HeldAgrees'
    <3>1. InFlight' = Tail(fifo)
      <4>1. event' = <<>>
        BY <2>1, <2>3 DEF loop
      <4>2. QED BY <2>1, <2>4, <4>1, ConcatEmptySeq DEF InFlight
    <3>2. QED BY <1>1, <2>1, <2>3, <2>5, <3>1, HeldApplied DEF e
  <2>9. InHand'
    <3>1. Buffered \in Seq(Chars)
      BY <1>1, BufferedIs, WaitingIs DEF TypeInv, TypeOK
    <3>2. Types(e, control) = <<>> \/ \E c \in Chars : Types(e, control) = <<c>>
      BY <1>1, <2>4, EventTypes DEF TypeInv, TypeOK
    <3>3. Buffered # <<>> => Buffered' # <<>> /\ Head(Buffered') = Head(Buffered)
      BY <2>5, <3>1, <3>2, HeadStays
    <3>4. QED BY <1>1, <2>1, <3>3 DEF InHand
  <2>10. QED BY <2>6, <2>7, <2>8, <2>9 DEF KeyInv
<1>5. QED BY <1>2, <1>3, <1>4 DEF Irq

\* The steps of the thread that leave the events, the bitmaps and the ring alone,
\* outside the driver.
Elsewhere == CheckFlags \/ NextInstruction \/ UseBus \/ Draw \/ StartReadChar \/ StartPeek
               \/ WaitOn \/ WaitCheck

LEMMA ElsewhereKeeps ==
  ASSUME KeyInv, Elsewhere
  PROVE  KeyInv'
<1>1. TypeInv /\ Owned /\ Handover /\ HeldAgrees /\ InHand
  BY DEF KeyInv
<1>2. UNCHANGED <<told, fifo, down, pending, latched, control, ring, head, tail, irqLeft,
                  left, event, after, word, mode>>
  BY DEF Elsewhere, CheckFlags, NextInstruction, UseBus, Draw, StartReadChar, StartPeek, WaitOn,
         WaitCheck, external, bitmaps, buffer, flags, locks, loop, screen
<1>3. /\ pc \in {"eval", "ready", "bus", "blit", "wait", "check"}
      /\ pc' \in {"eval", "ready", "bus", "blit", "wait", "check", "peek"}
  BY DEF Elsewhere, CheckFlags, NextInstruction, UseBus, Draw, StartReadChar, StartPeek, WaitOn,
         WaitCheck, Thread
<1>4. /\ requests' \subseteq RequestKeys /\ interrupt' \in BOOLEAN
      /\ inputActive' \in BOOLEAN
  <2>1. requests \subseteq RequestKeys /\ interrupt \in BOOLEAN /\ inputActive \in BOOLEAN
    BY <1>1 DEF TypeInv, TypeOK
  <2>2. /\ requests' \subseteq requests
        /\ interrupt' = interrupt \/ interrupt' = FALSE
        /\ inputActive' = inputActive \/ inputActive' = FALSE \/ inputActive' = TRUE
    BY DEF Elsewhere, CheckFlags, NextInstruction, UseBus, Draw, StartReadChar, StartPeek, WaitOn,
           WaitCheck, flags
  <2>3. QED BY <2>1, <2>2
<1>5. busInUse' \in BOOLEAN /\ pollBusy' \in BOOLEAN /\ window' \in {"none", "thread"}
  <2>1. busInUse \in BOOLEAN /\ pollBusy \in BOOLEAN /\ window \in {"none", "thread"}
    BY <1>1 DEF TypeInv, TypeOK
  <2>2. /\ pollBusy' = pollBusy
        /\ busInUse' = busInUse \/ busInUse' = FALSE \/ busInUse' = TRUE
        /\ window' = window \/ window' = "none" \/ window' = "thread"
    BY DEF Elsewhere, CheckFlags, NextInstruction, UseBus, Draw, StartReadChar, StartPeek, WaitOn,
           WaitCheck, locks, screen
  <2>3. QED BY <2>1, <2>2
<1>6. TypeInv'
  <2>1. pc # "decode" /\ pc' # "decode"
    BY <1>3
  <2>2. QED BY <1>1, <1>2, <1>3, <1>4, <1>5, <2>1 DEF TypeInv, TypeOK
<1>7. Owned' /\ Handover' /\ InHand'
  BY <1>1, <1>2, <1>3 DEF Owned, Handover, InHand
<1>8. QED BY <1>1, <1>2, <1>6, <1>7, HeldSame DEF KeyInv

\* The thread's drain, up to the event it decodes.
LEMMA DrainKeeps ==
  ASSUME KeyInv, PollKeys \/ WaitPoll \/ ThreadPollOnce \/ ThreadPollEnds
  PROVE  KeyInv' /\ InFlight' = InFlight
<1>1. TypeInv /\ Owned /\ Handover /\ HeldAgrees /\ InHand /\ DrainMax \in Nat \ {0}
  BY KeyboardAssumption DEF KeyInv
<1>2. CASE PollKeys \/ WaitPoll
  <2>1. /\ irqLeft = 0 /\ pc \in {"ready", "wait"} /\ pc' = "drain"
        /\ pollBusy' = TRUE /\ left' = DrainMax /\ after' \in {"check", "copy"}
        /\ UNCHANGED <<told, fifo, down, pending, latched, control, ring, head, tail, interrupt,
                       requests, inputActive, busInUse, irqLeft, event, word, mode, window>>
    BY <1>2 DEF PollKeys, WaitPoll, StartDrain, Thread, external, bitmaps, buffer, flags, screen
  <2>2. TypeInv'
    BY <1>1, <2>1 DEF TypeInv, TypeOK
  <2>3. Owned' /\ Handover' /\ InHand'
    BY <1>1, <2>1 DEF Owned, Handover, InHand
  <2>4. QED BY <1>1, <2>1, <2>2, <2>3, HeldSame DEF KeyInv, InFlight
<1>3. CASE ThreadPollOnce
  <2>1. /\ fifo # <<>> /\ irqLeft = 0 /\ pc = "drain" /\ pc' = "decode"
        /\ fifo' = Tail(fifo) /\ event' = <<Head(fifo)>>
        /\ UNCHANGED <<told, down, pending, latched, control, ring, head, tail, interrupt,
                       requests, inputActive, pollBusy, busInUse, irqLeft, left, after, word,
                       mode, window>>
    BY <1>3 DEF ThreadPollOnce, Thread, bitmaps, buffer, flags, locks, screen
  <2>2. fifo \in Seq(Events) /\ Len(fifo) <= FifoSize /\ FifoSize \in Nat /\ event = <<>>
    BY <1>1, <2>1, Flying, KeyboardAssumption DEF TypeInv, TypeOK
  <2>3. /\ Head(fifo) \in Events /\ Tail(fifo) \in Seq(Events)
        /\ Len(Tail(fifo)) = Len(fifo) - 1 /\ Len(fifo) \in Nat
    BY <2>1, <2>2, HeadTailProperties, LenProperties
  <2>4. event' \in Seq(Events) /\ Len(event') = 1 /\ fifo' \in Seq(Events)
        /\ Len(fifo') <= FifoSize
    BY <2>1, <2>2, <2>3
  <2>5. TypeInv'
    BY <1>1, <2>1, <2>4 DEF TypeInv, TypeOK
  <2>6. Owned' /\ Handover' /\ InHand'
    BY <1>1, <2>1 DEF Owned, Handover, InHand
  <2>7. InFlight' = InFlight
    <3>1. <<Head(fifo)>> \o Tail(fifo) = fifo
      <4> DEFINE s == <<Head(fifo)>> \o Tail(fifo)
      <4>1. <<Head(fifo)>> \in Seq(Events) /\ Len(<<Head(fifo)>>) = 1
        BY <2>3
      <4>2. /\ s \in Seq(Events) /\ Len(s) = 1 + Len(Tail(fifo))
            /\ \A i \in 1 .. 1 + Len(Tail(fifo)) :
                  s[i] = IF i <= 1 THEN <<Head(fifo)>>[i] ELSE Tail(fifo)[i - 1]
        BY <2>3, <4>1, ConcatProperties
      <4>3. \A i \in 1 .. Len(Tail(fifo)) : Tail(fifo)[i] = fifo[i + 1]
        BY <2>1, <2>2, HeadTailProperties
      <4>4. <<Head(fifo)>>[1] = fifo[1]
        OBVIOUS
      <4> HIDE DEF s
      <4>5. ASSUME NEW i \in 1 .. Len(fifo) PROVE s[i] = fifo[i]
        <5>1. CASE i = 1
          BY <2>3, <4>2, <4>4, <5>1
        <5>2. CASE i # 1
          <6>1. i - 1 \in 1 .. Len(Tail(fifo)) /\ i \in 1 .. 1 + Len(Tail(fifo)) /\ ~(i <= 1)
                /\ (i - 1) + 1 = i
            BY <2>3, <5>2
          <6>2. s[i] = Tail(fifo)[i - 1] /\ Tail(fifo)[i - 1] = fifo[(i - 1) + 1]
            BY <4>2, <4>3, <6>1
          <6>3. QED BY <6>1, <6>2
        <5>3. QED BY <5>1, <5>2
      <4>6. QED BY <2>2, <2>3, <4>2, <4>5, SeqEqual DEF s
    <3>2. QED BY <1>1, <2>1, <2>2, <3>1, Flying DEF InFlight
  <2>8. HeldAgrees'
    <3>1. HeldAgrees' <=> \A code \in Watched : code \in told' <=> HeldAfter(InFlight', down', code)
      BY DEF HeldAgrees, HeldAfter, About
    <3>2. QED BY <1>1, <2>1, <2>7, <3>1, HeldAgreesIs
  <2>9. QED BY <2>5, <2>6, <2>7, <2>8 DEF KeyInv
<1>4. CASE ThreadPollEnds
  <2>1. /\ irqLeft = 0 /\ pc = "drain" /\ pc' = after /\ pollBusy' = (after = "copy")
        /\ left' = 0 /\ after' = "eval"
        /\ UNCHANGED <<told, fifo, down, pending, latched, control, ring, head, tail, interrupt,
                       requests, inputActive, busInUse, irqLeft, event, word, mode, window>>
    BY <1>4 DEF ThreadPollEnds, EndDrain, external, bitmaps, buffer, flags, screen
  <2>2. pc' \in {"eval", "check", "copy"} /\ word = 1
    BY <1>1, <2>1 DEF TypeInv, Handover
  <2>3. pollBusy' \in BOOLEAN /\ left' \in 0 .. DrainMax
    <3>1. 0 \in 0 .. DrainMax
      BY KeyboardAssumption
    <3>2. QED BY <2>1, <3>1
  <2>4. TypeInv'
    <3>1. pc # "decode" /\ pc' # "decode" /\ after' \in {"eval", "check", "copy"}
      BY <2>1, <2>2
    <3>2. QED BY <1>1, <2>1, <2>2, <2>3, <3>1 DEF TypeInv, TypeOK
  <2>5. Owned' /\ Handover' /\ InHand'
    <3>1. Owned'
      BY <2>1, <2>2 DEF Owned
    <3>2. Handover'
      <4>1. pc' \notin {"flush"} /\ word' = 1
        BY <2>1, <2>2
      <4>2. \A i \in 1 .. word' - 1 : FALSE
        BY <4>1
      <4>3. QED BY <4>1, <4>2 DEF Handover
    <3>3. InHand'
      BY <2>2 DEF InHand
    <3>4. QED BY <3>1, <3>2, <3>3
  <2>6. QED BY <1>1, <2>1, <2>4, <2>5, HeldSame DEF KeyInv, InFlight
<1>5. QED BY <1>2, <1>3, <1>4

LEMMA DecodeKeeps ==
  ASSUME KeyInv, ThreadDecode
  PROVE  KeyInv' /\ InFlight' = Tail(InFlight)
<1>1. TypeInv /\ Owned /\ Handover /\ HeldAgrees /\ InHand
  BY DEF KeyInv
<1>2. /\ irqLeft = 0 /\ pc = "decode" /\ Decode(event[1]) /\ event' = <<>>
      /\ UNCHANGED <<told, fifo, busInUse, irqLeft, word, char>>
      /\ \/ /\ left > 1 /\ pc' = "drain" /\ left' = left - 1 /\ UNCHANGED <<pollBusy, after>>
         \/ pc' = after /\ pollBusy' = (after = "copy") /\ left' = 0 /\ after' = "eval"
  BY DEF ThreadDecode, EndDrain, external
<1>3. /\ event[1] \in Events /\ InFlight # <<>> /\ Head(InFlight) = event[1]
      /\ Tail(InFlight) = fifo /\ fifo \in Seq(Events)
  BY <1>1, <1>2, Flying DEF TypeInv, TypeOK
<1>4. /\ pending' \subseteq Watched /\ down' = Applied(down, event[1]) /\ down' \subseteq Watched
      /\ control' \in BOOLEAN /\ interrupt' \in BOOLEAN /\ requests' \subseteq RequestKeys
      /\ mode' \in ModeKeys \cup {"none"} /\ window' \in {"none", "thread"}
      /\ ring' \in Rings /\ head' \in 0 .. RingSize - 1
      /\ UNCHANGED <<latched, tail, inputActive>>
  BY <1>1, <1>2, <1>3, Decoding
<1>5. /\ pc' \in {"drain", "eval", "check", "copy"} /\ pollBusy' \in BOOLEAN
      /\ pc' \in {"drain", "copy"} => pollBusy'
      /\ left' \in 0 .. DrainMax /\ after' \in {"eval", "check", "copy"}
  <2>1. /\ pollBusy /\ after \in {"eval", "check", "copy"} /\ left \in 0 .. DrainMax
        /\ pollBusy \in BOOLEAN
    BY <1>1, <1>2 DEF Owned, TypeInv, TypeOK
  <2>2. 0 \in 0 .. DrainMax
    BY KeyboardAssumption
  <2>3. CASE pc' = "drain" /\ left > 1 /\ left' = left - 1 /\ UNCHANGED <<pollBusy, after>>
    <3>1. left' \in 0 .. DrainMax
      BY <2>1, <2>3, KeyboardAssumption
    <3>2. QED BY <2>1, <2>3, <3>1
  <2>4. CASE pc' = after /\ pollBusy' = (after = "copy") /\ left' = 0 /\ after' = "eval"
    BY <2>1, <2>2, <2>4
  <2>5. QED BY <1>2, <2>3, <2>4
<1>6. InFlight' = fifo
  BY <1>2, <1>3, ConcatEmptySeq DEF InFlight
<1>7. TypeInv'
  <2>1. event' \in Seq(Events) /\ Len(event') = 0 /\ pc' # "decode"
    BY <1>2, <1>5, EmptySeq
  <2>2. QED BY <1>1, <1>2, <1>4, <1>5, <2>1 DEF TypeInv, TypeOK
<1>8. Owned' /\ Handover' /\ InHand'
  <2>1. word' = 1 /\ \A i \in 1 .. word' - 1 : FALSE
    BY <1>1, <1>2 DEF Handover
  <2>2. QED BY <1>2, <1>5, <2>1 DEF Owned, Handover, InHand
<1>9. HeldAgrees'
  BY <1>1, <1>2, <1>3, <1>4, <1>6, HeldApplied
<1>10. QED BY <1>3, <1>6, <1>7, <1>8, <1>9 DEF KeyInv

\* keyboard_poll_keys after its drain: the words one by one, then the characters.
LEMMA LatchKeeps ==
  ASSUME KeyInv, LatchKeys
  PROVE  KeyInv' /\ InFlight' = InFlight
<1>1. TypeInv /\ Owned /\ Handover /\ HeldAgrees /\ InHand /\ NumWords \in Nat \ {0}
  BY KeyboardAssumption DEF KeyInv
<1>2. word \in 1 .. NumWords /\ pending \subseteq Watched /\ latched \subseteq Watched
  BY <1>1 DEF TypeInv, TypeOK
<1>3. CASE CopyWord
  <2>1. /\ irqLeft = 0 /\ pc = "copy" /\ pc' = "clear"
        /\ UNCHANGED <<told, fifo, down, pending, control, ring, head, tail, interrupt, requests,
                       inputActive, pollBusy, busInUse, irqLeft, left, event, after, word, mode,
                       window>>
    BY <1>3 DEF CopyWord, Thread, external, buffer, flags, locks, loop, screen
  <2>2. latched' \subseteq Watched
    BY <1>2, <1>3 DEF CopyWord
  <2>3. TypeInv'
    BY <1>1, <2>1, <2>2 DEF TypeInv, TypeOK
  <2>4. Owned' /\ Handover' /\ InHand'
    BY <1>1, <2>1 DEF Owned, Handover, InHand
  <2>5. QED BY <1>1, <2>1, <2>3, <2>4, HeldSame DEF KeyInv, InFlight
<1>4. CASE ClearWord
  <2>1. /\ irqLeft = 0 /\ pc = "clear" /\ pc' = IF word < NumWords THEN "copy" ELSE "flush"
        /\ pending' = pending \ Word(word) /\ word' = IF word < NumWords THEN word + 1 ELSE 1
        /\ UNCHANGED <<told, fifo, down, latched, control, ring, head, tail, interrupt, requests,
                       inputActive, pollBusy, busInUse, irqLeft, left, event, after, mode,
                       window>>
    BY <1>4 DEF ClearWord, Thread, external, buffer, flags, locks, loop, screen
  <2>2. pending' \subseteq Watched /\ word' \in 1 .. NumWords
    BY <1>1, <1>2, <2>1
  <2>3. TypeInv'
    BY <1>1, <2>1, <2>2 DEF TypeInv, TypeOK
  <2>4. Handover'
    <3>1. \A i \in 1 .. word : pending' \cap Word(i) = {}
      BY <1>1, <1>2, <2>1 DEF Handover
    <3>2. CASE word < NumWords
      BY <1>2, <2>1, <3>1, <3>2 DEF Handover
    <3>3. CASE word = NumWords
      <4>1. ASSUME NEW code \in pending' PROVE FALSE
        <5>1. code \in Watched /\ WordOf[code] \in 1 .. NumWords
          BY <2>2, <4>1, KeyboardAssumption
        <5>2. code \in Word(WordOf[code])
          BY <5>1 DEF Word
        <5>3. QED BY <3>1, <3>3, <4>1, <5>1, <5>2
      <4>2. pending' = {} /\ pc' = "flush" /\ word' = 1
        BY <1>1, <2>1, <3>3, <4>1
      <4>3. QED BY <4>2 DEF Handover
    <3>4. QED BY <1>1, <1>2, <3>2, <3>3
  <2>5. Owned' /\ InHand'
    BY <1>1, <2>1 DEF Owned, InHand
  <2>6. QED BY <1>1, <2>1, <2>3, <2>4, <2>5, HeldSame DEF KeyInv, InFlight
<1>5. CASE FlushCharacters
  <2>1. /\ irqLeft = 0 /\ pc = "flush" /\ pc' = "eval" /\ tail' = head /\ pollBusy' = FALSE
        /\ UNCHANGED <<told, fifo, down, pending, latched, control, ring, head, interrupt,
                       requests, inputActive, busInUse, irqLeft, left, event, after, word, mode,
                       window>>
    BY <1>5 DEF FlushCharacters, Thread, external, bitmaps, flags, loop, screen
  <2>2. pollBusy' \in BOOLEAN /\ tail' \in 0 .. RingSize - 1
    BY <1>1, <2>1 DEF TypeInv, TypeOK
  <2>3. TypeInv'
    BY <1>1, <2>1, <2>2 DEF TypeInv, TypeOK
  <2>4. Owned' /\ Handover' /\ InHand'
    BY <1>1, <2>1 DEF Owned, Handover, InHand
  <2>5. QED BY <1>1, <2>1, <2>3, <2>4, HeldSame DEF KeyInv, InFlight
<1>6. QED BY <1>3, <1>4, <1>5 DEF LatchKeys

\* The readers of the ring.
LEMMA ReadKeeps ==
  ASSUME KeyInv, TakeChar \/ HandleChar \/ Peek
  PROVE  KeyInv'
<1>1. TypeInv /\ Owned /\ Handover /\ HeldAgrees /\ InHand
  BY DEF KeyInv
<1>2. /\ ring \in Rings /\ head \in 0 .. RingSize - 1 /\ tail \in 0 .. RingSize - 1
      /\ Step(tail) \in 0 .. RingSize - 1
  BY <1>1, StepIs DEF TypeInv, TypeOK
<1>3. CASE TakeChar
  <2>1. /\ irqLeft = 0 /\ pc = "wait" /\ pc' = "take" /\ head # tail /\ char' = ring[tail]
        /\ UNCHANGED <<told, fifo, down, pending, latched, control, ring, head, tail, interrupt,
                       requests, inputActive, pollBusy, busInUse, irqLeft, left, event, after,
                       word, mode, window>>
    BY <1>3 DEF TakeChar, Thread, external, bitmaps, buffer, flags, locks, loop, screen
  <2>2. TypeInv'
    BY <1>1, <2>1 DEF TypeInv, TypeOK
  <2>3. InHand'
    <3>1. Buffered # <<>> /\ Head(Buffered) = ring[tail]
      BY <1>2, <2>1, Taking, BufferedIs
    <3>2. Buffered' = Buffered
      BY <2>1 DEF Buffered
    <3>3. QED BY <2>1, <3>1, <3>2 DEF InHand
  <2>4. Owned' /\ Handover'
    BY <1>1, <2>1 DEF Owned, Handover
  <2>5. QED BY <1>1, <2>1, <2>2, <2>3, <2>4, HeldSame DEF KeyInv
<1>4. CASE HandleChar \/ Peek
  <2>1. /\ irqLeft = 0 /\ pc \in {"take", "peek"} /\ pc' \in {"wait", "eval", "peek"}
        /\ tail' = tail \/ tail' = Step(tail)
        /\ inputActive' = inputActive \/ inputActive' = FALSE
        /\ UNCHANGED <<told, fifo, down, pending, latched, control, ring, head, interrupt,
                       requests, pollBusy, busInUse, irqLeft, left, event, after, word>>
    BY <1>4 DEF HandleChar, Peek, Thread, external, bitmaps, buffer, flags, locks, loop
  <2>2. mode' \in ModeKeys \cup {"none"} /\ window' \in {"none", "thread"}
    <3>1. mode \in ModeKeys \cup {"none"} /\ window \in {"none", "thread"}
      BY <1>1 DEF TypeInv, TypeOK
    <3>2. QED BY <1>4, <3>1 DEF HandleChar, Peek, HandleModeKey, screen
  <2>3. tail' \in 0 .. RingSize - 1 /\ inputActive' \in BOOLEAN
    BY <1>1, <1>2, <2>1 DEF TypeInv, TypeOK
  <2>4. TypeInv'
    <3>1. pc # "decode" /\ pc' # "decode"
      BY <2>1
    <3>2. QED BY <1>1, <2>1, <2>2, <2>3, <3>1 DEF TypeInv, TypeOK
  <2>5. Owned' /\ Handover' /\ InHand'
    BY <1>1, <2>1 DEF Owned, Handover, InHand
  <2>6. QED BY <1>1, <2>1, <2>4, <2>5, HeldSame DEF KeyInv
<1>5. QED BY <1>3, <1>4

LEMMA InitKeyInv == Init => KeyInv
<1> SUFFICES ASSUME Init PROVE KeyInv
  OBVIOUS
<1>1. /\ RingSize \in Nat \ {0, 1} /\ DrainMax \in Nat /\ NumWords \in Nat \ {0}
      /\ FifoSize \in Nat
  BY KeyboardAssumption
<1>2. ring \in Rings
  BY DEF Init, Rings, Chars
<1>3. fifo = <<>> /\ event = <<>> /\ <<>> \in Seq(Events) /\ Len(<<>>) = 0
  BY EmptySeq DEF Init
<1>4. TypeOK
  <2>1. /\ fifo \in Seq(Events) /\ Len(fifo) <= FifoSize /\ Len(event) <= 1
        /\ head \in 0 .. RingSize - 1 /\ tail \in 0 .. RingSize - 1
        /\ irqLeft \in 0 .. DrainMax /\ left \in 0 .. DrainMax /\ word \in 1 .. NumWords
    BY <1>1, <1>3 DEF Init
  <2>2. /\ told \subseteq Watched /\ down \subseteq Watched /\ pending \subseteq Watched
        /\ latched \subseteq Watched /\ requests \subseteq RequestKeys
    BY DEF Init
  <2>3. /\ control \in BOOLEAN /\ interrupt \in BOOLEAN /\ inputActive \in BOOLEAN
        /\ pollBusy \in BOOLEAN /\ busInUse \in BOOLEAN
    BY DEF Init
  <2>4. pc = "eval" /\ mode = "none" /\ window = "none"
    BY DEF Init
  <2>5. QED BY <2>1, <2>2, <2>3, <2>4 DEF TypeOK
<1>5. TypeInv
  BY <1>2, <1>3, <1>4 DEF Init, TypeInv
<1>6. Owned /\ Handover /\ InHand
  BY DEF Init, Owned, Handover, InHand
<1>7. HeldAgrees
  <2>1. InFlight = <<>> /\ Len(InFlight) = 0
    BY <1>3, ConcatEmptySeq DEF InFlight
  <2>2. \A code : About(InFlight, code) = {}
    BY <2>1 DEF About
  <2>3. QED BY <2>2, HeldAgreesIs DEF Init, HeldAfter
<1>8. QED BY <1>5, <1>6, <1>7 DEF KeyInv

LEMMA StepKeyInv ==
  ASSUME KeyInv, [Next]_vars
  PROVE  KeyInv'
<1>1. CASE UNCHANGED vars
  <2>1. UNCHANGED <<told, fifo, down, pending, latched, control, ring, head, tail, interrupt,
                    requests, inputActive, pollBusy, busInUse, irqLeft, pc, left, event, after,
                    word, char, mode, window>>
    BY <1>1 DEF vars, external, bitmaps, buffer, flags, locks, loop, screen
  <2>2. TypeInv' /\ Owned' /\ Handover' /\ InHand'
    <3>1. TypeInv'
      <4>1. TypeInv /\ TypeOK
        BY DEF KeyInv, TypeInv
      <4>2. TypeOK'
        BY <2>1, <4>1 DEF TypeOK
      <4>3. QED BY <2>1, <4>1, <4>2 DEF TypeInv
    <3>2. Owned' /\ Handover'
      BY <2>1 DEF KeyInv, Owned, Handover
    <3>3. InHand'
      BY <2>1 DEF KeyInv, InHand, Buffered
    <3>4. QED BY <3>1, <3>2, <3>3
  <2>3. QED BY <2>1, <2>2, HeldSame DEF KeyInv
<1>2. QED
  BY <1>1, FingerKeeps, IrqKeeps, ElsewhereKeeps, DrainKeeps, DecodeKeeps, LatchKeeps, ReadKeeps
     DEF Next, LogoThread, Operation, Polling, Reading, Elsewhere

\* Whatever the two contexts interleave, for any keys, words and sizes: the
\* bitmap and the events in flight agree with the keyboard, the character in
\* hand is the oldest, and ring, FIFO and counters keep their bounds.
THEOREM TypingIsSound == Spec => []TypingSound
<1>1. KeyInv => TypingSound
  BY DEF KeyInv, TypeInv, TypingSound
<1>2. KeyInv /\ [Next]_vars => KeyInv'
  BY StepKeyInv
<1>3. QED BY InitKeyInv, <1>1, <1>2, PTL DEF Spec

-----------------------------------------------------------------------------
(* The driver as its readers see it.                                       *)

\* While pollkeys is at work the presses are already handed over and the
\* characters gone; otherwise the view is the state itself.
LEMMA ViewOutside ==
  ASSUME ~Latching, ~Latching',
         UNCHANGED <<InFlight, control, down, pending, latched, Buffered>>
  PROVE  UNCHANGED View!vars
BY DEF View!vars

\* Decoding an event is applying it to both views.
LEMMA DecodeApplies ==
  ASSUME TypeInv, ~Latching, ~Latching', NEW e \in Events, Decode(e),
         InFlight # <<>>, e = Head(InFlight), InFlight' = Tail(InFlight)
  PROVE  View!Apply
<1>1. /\ pending' = pending \cup (Presses(e) \ down) /\ down' = Applied(down, e)
      /\ control' = Shifts(e, control) /\ latched' = latched
      /\ Buffered' = IF Len(Buffered) < RingSize - 1
                     THEN Buffered \o Types(e, control) ELSE Buffered
  BY Decoding
<1>2. QED BY <1>1 DEF View!Apply, Applied

\* Freeing the slot of the oldest character reads it.
LEMMA TakeReads ==
  ASSUME TypeInv, ~Latching, ~Latching', head # tail, tail' = Step(tail),
         UNCHANGED <<ring, head, InFlight, control, down, pending, latched>>
  PROVE  View!Read
<1>1. ring \in Rings /\ head \in 0 .. RingSize - 1 /\ tail \in 0 .. RingSize - 1
  BY DEF TypeInv, TypeOK
<1>2. Buffered # <<>> /\ Buffered' = Tail(Buffered)
  <2>1. Buffered' = Waiting(ring, head, Step(tail))
    BY DEF Buffered, Waiting
  <2>2. QED BY <1>1, <2>1, BufferedIs, Taking
<1>3. QED BY <1>2 DEF View!Read

\* pollkeys: handing over the first word hands over them all, and the rest of
\* its loop and the flush change nothing a reader can see.
LEMMA LatchPolls ==
  ASSUME KeyInv, LatchKeys
  PROVE  View!Poll \/ UNCHANGED View!vars
<1>1. /\ TypeInv /\ Handover /\ InFlight' = InFlight /\ NumWords \in Nat \ {0}
      /\ word \in 1 .. NumWords /\ pending \subseteq Watched
  BY LatchKeeps, KeyboardAssumption DEF KeyInv, TypeInv, TypeOK
<1>2. \A i, j \in 1 .. NumWords : i # j => Word(i) \cap Word(j) = {}
  BY DEF Word
<1>3. CASE CopyWord
  <2>1. /\ pc = "copy" /\ pc' = "clear" /\ UNCHANGED <<control, down, pending, word>>
        /\ latched' = (latched \ Word(word)) \cup (pending \cap Word(word))
    BY <1>3 DEF CopyWord, Thread, loop
  <2>2. Latching'
    BY <2>1 DEF Latching
  <2>3. Copied' = UNION {Word(i) : i \in 1 .. word}
    <3>1. {i \in 1 .. NumWords : pc' = "flush" \/ i < word' \/ (i = word' /\ pc' = "clear")}
            = 1 .. word
      BY <1>1, <2>1
    <3>2. QED BY <3>1 DEF Copied, Word
  <2>4. CASE word = 1
    <3>1. ~Latching
      BY <2>1, <2>4 DEF Latching
    <3>2. Copied' = Word(word)
      BY <2>3, <2>4
    <3>3. (latched' \cap Copied') \cup (pending' \ Copied') = pending
      BY <2>1, <3>2
    <3>4. View!Poll
      BY <1>1, <2>1, <2>2, <3>1, <3>3 DEF View!Poll
    <3>5. QED BY <3>4
  <2>5. CASE word # 1
    <3>1. Latching
      BY <1>1, <2>1, <2>5 DEF Latching
    <3>2. Copied = UNION {Word(i) : i \in 1 .. word - 1}
      <4>1. {i \in 1 .. NumWords : pc = "flush" \/ i < word \/ (i = word /\ pc = "clear")}
              = 1 .. word - 1
        BY <1>1, <2>1
      <4>2. QED BY <4>1 DEF Copied
    <3>3. Copied' = Copied \cup Word(word) /\ Copied \cap Word(word) = {}
      BY <1>1, <1>2, <2>3, <3>2
    <3>4. (latched' \cap Copied') \cup (pending' \ Copied')
            = (latched \cap Copied) \cup (pending \ Copied)
      BY <2>1, <3>3
    <3>5. QED BY <1>1, <2>1, <2>2, <3>1, <3>4 DEF View!vars
  <2>6. QED BY <2>4, <2>5
<1>4. CASE ClearWord
  <2>1. /\ pc = "clear" /\ pc' = IF word < NumWords THEN "copy" ELSE "flush"
        /\ UNCHANGED <<control, down, latched>>
        /\ pending' = pending \ Word(word) /\ word' = IF word < NumWords THEN word + 1 ELSE 1
    BY <1>4 DEF ClearWord, Thread
  <2>2. Latching /\ Latching'
    BY <1>1, <2>1 DEF Latching
  <2>3. Copied' = Copied /\ Word(word) \subseteq Copied
    <3>1. {i \in 1 .. NumWords : pc = "flush" \/ i < word \/ (i = word /\ pc = "clear")}
            = 1 .. word
      BY <1>1, <2>1
    <3>2. {i \in 1 .. NumWords : pc' = "flush" \/ i < word' \/ (i = word' /\ pc' = "clear")}
            = 1 .. word
      BY <1>1, <2>1
    <3>3. Copied = UNION {Word(i) : i \in 1 .. word}
      BY <3>1 DEF Copied
    <3>4. Copied' = UNION {Word(i) : i \in 1 .. word}
      BY <3>2 DEF Copied, Word
    <3>5. QED BY <1>1, <3>3, <3>4
  <2>4. (latched' \cap Copied') \cup (pending' \ Copied')
          = (latched \cap Copied) \cup (pending \ Copied)
    BY <2>1, <2>3
  <2>5. QED BY <1>1, <2>1, <2>2, <2>4 DEF View!vars
<1>5. CASE FlushCharacters
  <2>1. /\ pc = "flush" /\ pc' = "eval" /\ tail' = head
        /\ UNCHANGED <<control, down, pending, latched, ring, head>>
    BY <1>5 DEF FlushCharacters, Thread, bitmaps
  <2>2. Latching /\ ~Latching' /\ pending = {}
    BY <1>1, <2>1 DEF Latching, Handover
  <2>3. latched \subseteq Copied
    <3>1. {i \in 1 .. NumWords : pc = "flush" \/ i < word \/ (i = word /\ pc = "clear")}
            = 1 .. NumWords
      BY <2>1
    <3>2. Copied = UNION {Word(i) : i \in 1 .. NumWords}
      BY <3>1 DEF Copied
    <3>3. ASSUME NEW code \in latched PROVE code \in Copied
      <4>1. code \in Watched /\ WordOf[code] \in 1 .. NumWords
        BY <1>1, <3>3, KeyboardAssumption DEF TypeInv, TypeOK
      <4>2. code \in Word(WordOf[code])
        BY <4>1 DEF Word
      <4>3. QED BY <3>2, <4>1, <4>2
    <3>4. QED BY <3>3
  <2>4. Buffered' = <<>>
    <3>1. ring \in Rings /\ head \in 0 .. RingSize - 1
      BY <1>1 DEF TypeInv, TypeOK
    <3>2. Buffered' = Waiting(ring, head, head)
      BY <2>1 DEF Buffered, Waiting
    <3>3. QED BY <3>1, <3>2, WaitingIs
  <2>5. QED BY <1>1, <2>1, <2>2, <2>3, <2>4 DEF View!vars
<1>6. QED BY <1>3, <1>4, <1>5 DEF LatchKeys

LEMMA StepImplements ==
  ASSUME KeyInv, [Next]_vars
  PROVE  [View!Next]_(View!vars)
<1>1. TypeInv /\ Owned /\ Handover /\ InHand /\ FifoSize \in Nat
  BY KeyboardAssumption DEF KeyInv
<1>2. CASE UNCHANGED vars
  BY <1>2 DEF vars, external, bitmaps, buffer, flags, locks, loop, screen, View!vars, InFlight,
       Latching, Copied, Buffered
<1>3. CASE Finger
  <2>1. PICK e \in Events : InFlight' = Append(InFlight, e)
    BY <1>3, FingerKeeps
  <2>2. Len(InFlight) <= FifoSize
    <3>1. Len(fifo) < FifoSize /\ Len(fifo) \in Nat
      BY <1>1, <1>3, LenProperties DEF Finger, TypeInv, TypeOK
    <3>2. QED BY <1>1, <3>1, Flying DEF TypeInv
  <2>3. UNCHANGED <<pc, word, down, pending, latched, control, Buffered>>
    BY <1>3 DEF Finger, bitmaps, buffer, loop, Buffered
  <2>4. View!Arrive(e)
    BY <2>1, <2>2, <2>3 DEF View!Arrive, Latching, Copied
  <2>5. QED BY <2>4 DEF View!Next
<1>4. CASE IrqPollOnce
  <2>1. /\ irqLeft > 0 /\ fifo # <<>> /\ Decode(Head(fifo)) /\ fifo' = Tail(fifo)
        /\ UNCHANGED <<pc, event, word>>
    BY <1>4 DEF IrqPollOnce, loop
  <2>2. pc \notin {"drain", "decode", "copy", "clear", "flush"}
    BY <1>1, <2>1 DEF Owned, TypeInv, TypeOK
  <2>3. event = <<>> /\ InFlight = fifo /\ fifo \in Seq(Events) /\ ~Latching /\ ~Latching'
    BY <1>1, <2>1, <2>2, Flying DEF TypeInv, TypeOK, Latching
  <2>4. Head(fifo) \in Events /\ Tail(fifo) \in Seq(Events)
    BY <2>1, <2>3, HeadTailProperties
  <2>5. InFlight' = Tail(InFlight)
    BY <2>1, <2>3, <2>4, ConcatEmptySeq DEF InFlight
  <2>6. View!Apply
    BY <1>1, <2>1, <2>3, <2>4, <2>5, DecodeApplies
  <2>7. QED BY <2>6 DEF View!Next
<1>5. CASE ThreadDecode
  <2>1. /\ pc = "decode" /\ Decode(event[1]) /\ word' = word /\ word = 1
        /\ pc' = "drain" \/ pc' = after
    BY <1>1, <1>5 DEF ThreadDecode, EndDrain, Handover
  <2>2. /\ event[1] \in Events /\ InFlight # <<>> /\ Head(InFlight) = event[1]
        /\ InFlight' = Tail(InFlight)
    BY <1>1, <1>5, <2>1, Flying, DecodeKeeps
  <2>3. ~Latching /\ ~Latching'
    BY <1>1, <2>1 DEF Latching, TypeInv
  <2>4. View!Apply
    BY <1>1, <2>1, <2>2, <2>3, DecodeApplies
  <2>5. QED BY <2>4 DEF View!Next
<1>6. CASE LatchKeys
  BY <1>6, LatchPolls DEF View!Next
<1>7. CASE HandleChar \/ Peek
  <2>1. /\ pc \in {"take", "peek"} /\ pc' \in {"wait", "eval", "peek"}
        /\ UNCHANGED <<InFlight, down, pending, latched, control, ring, head>>
    BY <1>7 DEF HandleChar, Peek, Thread, external, bitmaps, loop, InFlight
  <2>2. ~Latching /\ ~Latching'
    BY <2>1 DEF Latching
  <2>3. CASE tail' = tail
    BY <2>1, <2>2, <2>3, ViewOutside DEF Buffered
  <2>4. CASE tail' # tail
    <3>1. tail' = Step(tail) /\ head # tail
      <4>1. ASSUME HandleChar PROVE head # tail /\ tail' = Step(tail)
        <5>1. Buffered # <<>> /\ tail' = Step(tail)
          BY <1>1, <4>1 DEF HandleChar, Thread, InHand
        <5>2. QED BY <1>1, <5>1, BufferedIs, WaitingIs DEF TypeInv, TypeOK
      <4>2. QED BY <1>7, <2>4, <4>1 DEF Peek
    <3>2. QED BY <1>1, <2>1, <2>2, <3>1, TakeReads DEF View!Next
  <2>5. QED BY <2>3, <2>4
<1>8. CASE PollKeys \/ WaitPoll \/ ThreadPollOnce \/ ThreadPollEnds
  <2>1. InFlight' = InFlight
    BY <1>8, DrainKeeps
  <2>2. /\ UNCHANGED <<control, down, pending, latched, ring, head, tail, word>>
        /\ pc \in {"ready", "wait", "drain"} /\ pc' \in {"drain", "decode", after}
    BY <1>8 DEF PollKeys, WaitPoll, StartDrain, ThreadPollOnce, ThreadPollEnds, EndDrain, Thread,
         bitmaps, buffer
  <2>3. word = 1 /\ ~Latching /\ ~Latching'
    BY <1>1, <2>2 DEF Handover, Latching, TypeInv
  <2>4. QED BY <2>1, <2>2, <2>3, ViewOutside DEF Buffered
<1>9. CASE Tick \/ IrqPollEnds \/ Elsewhere \/ TakeChar
  <2>1. UNCHANGED <<InFlight, control, down, pending, latched, ring, head, tail, word>>
    BY <1>9 DEF Tick, IrqPollEnds, TakeChar, Elsewhere, CheckFlags, NextInstruction, UseBus, Draw,
         StartReadChar, StartPeek, WaitOn, WaitCheck, external, bitmaps, buffer, loop, InFlight
  <2>2. \/ pc' = pc
        \/ /\ pc \notin {"copy", "clear", "flush"} /\ pc' \notin {"copy", "clear", "flush"}
    BY <1>9 DEF Tick, IrqPollEnds, TakeChar, Elsewhere, CheckFlags, NextInstruction, UseBus, Draw,
         StartReadChar, StartPeek, WaitOn, WaitCheck, Thread
  <2>3. \/ Latching' = Latching /\ Copied' = Copied
        \/ ~Latching /\ ~Latching'
    BY <2>1, <2>2 DEF Latching, Copied
  <2>4. Buffered' = Buffered
    BY <2>1 DEF Buffered
  <2>5. CASE Latching' = Latching /\ Copied' = Copied
    BY <2>1, <2>4, <2>5 DEF View!vars
  <2>6. CASE ~Latching /\ ~Latching'
    BY <2>1, <2>4, <2>6, ViewOutside
  <2>7. QED BY <2>3, <2>5, <2>6
<1>10. QED
  BY <1>2, <1>3, <1>4, <1>5, <1>6, <1>7, <1>8, <1>9
     DEF Next, Irq, LogoThread, Operation, Polling, Reading, Elsewhere

\* For any keys, words and sizes, two contexts, two bitmaps swapped word by word
\* and a ring implement a driver in which every event, every read and every
\* pollkeys is one step.
THEOREM DriverImplementsView == Spec => ImplementsKeyView
<1>1. Init => View!Init
  <2> SUFFICES ASSUME Init PROVE View!Init
    OBVIOUS
  <2>1. KeyInv
    BY InitKeyInv
  <2>2. InFlight = <<>>
    BY ConcatEmptySeq, EmptySeq DEF Init, InFlight
  <2>3. Buffered = <<>>
    BY <2>1, BufferedIs, WaitingIs DEF Init, KeyInv, TypeInv, TypeOK
  <2>4. ~Latching
    BY DEF Init, Latching
  <2>5. QED BY <2>2, <2>3, <2>4 DEF Init, View!Init
<1>2. KeyInv /\ [Next]_vars => KeyInv'
  BY StepKeyInv
<1>3. KeyInv /\ [Next]_vars => [View!Next]_(View!vars)
  BY StepImplements
<1>4. QED BY InitKeyInv, <1>1, <1>2, <1>3, PTL DEF Spec, ImplementsKeyView, View!Spec

=============================================================================
