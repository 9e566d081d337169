---------------------------- MODULE SoundProofs ----------------------------
(***************************************************************************)
(* Proofs about Sound, for every set of voices, depth of queue, shape of   *)
(* envelope and set of commands.                                           *)
(***************************************************************************)
EXTENDS Sound, TLAPS

-----------------------------------------------------------------------------
(* Arithmetic: an index of the ring stays below twice its size.            *)

LEMMA Modulo ==
  ASSUME NEW N \in Nat \ {0}, NEW a \in Nat, a < 2 * N
  PROVE  a % N = IF a < N THEN a ELSE a - N
<1>1. CASE a < N
  BY <1>1
<1>2. CASE a >= N
  BY <1>2
<1>3. QED BY <1>1, <1>2

\* What a division rounds to: a quotient of naturals is a natural, and a part
\* of EnvOne is at most EnvOne.
LEMMA Quotient ==
  ASSUME NEW N \in Nat \ {0}, NEW a \in Nat
  PROVE  a \div N \in Nat /\ \A b \in Nat : a <= b * N => a \div N <= b
OBVIOUS

LEMMA Product ==
  ASSUME NEW a \in Nat, NEW b \in Nat, NEW c \in Nat, a <= b
  PROVE  a * c \in Nat /\ a * c <= b * c /\ b * c = c * b
OBVIOUS

-----------------------------------------------------------------------------
(* The envelope.                                                           *)

LEMMA StepTypes ==
  ASSUME NEW r \in Nat, NEW time \in Nat
  PROVE  StepOf(r, time) \in Nat /\ StepOf(r, time) >= 1
<1>1. StepsFor(time) \in Nat \ {0}
  BY SoundAssumption, Quotient DEF StepsFor
<1>2. r \div StepsFor(time) \in Nat
  BY <1>1, Quotient
<1>3. QED BY <1>2 DEF StepOf

LEMMA SustainTypes ==
  ASSUME NEW t \in Timbre
  PROVE  SustainLevel(t) \in 0 .. EnvOne
<1>1. t.sustain \in Nat /\ t.sustain <= SustainMax /\ EnvOne \in Nat /\ SustainMax \in Nat \ {0}
  BY SoundAssumption DEF Timbre
<1>2. /\ t.sustain * EnvOne \in Nat
      /\ t.sustain * EnvOne <= EnvOne * SustainMax
  BY <1>1, Product
<1>3. QED BY <1>1, <1>2, Quotient DEF SustainLevel

-----------------------------------------------------------------------------
(* The ring.                                                               *)

\* How many notes wait, and where the ring keeps each of them.
LEMMA UsedIs ==
  ASSUME NEW x \in Voice
  PROVE  /\ Used(x) = IF x.head <= x.tail THEN x.tail - x.head ELSE x.tail - x.head + QRing
         /\ Used(x) \in 0 .. QueueLen
         /\ QueueEmpty(x) <=> Used(x) = 0
         /\ QueueFree(x) = QueueLen - Used(x)
<1>1. QueueLen \in Nat /\ QRing \in Nat \ {0} /\ QRing = QueueLen + 1
  BY SoundAssumption DEF QRing
<1>2. x.head \in 0 .. QueueLen /\ x.tail \in 0 .. QueueLen
  BY DEF Voice
<1>3. /\ x.tail - x.head + QRing \in Nat
      /\ x.tail - x.head + QRing < 2 * QRing
      /\ x.head - x.tail - 1 + QRing \in Nat
      /\ x.head - x.tail - 1 + QRing < 2 * QRing
  BY <1>1, <1>2
<1>4. PICK a \in Nat, b \in Nat : a = x.tail - x.head + QRing /\ b = x.head - x.tail - 1 + QRing
  BY <1>3
<1>5. Used(x) = a % QRing /\ QueueFree(x) = b % QRing
  BY <1>4 DEF Used, QueueFree
<1>6. /\ a % QRing = IF a < QRing THEN a ELSE a - QRing
      /\ b % QRing = IF b < QRing THEN b ELSE b - QRing
  BY <1>1, <1>3, <1>4, Modulo
<1>7. /\ Used(x) = IF a < QRing THEN a ELSE a - QRing
      /\ QueueFree(x) = IF b < QRing THEN b ELSE b - QRing
  BY <1>5, <1>6
<1>8. CASE x.head <= x.tail
  <2>1. a >= QRing /\ Used(x) = x.tail - x.head
    BY <1>1, <1>2, <1>4, <1>7, <1>8
  <2>2. b < QRing /\ QueueFree(x) = QueueLen - (x.tail - x.head)
    BY <1>1, <1>2, <1>4, <1>7, <1>8
  <2>3. QED BY <1>1, <1>2, <1>8, <2>1, <2>2 DEF QueueEmpty
<1>9. CASE x.head > x.tail
  <2>1. a < QRing /\ Used(x) = x.tail - x.head + QRing
    BY <1>1, <1>2, <1>4, <1>7, <1>9
  <2>2. b >= QRing /\ QueueFree(x) = QueueLen - (x.tail - x.head + QRing)
    BY <1>1, <1>2, <1>4, <1>7, <1>9
  <2>3. QED BY <1>1, <1>2, <1>9, <2>1, <2>2 DEF QueueEmpty
<1>10. QED BY <1>2, <1>8, <1>9

\* The slot of the i-th note, for the notes that wait and the one to come.
LEMMA SlotIs ==
  ASSUME NEW h \in 0 .. QueueLen, NEW i \in 0 .. QueueLen
  PROVE  /\ (h + i) % QRing = IF h + i <= QueueLen THEN h + i ELSE h + i - QRing
         /\ (h + i) % QRing \in 0 .. QueueLen
<1>1. QueueLen \in Nat /\ QRing \in Nat \ {0} /\ QRing = QueueLen + 1
  BY SoundAssumption DEF QRing
<1>2. h + i \in Nat /\ h + i < 2 * QRing
  BY <1>1
<1>3. (h + i) % QRing = IF h + i < QRing THEN h + i ELSE h + i - QRing
  <2>1. PICK a \in Nat : a = h + i
    BY <1>2
  <2>2. a % QRing = IF a < QRing THEN a ELSE a - QRing
    BY <1>1, <1>2, <2>1, Modulo
  <2>3. QED BY <1>1, <2>1, <2>2
<1>4. QED BY <1>1, <1>3

LEMMA NextSlotIs ==
  ASSUME NEW h \in 0 .. QueueLen
  PROVE  /\ (h + 1) % QRing \in 0 .. QueueLen
         /\ h < QueueLen => (h + 1) % QRing = h + 1
         /\ h = QueueLen => (h + 1) % QRing = 0
<1>1. QueueLen \in Nat \ {0} /\ QRing = QueueLen + 1 /\ 1 \in 0 .. QueueLen
  BY SoundAssumption DEF QRing
<1>2. /\ (h + 1) % QRing = IF h + 1 <= QueueLen THEN h + 1 ELSE h + 1 - QRing
      /\ (h + 1) % QRing \in 0 .. QueueLen
  BY <1>1, SlotIs, Zenon
<1>3. PICK k \in 0 .. QueueLen : k = (h + 1) % QRing
  BY <1>2
<1>4. k = IF h + 1 <= QueueLen THEN h + 1 ELSE h + 1 - QRing
  BY <1>2, <1>3, Zenon
<1>5. /\ h < QueueLen => k = h + 1
      /\ h = QueueLen => k = 0
  BY <1>1, <1>4
<1>6. QED BY <1>3, <1>5, Zenon

LEMMA RingIs ==
  ASSUME NEW x \in Voice
  PROVE  /\ Ring(x) \in Seq(Notes \cup {Silence})
         /\ Len(Ring(x)) = Used(x)
         /\ \A i \in 1 .. Used(x) : Ring(x)[i] = x.q[(x.head + i - 1) % QRing]
         /\ QueueEmpty(x) <=> Ring(x) = <<>>
<1>1. Used(x) \in 0 .. QueueLen /\ QueueLen \in Nat
  BY UsedIs, SoundAssumption
<1>2. x.head \in 0 .. QueueLen /\ x.q \in [0 .. QueueLen -> Notes \cup {Silence}]
  BY DEF Voice
<1>3. ASSUME NEW i \in 1 .. Used(x)
      PROVE  x.q[(x.head + i - 1) % QRing] \in Notes \cup {Silence}
  <2>1. i - 1 \in 0 .. QueueLen /\ x.head + i - 1 = x.head + (i - 1)
    BY <1>1, <1>2
  <2>2. (x.head + i - 1) % QRing \in 0 .. QueueLen
    BY <1>2, <2>1, SlotIs
  <2>3. QED BY <1>2, <2>2
<1>4. Ring(x) \in [1 .. Used(x) -> Notes \cup {Silence}]
  BY <1>3 DEF Ring
<1>5. Ring(x) \in Seq(Notes \cup {Silence}) /\ Len(Ring(x)) = Used(x)
  BY <1>1, <1>4
<1>6. QueueEmpty(x) <=> Ring(x) = <<>>
  BY <1>5, UsedIs
<1>7. QED BY <1>5, <1>6 DEF Ring

\* What waits on a voice depends on its queue and on nothing else.
LEMMA RingSame ==
  ASSUME NEW x, NEW y, x.q = y.q, x.head = y.head, x.tail = y.tail
  PROVE  Ring(x) = Ring(y)
BY DEF Ring, Used

\* A queue with a free slot takes a note behind those that wait.
LEMMA Queueing ==
  ASSUME NEW x \in Voice, Ring(x) \in Seq(Notes), QueueFree(x) # 0, NEW n \in Notes
  PROVE  /\ Queued(x, n) \in Voice
         /\ Ring(Queued(x, n)) = Append(Ring(x), n)
         /\ Len(Ring(x)) < QueueLen
<1> DEFINE y == Queued(x, n)
<1>1. QueueLen \in Nat \ {0} /\ QRing = QueueLen + 1
  BY SoundAssumption DEF QRing
<1>2. /\ x.head \in 0 .. QueueLen /\ x.tail \in 0 .. QueueLen
      /\ x.q \in [0 .. QueueLen -> Notes \cup {Silence}]
  BY DEF Voice
<1>3. Used(x) \in 0 .. QueueLen - 1
  BY <1>1, UsedIs
<1>4. PICK t \in 0 .. QueueLen :
        /\ t = (x.tail + 1) % QRing
        /\ x.tail < QueueLen => t = x.tail + 1
        /\ x.tail = QueueLen => t = 0
  BY <1>2, NextSlotIs
<1>6. y.q = [x.q EXCEPT ![x.tail] = n] /\ y.head = x.head /\ y.tail = t
  BY <1>4 DEF Queued, Voice
<1>7. y \in Voice
  BY <1>2, <1>4 DEF Queued, Voice
<1>8. Used(y) = Used(x) + 1
  <2>1. PICK h \in Int, l \in Int, u \in Int, w \in Int :
          h = x.head /\ l = x.tail /\ u = Used(x) /\ w = Used(y)
    BY <1>2, <1>3, <1>7, UsedIs
  <2>2. u = IF h <= l THEN l - h ELSE l - h + QRing
    BY <2>1, UsedIs, Zenon
  <2>3. w = IF h <= t THEN t - h ELSE t - h + QRing
    BY <1>6, <1>7, <2>1, UsedIs, Zenon
  <2>4. h \in 0 .. QueueLen /\ l \in 0 .. QueueLen /\ u <= QueueLen - 1
    BY <1>1, <1>2, <1>3, <2>1
  <2>5. (l < QueueLen => t = l + 1) /\ (l = QueueLen => t = 0)
    BY <1>4, <2>1, Zenon
  <2>6. w = u + 1
    BY <1>1, <2>2, <2>3, <2>4, <2>5
  <2>7. QED BY <2>1, <2>6
<1>9. ASSUME NEW i \in 1 .. Used(y)
      PROVE  y.q[(x.head + i - 1) % QRing] = IF i <= Used(x) THEN Ring(x)[i] ELSE n
  <2>1. PICK j \in 0 .. QueueLen : j = i - 1 /\ x.head + i - 1 = x.head + j
    BY <1>1, <1>2, <1>3, <1>8
  <2>2. PICK k \in 0 .. QueueLen :
           /\ k = (x.head + i - 1) % QRing
           /\ k = IF x.head + j <= QueueLen THEN x.head + j ELSE x.head + j - QRing
    BY <1>2, <2>1, SlotIs
  <2>3. CASE i <= Used(x)
    <3>1. k # x.tail
      <4>1. PICK h \in Int, l \in Int, u \in Int : h = x.head /\ l = x.tail /\ u = Used(x)
        BY <1>2, <1>3
      <4>2. /\ u = IF h <= l THEN l - h ELSE l - h + QRing
            /\ k = IF h + j <= QueueLen THEN h + j ELSE h + j - QRing
        BY <2>2, <4>1, UsedIs, Zenon
      <4>3. h \in 0 .. QueueLen /\ l \in 0 .. QueueLen /\ j < u
        BY <1>2, <1>3, <2>1, <2>3, <4>1
      <4>4. k # l
        BY <1>1, <4>2, <4>3
      <4>5. QED BY <4>1, <4>4
    <3>2. y.q[k] = x.q[k]
      BY <1>2, <1>6, <3>1
    <3>3. Ring(x)[i] = x.q[k]
      BY <1>3, <2>2, <2>3, RingIs
    <3>4. QED BY <2>2, <2>3, <3>2, <3>3
  <2>4. CASE i > Used(x)
    <3>1. i = Used(x) + 1
      BY <1>3, <1>8, <2>4
    <3>2. k = x.tail
      <4>1. PICK h \in Int, l \in Int, u \in Int : h = x.head /\ l = x.tail /\ u = Used(x)
        BY <1>2, <1>3
      <4>2. u = IF h <= l THEN l - h ELSE l - h + QRing
        BY <4>1, UsedIs, Zenon
      <4>3. k = IF h + j <= QueueLen THEN h + j ELSE h + j - QRing
        BY <2>2, <4>1, Zenon
      <4>4. h \in 0 .. QueueLen /\ l \in 0 .. QueueLen /\ j = u
        BY <1>2, <1>3, <2>1, <3>1, <4>1
      <4>5. k = l
        BY <1>1, <4>2, <4>3, <4>4
      <4>6. QED BY <4>1, <4>5
    <3>3. y.q[k] = n
      BY <1>2, <1>6, <3>2
    <3>4. QED BY <1>3, <2>2, <2>4, <3>1, <3>3
  <2>5. QED BY <1>3, <2>3, <2>4
<1>10. Ring(y) = Append(Ring(x), n)
  <2>1. Len(Ring(x)) = Used(x) /\ Len(Ring(y)) = Used(y) /\ Ring(y) \in Seq(Notes \cup {Silence})
    BY <1>7, RingIs
  <2>2. ASSUME NEW i \in 1 .. Used(y) PROVE Ring(y)[i] = Append(Ring(x), n)[i]
    <3>1. Ring(y)[i] = y.q[(x.head + i - 1) % QRing]
      BY <1>6, <1>7, RingIs
    <3>2. Append(Ring(x), n)[i] = IF i <= Used(x) THEN Ring(x)[i] ELSE n
      BY <1>3, <1>8, <2>1
    <3>3. QED BY <1>9, <3>1, <3>2
  <2>3. Append(Ring(x), n) \in Seq(Notes) /\ Len(Append(Ring(x), n)) = Used(y)
    BY <1>8, <2>1
  <2>4. QED BY <2>1, <2>2, <2>3
<1>11. QED BY <1>1, <1>3, <1>7, <1>10, RingIs

LEMMA QueueingTypes ==
  ASSUME NEW x, VoiceOK(x), QueueFree(x) # 0, NEW n \in Notes
  PROVE  VoiceOK(Queued(x, n))
<1>1. x \in Voice /\ Ring(x) \in Seq(Notes)
  BY DEF VoiceOK
<1>2. Queued(x, n) \in Voice /\ Ring(Queued(x, n)) = Append(Ring(x), n)
  BY <1>1, Queueing
<1>3. Ring(Queued(x, n)) \in Seq(Notes)
  BY <1>1, <1>2
<1>4. /\ Queued(x, n).stage = x.stage /\ Queued(x, n).note = x.note
      /\ Queued(x, n).shape = x.shape
  BY <1>1 DEF Queued, Voice
<1>5. QED BY <1>2, <1>3, <1>4 DEF VoiceOK

\* The sequencer takes the note that has waited longest.
LEMMA Dequeueing ==
  ASSUME NEW x \in Voice, ~QueueEmpty(x),
         NEW y \in Voice, y.q = x.q, y.tail = x.tail, y.head = (x.head + 1) % QRing
  PROVE  /\ Ring(y) = Tail(Ring(x))
         /\ x.q[x.head] = Head(Ring(x))
         /\ Ring(x) # <<>>
<1>1. QueueLen \in Nat \ {0} /\ QRing = QueueLen + 1
  BY SoundAssumption DEF QRing
<1>2. x.head \in 0 .. QueueLen /\ x.tail \in 0 .. QueueLen
  BY DEF Voice
<1>3. Used(x) \in 1 .. QueueLen
  BY <1>1, UsedIs
<1>4. /\ y.head \in 0 .. QueueLen
      /\ x.head < QueueLen => y.head = x.head + 1
      /\ x.head = QueueLen => y.head = 0
  BY <1>2, NextSlotIs
<1>5. Used(y) = Used(x) - 1
  BY <1>1, <1>2, <1>3, <1>4, UsedIs
<1>6. ASSUME NEW i \in 1 .. Used(y)
      PROVE  (y.head + i - 1) % QRing = (x.head + (i + 1) - 1) % QRing
  <2>1. PICK j \in 0 .. QueueLen : j = i - 1 /\ y.head + i - 1 = y.head + j
    BY <1>1, <1>3, <1>4, <1>5, <1>2
  <2>2. i \in 0 .. QueueLen /\ x.head + (i + 1) - 1 = x.head + i
    BY <1>1, <1>2, <1>3, <1>5
  <2>3. PICK k \in 0 .. QueueLen :
           /\ k = (y.head + i - 1) % QRing
           /\ k = IF y.head + j <= QueueLen THEN y.head + j ELSE y.head + j - QRing
    <3>1. y.head \in 0 .. QueueLen
      BY DEF Voice
    <3>2. QED BY <2>1, <3>1, SlotIs
  <2>4. PICK l \in 0 .. QueueLen :
           /\ l = (x.head + (i + 1) - 1) % QRing
           /\ l = IF x.head + i <= QueueLen THEN x.head + i ELSE x.head + i - QRing
    BY <1>2, <2>2, SlotIs
  <2>5. k = l
    BY <1>1, <1>2, <1>3, <1>4, <1>5, <2>1, <2>3, <2>4
  <2>6. QED BY <2>3, <2>4, <2>5
<1>7. /\ Len(Ring(x)) = Used(x) /\ Ring(x) \in Seq(Notes \cup {Silence})
      /\ Len(Ring(y)) = Used(y) /\ Ring(y) \in Seq(Notes \cup {Silence})
  BY RingIs
<1>8. Ring(x) # <<>>
  BY <1>3, <1>7
<1>9. Ring(y) = Tail(Ring(x))
  <2>1. Tail(Ring(x)) \in Seq(Notes \cup {Silence}) /\ Len(Tail(Ring(x))) = Used(y)
    BY <1>3, <1>5, <1>7, <1>8
  <2>2. ASSUME NEW i \in 1 .. Used(y) PROVE Ring(y)[i] = Tail(Ring(x))[i]
    <3>1. i + 1 \in 1 .. Used(x)
      BY <1>3, <1>5
    <3>2. Ring(y)[i] = y.q[(y.head + i - 1) % QRing]
      BY RingIs
    <3>3. Ring(x)[i + 1] = x.q[(x.head + (i + 1) - 1) % QRing]
      BY <3>1, RingIs
    <3>4. Tail(Ring(x))[i] = Ring(x)[i + 1]
      BY <1>5, <1>3, <1>7, <1>8
    <3>5. QED BY <1>6, <3>2, <3>3, <3>4
  <2>3. QED BY <1>7, <2>1, <2>2
<1>10. x.q[x.head] = Head(Ring(x))
  <2>1. Ring(x)[1] = x.q[(x.head + 1 - 1) % QRing]
    BY <1>3, RingIs
  <2>2. x.head + 1 - 1 = x.head
    BY <1>2
  <2>3. x.head % QRing = x.head
    BY <1>1, <1>2
  <2>4. QED BY <1>7, <1>8, <2>1, <2>2, <2>3
<1>11. QED BY <1>8, <1>9, <1>10

-----------------------------------------------------------------------------
(* What each operation leaves of a voice.                                  *)

\* Two voices with the same queue, note and shape are sound alike.
LEMMA SameQueue ==
  ASSUME NEW x, VoiceOK(x), NEW y \in Voice,
         y.q = x.q, y.head = x.head, y.tail = x.tail, y.note = x.note, y.shape = x.shape,
         y.stage # "idle" => x.stage # "idle"
  PROVE  VoiceOK(y) /\ Ring(y) = Ring(x)
<1>1. Ring(y) = Ring(x)
  BY RingSame, Zenon
<1>2. QED BY <1>1 DEF VoiceOK

LEMMA Starting ==
  ASSUME NEW x \in Voice, Ring(x) \in Seq(Notes), NEW n \in Notes
  PROVE  /\ VoiceOK(StartNote(x, n))
         /\ Ring(StartNote(x, n)) = Ring(x)
         /\ StartNote(x, n).note = n
         /\ StartNote(x, n).stage = "attack"
<1> DEFINE y == StartNote(x, n)
           s == [attack  |-> StepOf(EnvOne, x.timbre.attack),
                 decay   |-> StepOf(EnvOne - SustainLevel(x.timbre), x.timbre.decay),
                 sustain |-> SustainLevel(x.timbre),
                 release |-> StepOf(EnvOne, x.timbre.release)]
<1>1. x.timbre \in Timbre /\ EnvOne \in Nat /\ Dur[n] \in Int
  BY SoundAssumption DEF Voice
<1>2. /\ x.timbre.attack \in Nat /\ x.timbre.decay \in Nat /\ x.timbre.release \in Nat
      /\ SustainLevel(x.timbre) \in 0 .. EnvOne
  BY <1>1, SustainTypes DEF Timbre
<1>3. EnvOne - SustainLevel(x.timbre) \in Nat
  BY <1>1, <1>2
<1>4. /\ s \in [attack : Nat, decay : Nat, sustain : 0 .. EnvOne, release : Nat]
      /\ s.attack >= 1 /\ s.decay >= 1 /\ s.release >= 1
  BY <1>1, <1>2, <1>3, StepTypes
<1>5. /\ y.note = n /\ y.shape = s /\ y.stage = "attack"
      /\ y.q = x.q /\ y.head = x.head /\ y.tail = x.tail
  BY DEF StartNote, Voice
<1>6. y \in Voice
  <2> HIDE DEF s
  <2>1. y = [x EXCEPT !.note = n, !.shape = s, !.env = 0, !.stage = "attack", !.hold = Dur[n]]
    BY DEF StartNote, s
  <2>2. 0 \in 0 .. EnvOne /\ "attack" \in Stages
    BY <1>1 DEF Stages
  <2>3. QED BY <1>1, <1>4, <2>1, <2>2 DEF Voice
<1>7. Ring(y) = Ring(x)
  BY <1>5, RingSame, Zenon
<1>8. QED BY <1>4, <1>5, <1>6, <1>7 DEF VoiceOK

LEMMA Flushing ==
  ASSUME NEW x \in Voice
  PROVE  /\ Flushed(x) \in Voice
         /\ Ring(Flushed(x)) = <<>>
         /\ Ring(Flushed(x)) \in Seq(Notes)
<1>1. Flushed(x) \in Voice /\ Flushed(x).head = 0 /\ Flushed(x).tail = 0
  <2>1. 0 \in 0 .. QueueLen
    BY SoundAssumption
  <2>2. QED BY <2>1 DEF Flushed, Voice
<1>2. QueueEmpty(Flushed(x))
  BY <1>1 DEF QueueEmpty
<1>3. QED BY <1>1, <1>2, RingIs

\* What stopsound makes of a voice: nothing waits, and the note fades.
LEMMA Stopping ==
  ASSUME NEW x, VoiceOK(x)
  PROVE  /\ VoiceOK(Stopped(x))
         /\ Ring(Stopped(x)) = <<>>
         /\ Stopped(x).note = x.note
         /\ Stopped(x).stage = "idle" <=> x.stage = "idle"
<1> DEFINE f == Flushed(x)
<1>1. x \in Voice
  BY DEF VoiceOK
<1>2. f \in Voice /\ Ring(f) = <<>> /\ Ring(f) \in Seq(Notes)
  BY <1>1, Flushing
<1>3. f.note = x.note /\ f.stage = x.stage /\ f.shape = x.shape
  BY <1>1 DEF Flushed, Voice
<1>4. VoiceOK(f)
  BY <1>2, <1>3 DEF VoiceOK
<1>5. CASE x.stage \in {"idle", "release"}
  BY <1>2, <1>3, <1>4, <1>5 DEF Stopped
<1>6. CASE x.stage \notin {"idle", "release"}
  <2> HIDE DEF f
  <2>1. Stopped(x) = [f EXCEPT !.stage = "release", !.hold = 0]
    BY <1>6 DEF Stopped, f
  <2>2. PICK y : y = Stopped(x)
    OBVIOUS
  <2>3. y \in Voice /\ y.stage = "release" /\ y.note = f.note /\ y.shape = f.shape
        /\ y.q = f.q /\ y.head = f.head /\ y.tail = f.tail
    <3>1. "release" \in Stages /\ 0 \in Int
      BY DEF Stages
    <3>2. QED BY <1>2, <2>1, <2>2, <3>1 DEF Voice
  <2>4. f.stage # "idle"
    BY <1>3, <1>6
  <2>5. VoiceOK(y) /\ Ring(y) = Ring(f)
    BY <1>4, <2>3, <2>4, SameQueue
  <2>6. QED BY <1>2, <1>3, <1>6, <2>2, <2>3, <2>5
<1>7. QED BY <1>5, <1>6

\* A block of a voice that sounds: it stays in its note until it is idle.
LEMMA Enveloping ==
  ASSUME NEW x, VoiceOK(x), x.stage # "idle"
  PROVE  /\ VoiceOK(AdvanceBlock(x))
         /\ Ring(AdvanceBlock(x)) = Ring(x)
         /\ AdvanceBlock(x).note = x.note
<1> DEFINE h == Held(x)
<1>1. x \in Voice /\ EnvOne \in Nat /\ Block \in Nat
  BY SoundAssumption DEF VoiceOK
<1>2. /\ x.shape.attack \in Nat /\ x.shape.decay \in Nat /\ x.shape.release \in Nat
      /\ x.shape.sustain \in 0 .. EnvOne /\ x.env \in 0 .. EnvOne /\ x.hold \in Int
  BY <1>1 DEF Voice
<1>3. /\ h \in Voice /\ h.stage # "idle" /\ h.env = x.env
      /\ h.note = x.note /\ h.shape = x.shape
      /\ h.q = x.q /\ h.head = x.head /\ h.tail = x.tail
  <2>1. PICK s : s = IF x.hold - Block <= 0 THEN "release" ELSE x.stage
    OBVIOUS
  <2>2. s \in Stages /\ s # "idle" /\ x.hold - Block \in Int
    BY <1>1, <1>2, <2>1 DEF Stages, Voice
  <2>3. h = [x EXCEPT !.hold = x.hold - Block, !.stage = s]
    BY <2>1 DEF Held
  <2>4. QED BY <1>1, <2>2, <2>3 DEF Voice
<1> HIDE DEF h
<1>4. PICK y : y = Envelope(h)
  OBVIOUS
<1>5. AdvanceBlock(x) = y
  BY <1>4 DEF AdvanceBlock, h
<1>6. /\ y \in Voice /\ y.note = h.note /\ y.shape = h.shape
      /\ y.q = h.q /\ y.head = h.head /\ y.tail = h.tail
  <2>1. h.stage \in {"attack", "decay", "sustain", "release"}
    BY <1>3 DEF Voice, Stages
  <2>2. /\ Stages = {"idle", "attack", "decay", "sustain", "release"}
        /\ 0 \in 0 .. EnvOne /\ EnvOne \in 0 .. EnvOne
    BY <1>1 DEF Stages
  <2>3. CASE h.stage = "attack"
    <3>1. y = Attack(h)
      BY <1>4, <2>3 DEF Envelope
    <3>2. CASE h.env + h.shape.attack >= EnvOne
      BY <1>3, <2>2, <3>1, <3>2 DEF Attack, Voice
    <3>3. CASE ~(h.env + h.shape.attack >= EnvOne)
      <4>1. h.env + h.shape.attack \in 0 .. EnvOne
        BY <1>1, <1>2, <1>3, <3>3
      <4>2. y = [h EXCEPT !.env = h.env + h.shape.attack]
        BY <3>1, <3>3 DEF Attack
      <4>3. QED BY <1>3, <4>1, <4>2 DEF Voice
    <3>4. QED BY <3>2, <3>3
  <2>4. CASE h.stage = "decay"
    <3>1. y = Decay(h)
      BY <1>4, <2>4 DEF Envelope
    <3>2. CASE h.env - h.shape.decay <= h.shape.sustain
      <4>1. h.shape.sustain \in 0 .. EnvOne
        BY <1>2, <1>3
      <4>2. y = [h EXCEPT !.env = h.shape.sustain, !.stage = "sustain"]
        BY <3>1, <3>2 DEF Decay
      <4>3. QED BY <1>3, <2>2, <4>1, <4>2 DEF Voice
    <3>3. CASE ~(h.env - h.shape.decay <= h.shape.sustain)
      <4>1. h.env - h.shape.decay \in 0 .. EnvOne
        BY <1>1, <1>2, <1>3, <3>3
      <4>2. y = [h EXCEPT !.env = h.env - h.shape.decay]
        BY <3>1, <3>3 DEF Decay
      <4>3. QED BY <1>3, <4>1, <4>2 DEF Voice
    <3>4. QED BY <3>2, <3>3
  <2>5. CASE h.stage = "sustain"
    BY <1>3, <1>4, <2>5 DEF Envelope
  <2>6. CASE h.stage = "release"
    <3>1. y = Release(h)
      BY <1>4, <2>6 DEF Envelope
    <3>2. CASE h.env - h.shape.release <= 0
      BY <1>3, <2>2, <3>1, <3>2 DEF Release, Voice
    <3>3. CASE ~(h.env - h.shape.release <= 0)
      <4>1. h.env - h.shape.release \in 0 .. EnvOne
        BY <1>1, <1>2, <1>3, <3>3
      <4>2. y = [h EXCEPT !.env = h.env - h.shape.release]
        BY <3>1, <3>3 DEF Release
      <4>3. QED BY <1>3, <4>1, <4>2 DEF Voice
    <3>4. QED BY <3>2, <3>3
  <2>7. QED BY <2>1, <2>3, <2>4, <2>5, <2>6
<1>7. VoiceOK(y) /\ Ring(y) = Ring(x)
  BY <1>3, <1>6, SameQueue
<1>8. QED BY <1>3, <1>5, <1>6, <1>7

\* A block of an idle voice: it starts the note that has waited longest.
LEMMA Sequencing ==
  ASSUME NEW x, VoiceOK(x), x.stage = "idle"
  PROVE  /\ VoiceOK(AdvanceBlock(x))
         /\ Ring(x) = <<>> => AdvanceBlock(x) = x
         /\ Ring(x) # <<>> => /\ Ring(AdvanceBlock(x)) = Tail(Ring(x))
                              /\ AdvanceBlock(x).note = Head(Ring(x))
                              /\ AdvanceBlock(x).stage = "attack"
<1>1. x \in Voice /\ Ring(x) \in Seq(Notes)
  BY DEF VoiceOK
<1>2. AdvanceBlock(x) = NextNote(x)
  BY DEF AdvanceBlock
<1>3. QueueEmpty(x) <=> Ring(x) = <<>>
  BY <1>1, RingIs
<1>4. CASE QueueEmpty(x)
  BY <1>2, <1>3, <1>4 DEF NextNote
<1>5. CASE ~QueueEmpty(x)
  <2>1. PICK y : y = [x EXCEPT !.head = (x.head + 1) % QRing]
    OBVIOUS
  <2>2. (x.head + 1) % QRing \in 0 .. QueueLen
    BY <1>1, NextSlotIs DEF Voice
  <2>3. /\ y \in Voice /\ y.q = x.q /\ y.tail = x.tail
        /\ y.head = (x.head + 1) % QRing
    BY <1>1, <2>1, <2>2 DEF Voice
  <2>4. Ring(y) = Tail(Ring(x)) /\ x.q[x.head] = Head(Ring(x)) /\ Ring(x) # <<>>
    BY <1>1, <1>5, <2>3, Dequeueing, Zenon
  <2>5. Ring(y) \in Seq(Notes) /\ Head(Ring(x)) \in Notes
    BY <1>1, <2>4
  <2>6. AdvanceBlock(x) = StartNote(y, Head(Ring(x)))
    BY <1>2, <1>5, <2>1, <2>4, Zenon DEF NextNote
  <2>7. QED BY <2>3, <2>4, <2>5, <2>6, Starting
<1>6. QED BY <1>4, <1>5

-----------------------------------------------------------------------------
(* Type correctness.                                                       *)

LEMMA VoiceChanges ==
  ASSUME VoicesOK, NEW v \in Voices, NEW y, VoiceOK(y), voice' = [voice EXCEPT ![v] = y]
  PROVE  VoicesOK'
BY DEF VoicesOK, VoiceOK

LEMMA CommandTypes ==
  ASSUME NEW c \in Commands
  PROVE  /\ CommandOK(c) /\ c # Idle
         /\ c.op # "stopsound" => c.voices \in Seq(Voices) /\ c.voices # <<>>
         /\ c.op \in {"sound", "toot"} => c.note \in Notes
<1>1. CommandOK(c)
  BY SoundAssumption
<1>2. QED BY <1>1 DEF CommandOK, Idle

\* The work that each voice of a command begins with.
LEMMA ItemsTypes ==
  ASSUME NEW c \in Commands
  PROVE  /\ c.op = "play" => ItemsOf(c) \in Seq(Notes \cup {Bad})
         /\ c.op = "setenv" => ItemsOf(c) \in Seq(Fields) \ {<<>>}
<1>1. CommandOK(c)
  BY CommandTypes
<1>2. CASE c.op = "play"
  BY <1>1, <1>2 DEF CommandOK, ItemsOf
<1>3. CASE c.op = "setenv"
  <2>1. TimbreFields \in Seq(Fields) /\ TimbreFields # <<>>
    BY DEF TimbreFields, Fields
  <2>2. ItemsOf(c) = TimbreFields
    BY <1>3 DEF ItemsOf
  <2>3. QED BY <1>3, <2>1, <2>2
<1>4. QED BY <1>2, <1>3

LEMMA Returning ==
  ASSUME NEW r \in {"none", "true", "false", "stopped", "error"}, Return(r)
  PROVE  ThreadOK'
BY DEF Return, ThreadOK, PlaceOK

LEMMA Shorter ==
  ASSUME NEW S, NEW s \in Seq(S), s # <<>>, Len(s) # 1
  PROVE  Tail(s) \in Seq(S) /\ Tail(s) # <<>>
<1>1. Tail(s) \in Seq(S)
  OBVIOUS
<1>2. Len(Tail(s)) = Len(s) - 1
  OBVIOUS
<1>3. Len(s) \in Nat
  OBVIOUS
<1>4. Len(Tail(s)) # 0
  BY <1>2, <1>3
<1>5. Len(<<>>) = 0
  OBVIOUS
<1>6. QED BY <1>1, <1>4, <1>5, Zenon

LEMMA NextVoiceTypes ==
  ASSUME ThreadOK, cmd \in Commands, todo # <<>>,
         NEW r \in {"none", "true", "false", "stopped", "error"}, NEW label, NextVoice(label, r),
         \/ label = "gate" /\ cmd.op \in {"sound", "toot"}
         \/ label = "stage" /\ cmd.op \in {"toot", "playing?"}
         \/ label = "store" /\ cmd.op = "setenv"
         \/ label = "queue" /\ cmd.op = "play"
  PROVE  ThreadOK'
<1>1. CASE Len(todo) = 1
  BY <1>1, Returning DEF NextVoice
<1>2. CASE Len(todo) # 1
  <2>1. /\ pc' = label /\ todo' = Tail(todo) /\ items' = ItemsOf(cmd)
        /\ cmd' = cmd /\ result' = result
    BY <1>2 DEF NextVoice
  <2>2. todo' \in Seq(Voices) /\ todo' # <<>>
    BY <1>2, <2>1, Shorter DEF ThreadOK
  <2>3. PlaceOK'
    BY <2>1, <2>2, ItemsTypes DEF PlaceOK
  <2>4. QED BY <2>1, <2>2, <2>3 DEF ThreadOK
<1>3. QED BY <1>1, <1>2

LEMMA NextItemTypes ==
  ASSUME ThreadOK, cmd \in Commands, todo # <<>>, items # <<>>, NEW label, NextItem(label),
         \/ label = "store" /\ cmd.op = "setenv" /\ items \in Seq(Fields)
         \/ label = "queue" /\ cmd.op = "play" /\ items \in Seq(Notes \cup {Bad})
  PROVE  ThreadOK'
<1>1. CASE Len(items) = 1
  BY <1>1, NextVoiceTypes DEF NextItem
<1>2. CASE Len(items) # 1
  <2>1. /\ pc' = label /\ items' = Tail(items)
        /\ cmd' = cmd /\ todo' = todo /\ result' = result
    BY <1>2 DEF NextItem
  <2>2. \/ label = "store" /\ cmd.op = "setenv" /\ items' \in Seq(Fields) \ {<<>>}
        \/ label = "queue" /\ cmd.op = "play" /\ items' \in Seq(Notes \cup {Bad})
    BY <1>2, <2>1, Shorter
  <2>3. PlaceOK'
    BY <2>1, <2>2 DEF PlaceOK
  <2>4. QED BY <2>1, <2>3 DEF ThreadOK
<1>3. QED BY <1>1, <1>2

LEMMA InitTypes == Init => TypeOK
<1> SUFFICES ASSUME Init PROVE TypeOK
  OBVIOUS
<1>1. InitVoice \in Voice /\ InitVoice.head = InitVoice.tail /\ InitVoice.stage = "idle"
  <2>1. /\ 0 \in 0 .. EnvOne /\ 0 \in 0 .. QueueLen /\ "idle" \in Stages
        /\ InitTimbre \in Timbre
    BY SoundAssumption DEF Stages
  <2>2. QED BY <2>1 DEF InitVoice, Voice
<1>2. VoiceOK(InitVoice)
  <2>1. Ring(InitVoice) = <<>>
    BY <1>1, RingIs DEF QueueEmpty
  <2>2. QED BY <1>1, <2>1 DEF VoiceOK
<1>3. VoicesOK
  BY <1>1, <1>2 DEF Init, VoicesOK
<1>4. ThreadOK
  BY DEF Init, ThreadOK, PlaceOK
<1>5. QED BY <1>3, <1>4 DEF Init, TypeOK

\* Every step keeps the voices and the thread in order.
LEMMA RefillTypes ==
  ASSUME TypeOK, Refill
  PROVE  TypeOK'
<1>1. \A v \in Voices : VoiceOK(AdvanceBlock(voice[v])) /\ AdvanceBlock(voice[v]) \in Voice
  BY Sequencing, Enveloping DEF TypeOK, VoicesOK, VoiceOK
<1>2. VoicesOK'
  BY <1>1 DEF Refill, VoicesOK
<1>3. QED BY <1>2 DEF TypeOK, Refill, thread, ThreadOK, PlaceOK

LEMMA NextTypes ==
  ASSUME TypeOK, [Next]_vars
  PROVE  TypeOK'
<1> USE DEF TypeOK
<1>1. /\ VoicesOK /\ brk \in BOOLEAN /\ ThreadOK
      /\ cmd \in Commands \cup {Idle} /\ todo \in Seq(Voices)
  BY DEF ThreadOK
<1>2. pc # "idle" => cmd \in Commands
  <2>1. Idle.op = "idle"
    BY DEF Idle
  <2>2. QED BY <1>1, <2>1 DEF ThreadOK, PlaceOK
<1>3. pc \notin {"idle", "stop"} => todo # <<>> /\ This \in Voices
  BY <1>1 DEF ThreadOK, PlaceOK, This
<1>4. CASE Refill
  BY <1>4, RefillTypes
<1>5. CASE PressBreak
  BY <1>5 DEF PressBreak, thread, VoicesOK, ThreadOK, PlaceOK
<1>6. ASSUME NEW c \in Commands, Issue(c)
      PROVE  TypeOK'
  <2>1. VoicesOK' /\ brk' \in BOOLEAN
    BY <1>6 DEF Issue, VoicesOK
  <2>2. /\ cmd' = c /\ pc' = EntryOf(c) /\ items' = ItemsOf(c) /\ result' = "none"
        /\ todo' = IF c.op = "stopsound" THEN <<>> ELSE c.voices
    BY <1>6 DEF Issue
  <2>3. todo' \in Seq(Voices) /\ (c.op # "stopsound" => todo' # <<>>)
    BY <2>2, CommandTypes
  <2>4. c.op \in {"sound", "toot", "play", "setenv", "playing?", "stopsound"}
    BY CommandTypes DEF CommandOK
  <2>5. PlaceOK'
    <3>1. CASE c.op = "play"
      BY <2>2, <2>3, <3>1, ItemsTypes DEF PlaceOK, EntryOf
    <3>2. CASE c.op = "setenv"
      BY <2>2, <2>3, <3>2, ItemsTypes DEF PlaceOK, EntryOf
    <3>3. CASE c.op = "stopsound"
      BY <2>2, <3>3 DEF PlaceOK, EntryOf
    <3>4. CASE c.op \in {"sound", "toot", "playing?"}
      BY <2>2, <2>3, <3>4 DEF PlaceOK, EntryOf
    <3>5. QED BY <2>4, <3>1, <3>2, <3>3, <3>4
  <2>6. QED BY <2>1, <2>2, <2>3, <2>5 DEF ThreadOK
<1>7. CASE IssueBreak
  BY <1>1, <1>7, Returning DEF IssueBreak, TakeBreak, VoicesOK
<1>8. CASE Gate
  <2>1. cmd \in Commands /\ cmd.op \in {"sound", "toot"} /\ todo # <<>> /\ This \in Voices
    BY <1>2, <1>3, <1>8 DEF Gate, ThreadOK, PlaceOK
  <2>2. VoiceOK(StartNote(Flushed(voice[This]), cmd.note))
    <3>1. cmd.note \in Notes /\ voice[This] \in Voice
      BY <1>1, <2>1, CommandTypes DEF VoicesOK
    <3>2. QED BY <3>1, Flushing, Starting
  <2>3. VoicesOK'
    BY <1>1, <1>8, <2>1, <2>2, VoiceChanges DEF Gate
  <2>4. ThreadOK'
    BY <1>1, <1>8, <2>1, NextVoiceTypes DEF Gate
  <2>5. QED BY <1>1, <1>8, <2>3, <2>4 DEF Gate
<1>9. CASE Stop
  <2>1. VoicesOK'
    BY <1>1, <1>9, Stopping DEF Stop, VoicesOK, VoiceOK
  <2>2. QED BY <1>1, <1>9, <2>1, Returning DEF Stop
<1>10. CASE Store
  <2>1. /\ cmd \in Commands /\ cmd.op = "setenv" /\ todo # <<>> /\ This \in Voices
        /\ items \in Seq(Fields) /\ items # <<>>
    BY <1>2, <1>3, <1>10 DEF Store, ThreadOK, PlaceOK
  <2>2. PICK f, k :
          /\ f = Head(items) /\ k = IF f = "sustain" THEN cmd.env[f] ELSE cmd.env[f] % TimeMod
    OBVIOUS
  <2>3. f \in Fields /\ (f = "sustain" => k \in 0 .. SustainMax) /\ (f # "sustain" => k \in Nat)
    <3>1. f \in Fields
      BY <2>1, <2>2
    <3>2. cmd.env \in Timbre /\ TimeMod \in Nat \ {0}
      BY <2>1, CommandTypes, SoundAssumption DEF CommandOK
    <3>3. cmd.env[f] \in Nat /\ (f = "sustain" => cmd.env[f] \in 0 .. SustainMax)
      BY <3>1, <3>2, SoundAssumption DEF Timbre, Fields
    <3>4. cmd.env[f] % TimeMod \in Nat
      BY <3>2, <3>3
    <3>5. QED BY <2>2, <3>1, <3>3, <3>4
  <2>4. PICK x, y : x = voice[This] /\ y = [x EXCEPT !.timbre = [x.timbre EXCEPT ![f] = k]]
    OBVIOUS
  <2>5. x \in Voice /\ VoiceOK(x)
    BY <1>1, <2>1, <2>4 DEF VoicesOK
  <2>6. [x.timbre EXCEPT ![f] = k] \in Timbre
    <3>1. x.timbre \in Timbre
      BY <2>5 DEF Voice
    <3>2. QED BY <2>3, <3>1 DEF Timbre, Fields
  <2>7. /\ y \in Voice /\ y.q = x.q /\ y.head = x.head /\ y.tail = x.tail
        /\ y.note = x.note /\ y.shape = x.shape /\ y.stage = x.stage
    BY <2>4, <2>5, <2>6 DEF Voice
  <2>8. VoiceOK(y)
    BY <2>5, <2>7, SameQueue
  <2>9. voice' = [voice EXCEPT ![This] = y]
    BY <1>10, <2>2, <2>4 DEF Store
  <2>10. VoicesOK'
    BY <1>1, <2>1, <2>8, <2>9, VoiceChanges
  <2>11. ThreadOK'
    BY <1>1, <1>10, <2>1, NextItemTypes DEF Store
  <2>12. QED BY <1>1, <1>10, <2>10, <2>11 DEF Store
<1>11. CASE QueueNothing
  <2>1. cmd \in Commands /\ cmd.op = "play" /\ todo # <<>>
    BY <1>2, <1>3, <1>11 DEF QueueNothing, ThreadOK, PlaceOK
  <2>2. ThreadOK'
    BY <1>1, <1>11, <2>1, NextVoiceTypes DEF QueueNothing
  <2>3. QED BY <1>1, <1>11, <2>2 DEF QueueNothing, VoicesOK
<1>12. CASE QueueBad
  BY <1>1, <1>12, Returning DEF QueueBad, VoicesOK
<1>13. CASE QueueNote
  <2>1. /\ cmd \in Commands /\ cmd.op = "play" /\ todo # <<>> /\ This \in Voices
        /\ items \in Seq(Notes \cup {Bad}) /\ items # <<>> /\ Head(items) # Bad
    BY <1>2, <1>3, <1>13 DEF QueueNote, ThreadOK, PlaceOK
  <2>2. Head(items) \in Notes
    BY <2>1
  <2>3. CASE QueueFree(voice[This]) = 0
    <3>1. VoicesOK' /\ GoTo("full")
      BY <1>1, <1>13, <2>3 DEF QueueNote, VoicesOK
    <3>2. ThreadOK'
      BY <1>1, <2>1, <3>1 DEF GoTo, ThreadOK, PlaceOK
    <3>3. QED BY <1>1, <1>13, <3>1, <3>2 DEF QueueNote
  <2>4. CASE QueueFree(voice[This]) # 0
    <3>1. voice' = [voice EXCEPT ![This] = Queued(@, Head(items))] /\ NextItem("queue")
      BY <1>13, <2>4 DEF QueueNote
    <3>2. VoiceOK(voice[This])
      BY <1>1, <2>1 DEF VoicesOK
    <3>3. VoiceOK(Queued(voice[This], Head(items)))
      BY <2>2, <2>4, <3>2, QueueingTypes
    <3>4. VoicesOK'
      BY <1>1, <2>1, <3>1, <3>3, VoiceChanges
    <3>5. ThreadOK'
      BY <1>1, <2>1, <3>1, NextItemTypes
    <3>6. QED BY <1>1, <1>13, <3>4, <3>5 DEF QueueNote
  <2>5. QED BY <2>3, <2>4
<1>14. CASE WaitBreak
  BY <1>1, <1>14, Returning DEF WaitBreak, TakeBreak, VoicesOK
<1>15. CASE WaitOn \/ WaitRoom
  <2>1. VoicesOK' /\ brk' = brk
    BY <1>1, <1>15 DEF WaitOn, WaitRoom, VoicesOK
  <2>2. ThreadOK'
    BY <1>1, <1>15 DEF WaitOn, WaitRoom, GoTo, ThreadOK, PlaceOK
  <2>3. QED BY <1>1, <2>1, <2>2
<1>16. CASE StatusStage \/ StatusQueue
  <2>1. /\ cmd \in Commands /\ cmd.op \in {"toot", "playing?"} /\ todo # <<>>
    BY <1>2, <1>3, <1>16 DEF StatusStage, StatusQueue, ThreadOK, PlaceOK
  <2>2. VoicesOK' /\ brk' = brk
    BY <1>1, <1>16 DEF StatusStage, StatusQueue, VoicesOK
  <2>3. Sounding \/ NotSounding \/ GoTo("head")
    BY <1>16 DEF StatusStage, StatusQueue
  <2>4. ASSUME Sounding PROVE ThreadOK'
    BY <1>1, <2>1, <2>4, Returning DEF Sounding, GoTo, ThreadOK, PlaceOK
  <2>5. ASSUME NotSounding PROVE ThreadOK'
    <3>1. CASE cmd.op = "toot" /\ Len(todo) = 1
      <4>1. /\ pc' = "gate" /\ todo' = cmd.voices
            /\ cmd' = cmd /\ items' = items /\ result' = result
        BY <2>5, <3>1 DEF NotSounding
      <4>2. cmd.voices \in Seq(Voices) /\ cmd.voices # <<>>
        BY <2>1, CommandTypes
      <4>3. QED BY <1>1, <3>1, <4>1, <4>2 DEF ThreadOK, PlaceOK
    <3>2. CASE ~(cmd.op = "toot" /\ Len(todo) = 1)
      BY <1>1, <2>1, <2>5, <3>2, NextVoiceTypes DEF NotSounding
    <3>3. QED BY <3>1, <3>2
  <2>6. ASSUME GoTo("head") PROVE ThreadOK'
    BY <1>1, <2>1, <2>6 DEF GoTo, ThreadOK, PlaceOK
  <2>7. QED BY <1>1, <2>2, <2>3, <2>4, <2>5, <2>6
<1>17. CASE TootBreak
  BY <1>1, <1>17, Returning DEF TootBreak, TakeBreak, VoicesOK
<1>18. CASE TootWait
  <2>1. cmd \in Commands /\ cmd.op = "toot"
    BY <1>2, <1>18 DEF TootWait, ThreadOK, PlaceOK
  <2>2. cmd.voices \in Seq(Voices) /\ cmd.voices # <<>>
    BY <2>1, CommandTypes
  <2>3. ThreadOK'
    BY <1>1, <1>18, <2>1, <2>2 DEF TootWait, ThreadOK, PlaceOK
  <2>4. QED BY <1>1, <1>18, <2>3 DEF TootWait, VoicesOK
<1>19. CASE UNCHANGED vars
  BY <1>1, <1>19 DEF vars, thread, VoicesOK, ThreadOK, PlaceOK
<1>20. QED
  BY <1>4, <1>5, <1>6, <1>7, <1>8, <1>9, <1>10, <1>11, <1>12, <1>13, <1>14, <1>15,
     <1>16, <1>17, <1>18, <1>19 DEF Next, Run, Play, Status

\* Whatever the times a program gives setenv, no envelope leaves its range or
\* stands still, only notes wait in a queue, and the thread is at a place
\* where its command has work left.
THEOREM TypeCorrect == Spec => []TypeOK
<1>1. TypeOK /\ [Next]_vars => TypeOK'
  BY NextTypes
<1>2. QED BY InitTypes, <1>1, PTL DEF Spec

-----------------------------------------------------------------------------
(* The engine plays the score.                                             *)

LEMMA PlayingIs ==
  ASSUME VoicesOK, NEW v \in Voices
  PROVE  /\ Pending[v] = Ring(voice[v]) /\ Pending[v] \in Seq(Notes)
         /\ voice[v].stage = "idle" => Playing[v] = Silence
         /\ voice[v].stage # "idle" => Playing[v] = voice[v].note /\ Playing[v] # Silence
BY SoundAssumption DEF VoicesOK, VoiceOK, Pending, Playing

\* A step that gives no voice a note, and takes none, is no step of the score.
LEMMA Stuttering ==
  ASSUME \A v \in Voices : /\ Ring(voice'[v]) = Ring(voice[v])
                           /\ voice'[v].stage = voice[v].stage
                           /\ voice'[v].note = voice[v].note
  PROVE  UNCHANGED TheScore!svars
<1>1. Pending' = Pending
  BY DEF Pending
<1>2. Playing' = Playing
  BY DEF Playing
<1>3. QED BY <1>1, <1>2 DEF TheScore!svars

\* The interrupt: the score lets time pass, and the notes end whose envelope
\* has faded out.
LEMMA RefillPasses ==
  ASSUME VoicesOK, Refill
  PROVE  \E E \in SUBSET Voices : TheScore!Pass(E)
<1> DEFINE E == {v \in Voices : voice[v].stage # "idle" /\ AdvanceBlock(voice[v]).stage = "idle"}
<1>1. \A v \in Voices : voice'[v] = AdvanceBlock(voice[v]) /\ VoiceOK(voice[v])
  BY DEF Refill, VoicesOK
<1>2. TheScore!Due = {v \in Voices : voice[v].stage = "idle" /\ Ring(voice[v]) # <<>>}
  BY PlayingIs DEF TheScore!Due
<1>3. ASSUME NEW v \in Voices
      PROVE  /\ Ring(voice'[v]) = IF v \in TheScore!Due THEN Tail(Pending[v]) ELSE Pending[v]
             /\ Playing'[v] = IF v \in TheScore!Due THEN Head(Pending[v])
                              ELSE IF v \in E THEN Silence ELSE Playing[v]
  <2>1. Pending[v] = Ring(voice[v])
    BY PlayingIs
  <2>2. Playing'[v] = IF voice'[v].stage = "idle" THEN Silence ELSE voice'[v].note
    BY DEF Playing
  <2>3. CASE voice[v].stage = "idle" /\ Ring(voice[v]) # <<>>
    <3>1. /\ Ring(voice'[v]) = Tail(Ring(voice[v]))
          /\ voice'[v].note = Head(Ring(voice[v])) /\ voice'[v].stage = "attack"
      BY <1>1, <2>3, Sequencing
    <3>2. QED BY <1>2, <2>1, <2>2, <2>3, <3>1
  <2>4. CASE voice[v].stage = "idle" /\ Ring(voice[v]) = <<>>
    <3>1. voice'[v] = voice[v]
      BY <1>1, <2>4, Sequencing
    <3>2. Playing[v] = Silence /\ v \notin E /\ v \notin TheScore!Due
      BY <1>2, <2>4, PlayingIs
    <3>3. QED BY <2>1, <2>2, <2>4, <3>1, <3>2
  <2>5. CASE voice[v].stage # "idle"
    <3>1. Ring(voice'[v]) = Ring(voice[v]) /\ voice'[v].note = voice[v].note
      BY <1>1, <2>5, Enveloping
    <3>2. Playing[v] = voice[v].note /\ v \notin TheScore!Due
      BY <1>2, <2>5, PlayingIs
    <3>3. v \in E <=> voice'[v].stage = "idle"
      BY <1>1, <2>5
    <3>4. QED BY <2>1, <2>2, <3>1, <3>2, <3>3
  <2>6. QED BY <2>3, <2>4, <2>5
<1>4. TheScore!Pass(E)
  <2>1. Pending' = [v \in Voices |-> Ring(voice'[v])]
    BY DEF Pending
  <2>2. Playing' = [v \in Voices |-> Playing'[v]]
    BY DEF Playing
  <2> HIDE DEF E
  <2>3. QED BY <1>3, <2>1, <2>2 DEF TheScore!Pass
<1>5. E \in SUBSET Voices
  OBVIOUS
<1>6. QED BY <1>4, <1>5

LEMMA StepImplements ==
  ASSUME TypeOK, [Next]_vars
  PROVE  [TheScore!Next]_(TheScore!svars)
<1>1. VoicesOK /\ ThreadOK /\ cmd \in Commands \cup {Idle} /\ todo \in Seq(Voices)
  BY DEF TypeOK, ThreadOK
<1>2. pc # "idle" => cmd \in Commands
  <2>1. Idle.op = "idle"
    BY DEF Idle
  <2>2. QED BY <1>1, <2>1 DEF ThreadOK, PlaceOK
<1>3. pc \notin {"idle", "stop"} => todo # <<>> /\ This \in Voices
  BY <1>1 DEF ThreadOK, PlaceOK, This
<1>4. \A v \in Voices : voice[v] \in Voice /\ VoiceOK(voice[v])
  BY <1>1 DEF VoicesOK
<1>5. ASSUME UNCHANGED voice PROVE UNCHANGED TheScore!svars
  BY <1>5, Stuttering
<1>6. CASE Refill
  BY <1>1, <1>6, RefillPasses DEF TheScore!Next
<1>7. CASE Gate
  <2>1. This \in Voices /\ cmd.note \in Notes
    BY <1>2, <1>3, <1>7, CommandTypes, <1>1 DEF Gate, ThreadOK, PlaceOK
  <2>2. PICK y : y = StartNote(Flushed(voice[This]), cmd.note)
    OBVIOUS
  <2>3. Ring(y) = <<>> /\ y.note = cmd.note /\ y.stage = "attack"
    BY <1>4, <2>1, <2>2, Flushing, Starting
  <2>4. voice' = [voice EXCEPT ![This] = y] /\ voice \in [Voices -> Voice]
    BY <1>1, <1>7, <2>2 DEF Gate, VoicesOK
  <2>5. Pending' = [Pending EXCEPT ![This] = <<>>]
    BY <2>1, <2>3, <2>4 DEF Pending
  <2>6. Playing' = [Playing EXCEPT ![This] = cmd.note]
    BY <2>1, <2>3, <2>4 DEF Playing
  <2>7. TheScore!Gate(This, cmd.note)
    BY <2>5, <2>6 DEF TheScore!Gate
  <2>8. QED BY <2>1, <2>7 DEF TheScore!Next
<1>8. CASE Stop
  <2>1. \A v \in Voices : /\ Ring(voice'[v]) = <<>> /\ voice'[v].note = voice[v].note
                          /\ voice'[v].stage = "idle" <=> voice[v].stage = "idle"
    BY <1>4, <1>8, Stopping DEF Stop
  <2>2. Pending' = [v \in Voices |-> <<>>] /\ Playing' = Playing
    BY <2>1 DEF Pending, Playing
  <2>3. QED BY <2>2 DEF TheScore!Stop, TheScore!Next
<1>9. CASE Store
  <2>1. This \in Voices
    BY <1>3, <1>9 DEF Store
  <2>2. PICK f, k : voice' = [voice EXCEPT ![This].timbre[f] = k]
    BY <1>9 DEF Store
  <2>3. ASSUME NEW v \in Voices
        PROVE  /\ voice'[v].q = voice[v].q /\ voice'[v].head = voice[v].head
               /\ voice'[v].tail = voice[v].tail /\ voice'[v].stage = voice[v].stage
               /\ voice'[v].note = voice[v].note
    BY <1>1, <2>1, <2>2, <1>4 DEF VoicesOK, Voice
  <2>4. QED BY <2>3, RingSame, Stuttering
<1>10. CASE QueueNote
  <2>1. This \in Voices /\ Head(items) \in Notes
    BY <1>1, <1>3, <1>10 DEF QueueNote, ThreadOK, PlaceOK
  <2>2. CASE QueueFree(voice[This]) = 0
    BY <1>5, <1>10, <2>2 DEF QueueNote
  <2>3. CASE QueueFree(voice[This]) # 0
    <3>1. PICK n, y : n = Head(items) /\ y = Queued(voice[This], n)
      OBVIOUS
    <3>2. /\ Ring(y) = Append(Ring(voice[This]), n) /\ Len(Ring(voice[This])) < QueueLen
      BY <1>4, <2>1, <2>3, <3>1, Queueing DEF VoiceOK
    <3>3. y.stage = voice[This].stage /\ y.note = voice[This].note
      BY <1>4, <2>1, <3>1 DEF Queued, Voice
    <3>4. voice' = [voice EXCEPT ![This] = y] /\ voice \in [Voices -> Voice]
      BY <1>1, <1>10, <2>3, <3>1 DEF QueueNote, VoicesOK
    <3>5. Pending' = [Pending EXCEPT ![This] = Append(Pending[This], n)]
      BY <2>1, <3>2, <3>4 DEF Pending
    <3>6. Playing' = Playing
      BY <2>1, <3>3, <3>4 DEF Playing
    <3>7. TheScore!Add(This, n)
      BY <2>1, <3>2, <3>5, <3>6 DEF TheScore!Add, Pending
    <3>8. QED BY <2>1, <3>1, <3>7 DEF TheScore!Next
  <2>4. QED BY <2>2, <2>3
<1>11. CASE UNCHANGED voice
  BY <1>5, <1>11
<1>12. QED
  BY <1>6, <1>7, <1>8, <1>9, <1>10, <1>11
     DEF Next, Run, Play, Status, vars, PressBreak, Issue, IssueBreak, QueueNothing,
         QueueBad, WaitBreak, WaitOn, WaitRoom, StatusStage, StatusQueue, TootBreak, TootWait

\* For any number of voices, any depth of queue and any commands, rings,
\* envelopes and interrupt together play each voice's score: every accepted
\* note once, in order, none lost but to a flush.
THEOREM PlaysTheScore == Spec => ImplementsScore
<1>1. Init => TheScore!Init
  <2> SUFFICES ASSUME Init PROVE TheScore!Init
    OBVIOUS
  <2>1. VoicesOK
    BY InitTypes DEF TypeOK
  <2>2. \A v \in Voices : /\ voice[v] \in Voice /\ QueueEmpty(voice[v])
                          /\ voice[v].stage = "idle"
    BY <2>1 DEF Init, InitVoice, VoicesOK, QueueEmpty
  <2>3. \A v \in Voices : Ring(voice[v]) = <<>>
    BY <2>2, RingIs
  <2>4. QED BY <2>2, <2>3 DEF TheScore!Init, Pending, Playing
<1>2. TypeOK /\ [Next]_vars => [TheScore!Next]_(TheScore!svars)
  BY StepImplements
<1>3. QED BY <1>1, <1>2, TypeCorrect, PTL DEF Spec, ImplementsScore, TheScore!Spec

-----------------------------------------------------------------------------
(* A toot never cuts another short.  Toots are gated and never queued, so  *)
(* a voice that toot has seen silent may begin a queued note before toot   *)
(* gates it, but never another toot.                                       *)

Spared(v) == voice[v].stage = "idle" \/ voice[v].note \notin TootNotes

NoTootQueued ==
  /\ \A v \in Voices : Ring(voice[v]) \in Seq(Notes \ TootNotes)
  /\ pc \in {"queue", "full", "room"} => items \in Seq((Notes \cup {Bad}) \ TootNotes)

\* The voices of a toot that it has looked at, or is about to gate, are spared.
TootOrder ==
  cmd.op = "toot" =>
    /\ todo \in {<<Left, Right>>, <<Right>>}
    /\ pc = "head" => Spared(This)
    /\ pc \in {"stage", "head"} /\ todo = <<Right>> => Spared(Left)
    /\ pc = "gate" => Spared(Right) /\ (todo = <<Left, Right>> => Spared(Left))

TootInv == NoTootQueued /\ TootOrder

LEMMA Pair ==
  /\ <<Left, Right>> # <<Right>>
  /\ Len(<<Left, Right>>) = 2 /\ Head(<<Left, Right>>) = Left /\ Tail(<<Left, Right>>) = <<Right>>
  /\ Len(<<Right>>) = 1 /\ Head(<<Right>>) = Right
OBVIOUS

\* The notes of a play are no toots.
LEMMA PlayNotes ==
  ASSUME NEW c \in Commands, c.op = "play"
  PROVE  ItemsOf(c) \in Seq((Notes \cup {Bad}) \ TootNotes)
<1>1. c.notes \in Seq(Notes \cup {Bad}) /\ ItemsOf(c) = c.notes
  BY CommandTypes DEF CommandOK, ItemsOf
<1>2. \A i \in 1 .. Len(c.notes) : c.notes[i] \notin TootNotes
  BY TootAssumption DEF TootNotes
<1>3. QED BY <1>1, <1>2

LEMMA TootInit == Init => TootInv
<1> SUFFICES ASSUME Init PROVE TootInv
  OBVIOUS
<1>1. \A v \in Voices : voice[v] \in Voice /\ QueueEmpty(voice[v])
  BY InitTypes DEF Init, InitVoice, TypeOK, VoicesOK, QueueEmpty
<1>2. \A v \in Voices : Ring(voice[v]) = <<>>
  BY <1>1, RingIs
<1>3. pc = "idle" /\ cmd.op = "idle"
  BY DEF Init, Idle
<1>4. <<>> \in Seq(Notes \ TootNotes)
  OBVIOUS
<1>5. NoTootQueued
  BY <1>2, <1>3, <1>4 DEF NoTootQueued
<1>6. TootOrder
  BY <1>3 DEF TootOrder
<1>7. QED BY <1>5, <1>6 DEF TootInv

\* The interrupt starts queued notes only.
LEMMA RefillSpares ==
  ASSUME VoicesOK, NoTootQueued, Refill, NEW v \in Voices
  PROVE  /\ Ring(voice'[v]) \in Seq(Notes \ TootNotes)
         /\ Spared(v) => Spared(v)'
<1>1. voice'[v] = AdvanceBlock(voice[v]) /\ VoiceOK(voice[v])
  BY DEF Refill, VoicesOK
<1>2. Ring(voice[v]) \in Seq(Notes \ TootNotes)
  BY DEF NoTootQueued
<1>3. CASE voice[v].stage # "idle"
  BY <1>1, <1>2, <1>3, Enveloping DEF Spared
<1>4. CASE voice[v].stage = "idle" /\ Ring(voice[v]) = <<>>
  BY <1>1, <1>2, <1>4, Sequencing DEF Spared
<1>5. CASE voice[v].stage = "idle" /\ Ring(voice[v]) # <<>>
  <2>1. /\ Tail(Ring(voice[v])) \in Seq(Notes \ TootNotes)
        /\ Head(Ring(voice[v])) \in Notes \ TootNotes
    BY <1>2, <1>5
  <2>2. QED BY <1>1, <1>5, <2>1, Sequencing DEF Spared
<1>6. QED BY <1>3, <1>4, <1>5

LEMMA QueuesSame ==
  ASSUME NoTootQueued, NEW v \in Voices, NEW y, Ring(y) \in Seq(Notes \ TootNotes),
         voice \in [Voices -> Voice], voice' = [voice EXCEPT ![v] = y]
  PROVE  \A w \in Voices : Ring(voice'[w]) \in Seq(Notes \ TootNotes)
<1>1. \A w \in Voices : voice'[w] = IF w = v THEN y ELSE voice[w]
  OBVIOUS
<1>2. QED BY <1>1 DEF NoTootQueued

LEMMA TootNext ==
  ASSUME TypeOK, TootInv, [Next]_vars
  PROVE  TootInv'
<1>1. /\ VoicesOK /\ ThreadOK /\ todo \in Seq(Voices) /\ cmd \in Commands \cup {Idle}
      /\ NoTootQueued /\ TootOrder /\ voice \in [Voices -> Voice]
      /\ \A v \in Voices : voice[v] \in Voice /\ VoiceOK(voice[v])
  BY DEF TypeOK, ThreadOK, TootInv, VoicesOK
<1>2. Idle.op = "idle"
  BY DEF Idle
<1>3. Left \in Voices /\ Right \in Voices /\ Left # Right
  BY SoundAssumption
<1>4. pc # "idle" => cmd \in Commands
  BY <1>1, <1>2 DEF ThreadOK, PlaceOK
<1>5. pc \notin {"idle", "stop"} => todo # <<>> /\ This \in Voices
  BY <1>1 DEF ThreadOK, PlaceOK, This
<1>6. ASSUME NEW r, Return(r), \A v \in Voices : Ring(voice'[v]) \in Seq(Notes \ TootNotes)
      PROVE  TootInv'
  BY <1>2, <1>6 DEF Return, TootInv, NoTootQueued, TootOrder
<1>7. ASSUME UNCHANGED voice
      PROVE  /\ \A v \in Voices : Ring(voice'[v]) \in Seq(Notes \ TootNotes)
             /\ Spared(Left)' <=> Spared(Left)
             /\ Spared(Right)' <=> Spared(Right)
  BY <1>1, <1>7 DEF NoTootQueued, Spared
<1>8. CASE Refill
  <2>1. \A v \in Voices : Ring(voice'[v]) \in Seq(Notes \ TootNotes) /\ (Spared(v) => Spared(v)')
    BY <1>1, <1>8, RefillSpares
  <2>2. cmd' = cmd /\ pc' = pc /\ todo' = todo /\ items' = items /\ This' = This
    BY <1>8 DEF Refill, thread, This
  <2>3. NoTootQueued'
    BY <1>1, <2>1, <2>2 DEF NoTootQueued
  <2>4. TootOrder'
    <3>1. pc = "head" /\ Spared(This) => Spared(This)'
      BY <1>5, <2>1, <2>2 DEF Spared
    <3>2. (Spared(Left) => Spared(Left)') /\ (Spared(Right) => Spared(Right)')
      BY <1>3, <2>1
    <3>3. QED BY <1>1, <2>2, <3>1, <3>2 DEF TootOrder
  <2>5. QED BY <2>3, <2>4 DEF TootInv
<1>9. ASSUME NEW c \in Commands, Issue(c)
      PROVE  TootInv'
  <2>1. /\ cmd' = c /\ pc' = EntryOf(c) /\ items' = ItemsOf(c) /\ voice' = voice
        /\ todo' = IF c.op = "stopsound" THEN <<>> ELSE c.voices
        /\ CommandOK(c)
    BY <1>9, CommandTypes DEF Issue
  <2>2. NoTootQueued'
    <3>1. pc' = "queue" => c.op = "play"
      BY <2>1 DEF EntryOf, CommandOK
    <3>2. pc' \notin {"full", "room"}
      BY <2>1 DEF EntryOf, CommandOK
    <3>3. QED BY <1>1, <2>1, <3>1, <3>2, PlayNotes DEF NoTootQueued
  <2>3. TootOrder'
    <3>1. CASE c.op = "toot"
      BY <2>1, <3>1, Pair DEF EntryOf, CommandOK, TootOrder
    <3>2. CASE c.op # "toot"
      BY <2>1, <3>2 DEF TootOrder
    <3>3. QED BY <3>1, <3>2
  <2>4. QED BY <2>2, <2>3 DEF TootInv
<1>10. CASE Gate
  <2>1. This \in Voices /\ cmd \in Commands /\ cmd.op \in {"sound", "toot"} /\ pc = "gate"
    BY <1>1, <1>4, <1>5, <1>10 DEF Gate, ThreadOK, PlaceOK
  <2>2. PICK y : y = StartNote(Flushed(voice[This]), cmd.note)
    OBVIOUS
  <2>3. Ring(y) = <<>> /\ Ring(y) \in Seq(Notes \ TootNotes)
    BY <1>1, <2>1, <2>2, Flushing, Starting, CommandTypes
  <2>4. voice' = [voice EXCEPT ![This] = y] /\ NextVoice("gate", "none")
    BY <1>10, <2>2 DEF Gate
  <2>5. \A v \in Voices : Ring(voice'[v]) \in Seq(Notes \ TootNotes)
    BY <1>1, <2>1, <2>3, <2>4, QueuesSame
  <2>6. CASE Len(todo) = 1
    BY <1>6, <2>4, <2>5, <2>6 DEF NextVoice
  <2>7. CASE Len(todo) # 1
    <3>1. pc' = "gate" /\ cmd' = cmd /\ todo' = Tail(todo)
      BY <2>4, <2>7 DEF NextVoice
    <3>2. NoTootQueued'
      BY <2>5, <3>1 DEF NoTootQueued
    <3>3. CASE cmd.op = "toot"
      <4>1. todo = <<Left, Right>> /\ Spared(Right)
        BY <1>1, <2>1, <2>7, <3>3, Pair DEF TootOrder
      <4>2. This = Left /\ todo' = <<Right>>
        BY <3>1, <4>1, Pair DEF This
      <4>3. Spared(Right)'
        BY <1>1, <1>3, <2>4, <4>1, <4>2 DEF Spared
      <4>4. TootOrder'
        BY <3>1, <4>2, <4>3, Pair DEF TootOrder
      <4>5. QED BY <3>2, <4>4 DEF TootInv
    <3>4. CASE cmd.op # "toot"
      BY <3>1, <3>2, <3>4 DEF TootInv, TootOrder
    <3>5. QED BY <3>3, <3>4
  <2>8. QED BY <2>6, <2>7
<1>11. CASE Stop
  <2>1. \A v \in Voices : Ring(voice'[v]) = <<>>
    BY <1>1, <1>11, Stopping DEF Stop
  <2>2. <<>> \in Seq(Notes \ TootNotes)
    OBVIOUS
  <2>3. \A v \in Voices : Ring(voice'[v]) \in Seq(Notes \ TootNotes)
    BY <2>1, <2>2, Zenon
  <2>4. QED BY <1>6, <1>11, <2>3 DEF Stop
<1>12. CASE Store
  <2>1. This \in Voices /\ cmd.op = "setenv"
    BY <1>1, <1>5, <1>12 DEF Store, ThreadOK, PlaceOK
  <2>2. PICK f, k : voice' = [voice EXCEPT ![This].timbre[f] = k]
    BY <1>12 DEF Store
  <2>3. ASSUME NEW v \in Voices
        PROVE  /\ voice'[v].q = voice[v].q /\ voice'[v].head = voice[v].head
               /\ voice'[v].tail = voice[v].tail
    BY <1>1, <2>1, <2>2 DEF Voice
  <2>4. \A v \in Voices : Ring(voice'[v]) \in Seq(Notes \ TootNotes)
    <3>1. ASSUME NEW v \in Voices PROVE Ring(voice'[v]) = Ring(voice[v])
      BY <2>3, RingSame, Zenon
    <3>2. \A v \in Voices : Ring(voice[v]) \in Seq(Notes \ TootNotes)
      BY <1>1 DEF NoTootQueued
    <3>3. QED BY <3>1, <3>2, Zenon
  <2>5. CASE \E r : Return(r)
    BY <1>6, <2>4, <2>5
  <2>6. CASE ~ \E r : Return(r)
    <3>1. cmd' = cmd /\ pc' = "store"
      BY <1>12, <2>6 DEF Store, NextItem, NextVoice
    <3>2. QED BY <2>1, <2>4, <3>1 DEF TootInv, NoTootQueued, TootOrder
  <2>7. QED BY <2>5, <2>6
<1>13. CASE QueueNothing
  <2>1. cmd \in Commands /\ cmd.op = "play" /\ voice' = voice
    BY <1>1, <1>4, <1>13 DEF QueueNothing, ThreadOK, PlaceOK
  <2>2. CASE Len(todo) = 1
    BY <1>6, <1>7, <1>13, <2>1, <2>2 DEF QueueNothing, NextVoice
  <2>3. CASE Len(todo) # 1
    <3>1. cmd' = cmd /\ items' = ItemsOf(cmd)
      BY <1>13, <2>3 DEF QueueNothing, NextVoice
    <3>2. QED BY <1>7, <2>1, <3>1, PlayNotes DEF TootInv, NoTootQueued, TootOrder
  <2>4. QED BY <2>2, <2>3
<1>14. CASE QueueNote
  <2>1. /\ cmd \in Commands /\ cmd.op = "play" /\ This \in Voices
        /\ items \in Seq(Notes \cup {Bad}) /\ items # <<>> /\ Head(items) # Bad
        /\ items \in Seq((Notes \cup {Bad}) \ TootNotes)
    BY <1>1, <1>4, <1>5, <1>14 DEF QueueNote, ThreadOK, PlaceOK, NoTootQueued
  <2>2. PICK n : n = Head(items)
    OBVIOUS
  <2>3. n \in Notes \ TootNotes
    BY <2>1, <2>2
  <2>4. CASE QueueFree(voice[This]) = 0
    <3>1. cmd' = cmd /\ items' = items /\ voice' = voice
      BY <1>14, <2>4 DEF QueueNote, GoTo
    <3>2. QED BY <1>7, <2>1, <3>1 DEF TootInv, NoTootQueued, TootOrder
  <2>5. CASE QueueFree(voice[This]) # 0
    <3>1. voice' = [voice EXCEPT ![This] = Queued(@, Head(items))] /\ NextItem("queue")
      BY <1>14, <2>5 DEF QueueNote
    <3>2. PICK y : y = Queued(voice[This], n)
      OBVIOUS
    <3>3. Ring(y) = Append(Ring(voice[This]), n)
      BY <1>1, <2>1, <2>3, <2>5, <3>2, Queueing DEF VoiceOK
    <3>4. Ring(y) \in Seq(Notes \ TootNotes)
      BY <1>1, <2>1, <2>3, <3>3 DEF NoTootQueued
    <3>5. \A v \in Voices : Ring(voice'[v]) \in Seq(Notes \ TootNotes)
      BY <1>1, <2>1, <2>2, <3>1, <3>2, <3>4, QueuesSame
    <3>6. CASE \E r : Return(r)
      BY <1>6, <3>5, <3>6
    <3>7. CASE ~ \E r : Return(r)
      <4>1. cmd' = cmd /\ (items' = Tail(items) \/ items' = ItemsOf(cmd))
        BY <3>1, <3>7 DEF NextItem, NextVoice
      <4>2. Tail(items) \in Seq((Notes \cup {Bad}) \ TootNotes)
        BY <2>1
      <4>3. items' \in Seq((Notes \cup {Bad}) \ TootNotes)
        BY <2>1, <4>1, <4>2, PlayNotes
      <4>4. QED BY <2>1, <3>5, <4>1, <4>3 DEF TootInv, NoTootQueued, TootOrder
    <3>8. QED BY <3>6, <3>7
  <2>6. QED BY <2>4, <2>5
<1>15. CASE WaitOn \/ WaitRoom
  <2>1. /\ voice' = voice /\ cmd' = cmd /\ items' = items
        /\ cmd.op = "play" /\ pc \in {"full", "room"}
    BY <1>1, <1>15 DEF WaitOn, WaitRoom, GoTo, ThreadOK, PlaceOK
  <2>2. QED BY <1>1, <1>7, <2>1 DEF TootInv, NoTootQueued, TootOrder
<1>16. CASE QueueBad \/ WaitBreak \/ TootBreak \/ IssueBreak
  BY <1>6, <1>7, <1>16 DEF QueueBad, WaitBreak, TootBreak, IssueBreak
<1>17. CASE StatusStage
  <2>1. voice' = voice /\ cmd \in Commands /\ pc = "stage" /\ cmd.op \in {"toot", "playing?"}
    BY <1>1, <1>4, <1>17 DEF StatusStage, ThreadOK, PlaceOK
  <2>2. CASE voice[This].stage # "idle"
    <3>1. Sounding
      BY <1>17, <2>2 DEF StatusStage
    <3>2. QED BY <1>1, <1>6, <1>7, <2>1, <3>1
              DEF Sounding, GoTo, TootInv, NoTootQueued, TootOrder
  <2>3. CASE voice[This].stage = "idle"
    <3>1. pc' = "head" /\ cmd' = cmd /\ todo' = todo /\ This' = This
      BY <1>17, <2>3 DEF StatusStage, GoTo, This
    <3>2. Spared(This)'
      BY <2>1, <2>3, <3>1 DEF Spared
    <3>3. NoTootQueued'
      BY <1>7, <2>1, <3>1 DEF NoTootQueued
    <3>4. TootOrder'
      BY <1>1, <1>7, <2>1, <3>1, <3>2 DEF TootOrder
    <3>5. QED BY <3>3, <3>4 DEF TootInv
  <2>4. QED BY <2>2, <2>3
<1>18. CASE StatusQueue
  <2>1. voice' = voice /\ cmd \in Commands /\ pc = "head" /\ cmd.op \in {"toot", "playing?"}
    BY <1>1, <1>4, <1>18 DEF StatusQueue, ThreadOK, PlaceOK
  <2>2. CASE Sounding
    BY <1>1, <1>6, <1>7, <2>1, <2>2 DEF Sounding, GoTo, TootInv, NoTootQueued, TootOrder
  <2>3. CASE NotSounding
    <3>1. CASE cmd.op = "toot"
      <4>1. todo \in {<<Left, Right>>, <<Right>>} /\ Spared(This) /\ CommandOK(cmd)
        BY <1>1, <2>1, <3>1, CommandTypes DEF TootOrder
      <4>2. CASE todo = <<Left, Right>>
        <5>1. This = Left /\ pc' = "stage" /\ todo' = <<Right>> /\ cmd' = cmd
          BY <2>3, <3>1, <4>2, Pair DEF NotSounding, NextVoice, This
        <5>2. NoTootQueued' /\ Spared(Left)'
          BY <1>7, <2>1, <4>1, <5>1 DEF NoTootQueued
        <5>3. QED BY <5>1, <5>2 DEF TootInv, TootOrder
      <4>3. CASE todo = <<Right>>
        <5>1. This = Right /\ pc' = "gate" /\ todo' = <<Left, Right>> /\ cmd' = cmd
          BY <2>3, <3>1, <4>1, <4>3, Pair DEF NotSounding, This, CommandOK
        <5>2. Spared(Left)
          BY <1>1, <2>1, <3>1, <4>3 DEF TootOrder
        <5>3. NoTootQueued' /\ Spared(Left)' /\ Spared(Right)'
          BY <1>7, <2>1, <4>1, <5>1, <5>2 DEF NoTootQueued
        <5>4. QED BY <5>1, <5>3 DEF TootInv, TootOrder
      <4>4. QED BY <4>1, <4>2, <4>3
    <3>2. CASE cmd.op # "toot"
      <4>1. CASE Len(todo) = 1
        BY <1>6, <1>7, <2>1, <2>3, <3>2, <4>1 DEF NotSounding, NextVoice
      <4>2. CASE Len(todo) # 1
        <5>1. pc' = "stage" /\ cmd' = cmd
          BY <2>3, <3>2, <4>2 DEF NotSounding, NextVoice
        <5>2. QED BY <1>7, <2>1, <3>2, <5>1 DEF TootInv, NoTootQueued, TootOrder
      <4>3. QED BY <4>1, <4>2
    <3>3. QED BY <3>1, <3>2
  <2>4. QED BY <1>18, <2>2, <2>3 DEF StatusQueue
<1>19. CASE TootWait
  <2>1. voice' = voice /\ cmd \in Commands /\ cmd.op = "toot" /\ cmd' = cmd
    BY <1>1, <1>4, <1>19 DEF TootWait, ThreadOK, PlaceOK
  <2>2. pc' = "stage" /\ todo' = <<Left, Right>>
    BY <1>19, <2>1, CommandTypes DEF TootWait, CommandOK
  <2>3. QED BY <1>7, <2>1, <2>2, Pair DEF TootInv, NoTootQueued, TootOrder
<1>20. CASE UNCHANGED <<voice, thread>>
  BY <1>1, <1>7, <1>20 DEF thread, TootInv, NoTootQueued, TootOrder, Spared, This
<1>21. QED
  BY <1>8, <1>9, <1>10, <1>11, <1>12, <1>13, <1>14, <1>15, <1>16, <1>17, <1>18, <1>19, <1>20
     DEF Next, Run, Play, Status, vars, PressBreak

\* However the interrupt falls between the looks of toot at its voices, and
\* between its looks and its gates, a toot never cuts another toot short.
THEOREM TootsWait == Spec => []TootWaits
<1>1. Init => TypeOK /\ TootInv
  BY InitTypes, TootInit
<1>2. TypeOK /\ TootInv /\ [Next]_vars => TypeOK' /\ TootInv'
  BY NextTypes, TootNext
<1>3. TypeOK /\ TootInv => TootWaits
  <2> SUFFICES ASSUME TypeOK, TootInv, pc = "gate", cmd.op = "toot"
               PROVE  Spared(This)
    BY DEF TootWaits, Spared
  <2>1. /\ todo \in {<<Left, Right>>, <<Right>>} /\ Spared(Right)
        /\ todo = <<Left, Right>> => Spared(Left)
    BY DEF TootInv, TootOrder
  <2>2. QED BY <2>1, Pair DEF This
<1>4. QED BY <1>1, <1>2, <1>3, PTL DEF Spec
=============================================================================
