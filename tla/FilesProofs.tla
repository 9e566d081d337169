----------------------------- MODULE FilesProofs -----------------------------
(***************************************************************************)
(* Proofs about Files, for every size of the stream table, every set of    *)
(* names and chunks, and whichever errors the volumes report.              *)
(***************************************************************************)
EXTENDS Files, SequenceTheorems, FiniteSetTheorems, WellFoundedInduction, TLAPS

-----------------------------------------------------------------------------
(* A stream and the file under it.                                         *)

Stored(d) == \A k \in DOMAIN d : d[k] \in Seq(Chunks)

\* What other streams can rely on: no file on the card goes or gets shorter.
Grows(d, e) ==
  \A k \in DOMAIN d : k.vol = "card" => k \in DOMAIN e /\ Len(d[k]) <= Len(e[k])

Fields == {"name", "gen", "rpos", "wpos", "buf", "dirty", "err", "bad", "lost"}
IsStream(h) == DOMAIN h = Fields /\ h = [f \in DOMAIN h |-> h[f]]

\* A stream is sound when its file is there and its cursors are within it;
\* what a stale stream names is no matter.
Within(h, n) == h.rpos \in 0 .. n /\ h.wpos \in 0 .. n
Sound(h, d, g) ==
  /\ IsStream(h)
  /\ h.gen \in 0 .. g /\ h.rpos \in Nat /\ h.wpos \in Nat
  /\ OnCard(h.name) /\ h.gen = g => Key(h.name) \in DOMAIN d /\ Within(h, Len(d[Key(h.name)]))
  /\ ~OnCard(h.name) => h.buf \in Seq(Chunks) /\ Within(h, Len(h.buf))

LEMMA KeyVol == \A n : Key(n).vol = IF OnCard(n) THEN "card" ELSE "root"
  BY DEF Key

\* A stream is not the mark of a free slot.
LEMMA StreamNotFree == \A h : IsStream(h) => h # Free
  BY DEF IsStream, Fields, Free

LEMMA SoundGrows ==
  ASSUME NEW h, NEW d, NEW e, NEW g, Sound(h, d, g), Grows(d, e), Stored(d), Stored(e)
  PROVE  Sound(h, e, g)
<1>1. ASSUME OnCard(h.name), h.gen = g
      PROVE  Key(h.name) \in DOMAIN e /\ Within(h, Len(e[Key(h.name)]))
  <2>1. Key(h.name) \in DOMAIN d /\ Within(h, Len(d[Key(h.name)]))
    BY <1>1 DEF Sound
  <2>2. Key(h.name) \in DOMAIN e /\ Len(d[Key(h.name)]) <= Len(e[Key(h.name)])
    BY <1>1, <2>1, KeyVol DEF Grows
  <2>3. Len(d[Key(h.name)]) \in Nat /\ Len(e[Key(h.name)]) \in Nat
    BY <2>1, <2>2 DEF Stored
  <2>4. h.rpos \in Nat /\ h.wpos \in Nat
    BY DEF Sound
  <2>5. QED BY <2>1, <2>2, <2>3, <2>4 DEF Within
<1>2. QED BY <1>1 DEF Sound

\* Growth in two steps.
LEMMA GrowsTwice ==
  ASSUME NEW d, NEW e, NEW f, Stored(d), Stored(e), Stored(f), Grows(d, e), Grows(e, f)
  PROVE  Grows(d, f)
<1> SUFFICES ASSUME NEW k \in DOMAIN d, k.vol = "card"
             PROVE  k \in DOMAIN f /\ Len(d[k]) <= Len(f[k])
  BY DEF Grows
<1>1. k \in DOMAIN e /\ Len(d[k]) <= Len(e[k])
  BY DEF Grows
<1>2. k \in DOMAIN f /\ Len(e[k]) <= Len(f[k])
  BY <1>1 DEF Grows
<1>3. Len(d[k]) \in Nat /\ Len(e[k]) \in Nat /\ Len(f[k]) \in Nat
  BY <1>1, <1>2 DEF Stored
<1>4. QED BY <1>1, <1>2, <1>3

LEMMA GrowsSame == \A d : Stored(d) => Grows(d, d)
<1> SUFFICES ASSUME NEW d, Stored(d), NEW k \in DOMAIN d PROVE Len(d[k]) <= Len(d[k])
  BY DEF Grows
<1>1. Len(d[k]) \in Nat
  BY DEF Stored
<1>2. QED BY <1>1

\* Opening leaves every file as it is, and the stream is at its end.
LEMMA CreatedIs ==
  ASSUME NEW d, NEW n, Stored(d)
  PROVE  /\ Stored(Created(d, n)) /\ Grows(d, Created(d, n))
         /\ DOMAIN Created(d, n) = DOMAIN d \cup {Key(n)}
         /\ \A k \in DOMAIN d : Created(d, n)[k] = d[k]
         /\ Key(n) \notin DOMAIN d => Created(d, n)[Key(n)] = <<>>
<1>1. CASE Key(n) \in DOMAIN d
  BY <1>1, GrowsSame DEF Created
<1>2. CASE Key(n) \notin DOMAIN d
  <2>1. Created(d, n) = [k \in DOMAIN d \cup {Key(n)} |-> IF k = Key(n) THEN <<>> ELSE d[k]]
    BY <1>2 DEF Created
  <2>2. /\ DOMAIN Created(d, n) = DOMAIN d \cup {Key(n)}
        /\ \A k \in DOMAIN d : Created(d, n)[k] = d[k]
        /\ Created(d, n)[Key(n)] = <<>>
    BY <1>2, <2>1
  <2>3. Stored(Created(d, n))
    BY <2>2, EmptySeq DEF Stored
  <2>4. Grows(d, Created(d, n))
    BY <2>2, GrowsSame DEF Grows
  <2>5. QED BY <2>2, <2>3, <2>4
<1>3. QED BY <1>1, <1>2

LEMMA FreshSound ==
  ASSUME NEW d, NEW n, Stored(d), gen \in Nat
  PROVE  /\ Sound(Fresh(d, n), Created(d, n), gen)
         /\ Fresh(d, n).name = n /\ ~Fresh(d, n).err /\ ~Fresh(d, n).lost
         /\ Fresh(d, n).rpos = 0 /\ Fresh(d, n).wpos = Len(Created(d, n)[Key(n)])
         /\ View(Created(d, n), Fresh(d, n)) = Created(d, n)[Key(n)]
<1> DEFINE data == Created(d, n)[Key(n)]
           h == Fresh(d, n)
<1>1. h = [name |-> n, gen |-> IF OnCard(n) THEN gen ELSE 0, rpos |-> 0, wpos |-> Len(data),
           buf |-> IF OnCard(n) THEN <<>> ELSE data, dirty |-> FALSE, err |-> FALSE, bad |-> FALSE, lost |-> FALSE]
  BY DEF Fresh
<1>2. data \in Seq(Chunks) /\ Key(n) \in DOMAIN Created(d, n)
  BY CreatedIs DEF Stored
<1>3. Len(data) \in Nat /\ 0 \in 0 .. Len(data) /\ Len(data) \in 0 .. Len(data)
  BY <1>2
<1>4. 0 \in 0 .. gen /\ gen \in 0 .. gen
  OBVIOUS
<1> HIDE DEF h, data
<1>5. /\ h.name = n /\ h.gen = (IF OnCard(n) THEN gen ELSE 0) /\ h.rpos = 0 /\ h.wpos = Len(data)
      /\ h.buf = (IF OnCard(n) THEN <<>> ELSE data) /\ IsStream(h) /\ ~h.err /\ ~h.lost
  BY <1>1 DEF IsStream, Fields
<1>6. View(Created(d, n), h) = data
  BY <1>5 DEF View, data
<1>7. Sound(h, Created(d, n), gen)
  BY <1>2, <1>3, <1>4, <1>5 DEF Sound, Within, data
<1>8. QED BY <1>5, <1>6, <1>7 DEF h, data

\* A chunk written over a file, or after its last one.
LEMMA OverlayIs ==
  ASSUME NEW s \in Seq(Chunks), NEW pos \in 0 .. Len(s), NEW c \in Chunks
  PROVE  /\ Overlay(s, pos, c) \in Seq(Chunks)
         /\ Len(Overlay(s, pos, c)) >= Len(s) /\ Len(Overlay(s, pos, c)) >= pos + 1
         /\ pos = Len(s) => Overlay(s, pos, c) = Append(s, c)
<1> DEFINE a == SubSeq(s, 1, pos)
           z == SubSeq(s, pos + 2, Len(s))
<1>1. pos \in Nat /\ Len(s) \in Nat /\ pos <= Len(s)
  OBVIOUS
<1>2. a \in Seq(Chunks) /\ Len(a) = pos
  <2>1. \A i \in 1 .. pos : s[i] \in Chunks
    BY <1>1
  <2>2. a \in Seq(Chunks) /\ Len(a) = IF 1 <= pos THEN pos - 1 + 1 ELSE 0
    BY <1>1, <2>1, SubSeqProperties
  <2>3. QED BY <1>1, <2>2
<1>3. z \in Seq(Chunks) /\ Len(z) = IF pos + 2 <= Len(s) THEN Len(s) - (pos + 2) + 1 ELSE 0
  <2>1. \A i \in pos + 2 .. Len(s) : s[i] \in Chunks
    BY <1>1
  <2>2. QED BY <1>1, <2>1, SubSeqProperties
<1>4. <<c>> \in Seq(Chunks) /\ Len(<<c>>) = 1
  OBVIOUS
<1> HIDE DEF a, z
<1>5. a \o <<c>> \in Seq(Chunks) /\ Len(a \o <<c>>) = pos + 1
  BY <1>2, <1>4, ConcatProperties
<1>6. (a \o <<c>>) \o z \in Seq(Chunks) /\ Len((a \o <<c>>) \o z) = pos + 1 + Len(z)
  <2> DEFINE b == a \o <<c>>
  <2> HIDE DEF b
  <2>1. b \in Seq(Chunks) /\ Len(b) = pos + 1
    BY <1>5 DEF b
  <2>2. b \o z \in Seq(Chunks) /\ Len(b \o z) = Len(b) + Len(z)
    BY <1>3, <2>1, ConcatProperties
  <2>3. QED BY <2>1, <2>2 DEF b
<1>7. Overlay(s, pos, c) = (a \o <<c>>) \o z
  BY DEF Overlay, a, z
<1>8. ASSUME pos = Len(s) PROVE Overlay(s, pos, c) = Append(s, c)
  <2>1. a = s
    BY <1>8, SubSeqFull DEF a
  <2>2. z = <<>>
    BY <1>1, <1>8, SubSeqEmpty DEF z
  <2>3. (a \o <<c>>) \o z = a \o <<c>>
    BY <1>5, <2>2, ConcatEmptySeq
  <2>4. QED BY <1>7, <2>1, <2>3, AppendIsConcat
<1> DEFINE all == (a \o <<c>>) \o z
<1> HIDE DEF all
<1>9. Len(all) >= Len(s) /\ Len(all) >= pos + 1 /\ all \in Seq(Chunks)
  <2>1. Len(z) \in Nat /\ Len(z) >= Len(s) - (pos + 1)
    BY <1>1, <1>3
  <2>2. Len(all) = pos + 1 + Len(z) /\ all \in Seq(Chunks)
    BY <1>6 DEF all
  <2>3. QED BY <1>1, <2>1, <2>2
<1>10. QED BY <1>7, <1>8, <1>9 DEF all

\* A stream that was refused, or whose error was read, is otherwise the same.
SameStream(h, j) ==
  /\ IsStream(j) /\ j.name = h.name /\ j.gen = h.gen /\ j.rpos = h.rpos /\ j.wpos = h.wpos
  /\ j.buf = h.buf

LEMMA Marks ==
  ASSUME NEW h, IsStream(h)
  PROVE  /\ SameStream(h, Refused(h)) /\ Refused(h).err /\ Refused(h).lost = h.lost
         /\ SameStream(h, Cleared(h))
         /\ \A ks : SameStream(h, Orphan(h, ks))
<1>1. /\ DOMAIN Refused(h) = Fields
      /\ Refused(h) = [f \in DOMAIN Refused(h) |-> Refused(h)[f]]
  BY DEF Refused, IsStream
<1>2. /\ Refused(h).name = h.name /\ Refused(h).gen = h.gen /\ Refused(h).rpos = h.rpos
      /\ Refused(h).wpos = h.wpos /\ Refused(h).buf = h.buf
  BY DEF Refused, IsStream, Fields
<1>3. Refused(h).err /\ Refused(h).lost = h.lost
  BY DEF Refused, IsStream, Fields
<1> DEFINE j == [h EXCEPT !.err = FALSE]
           k == [h EXCEPT !.lost = TRUE]
<1>4. SameStream(h, h)
  BY DEF SameStream
<1>5. SameStream(h, j)
  BY DEF SameStream, IsStream, Fields
<1>6. SameStream(h, k)
  BY DEF SameStream, IsStream, Fields
<1> HIDE DEF j, k
<1>7. Cleared(h) = h \/ Cleared(h) = j
  BY DEF Cleared, j
<1>8. \A ks : Orphan(h, ks) = h \/ Orphan(h, ks) = k
  BY DEF Orphan, k
<1>9. SameStream(h, Refused(h))
  BY <1>1, <1>2 DEF SameStream, IsStream
<1>10. QED BY <1>3, <1>4, <1>5, <1>6, <1>7, <1>8, <1>9

LEMMA SameSound ==
  ASSUME NEW h, NEW j, NEW d, NEW g, Sound(h, d, g), SameStream(h, j)
  PROVE  Sound(j, d, g)
  BY DEF Sound, SameStream, Within

\* One write: the file is whole after it, and so are its streams.
Wrote(d, h, c, w) ==
  /\ Stored(w.d) /\ Grows(d, w.d) /\ Sound(w.h, w.d, gen)
  /\ w.h.name = h.name /\ w.h.lost = h.lost /\ w.h.rpos = h.rpos
  /\ DOMAIN w.d = DOMAIN d /\ \A k \in DOMAIN d : k # Key(h.name) => w.d[k] = d[k]
  /\ w.h.err \/ /\ w.h.wpos = h.wpos + 1 /\ w.h.err = h.err
                /\ View(w.d, w.h) = Overlay(View(d, h), h.wpos, c)
                /\ OnCard(h.name) \/ w.h.dirty

LEMMA WriteIs ==
  ASSUME NEW d, NEW h, NEW c \in Chunks, NEW ok, Stored(d), Sound(h, d, gen),
         NEW w, w = WriteBytes(d, h, c, ok)
  PROVE  Wrote(d, h, c, w)
<1> USE DEF Wrote
<1> DEFINE after == Overlay(View(d, h), h.wpos, c)
<1>0. IsStream(h)
  BY DEF Sound
<1>1. CASE Stale(h) \/ ~ok
  <2>1. w = [d |-> d, h |-> Refused(h)]
    BY <1>1, Zenon DEF WriteBytes
  <2>2. w.d = d /\ w.h = Refused(h)
    BY <2>1
  <2>3. SameStream(h, w.h) /\ w.h.err /\ w.h.lost = h.lost
    BY <1>0, <2>2, Marks
  <2>4. Sound(w.h, w.d, gen)
    BY <2>2, <2>3, SameSound
  <2>5. QED BY <2>2, <2>3, <2>4, GrowsSame DEF SameStream
<1>2. CASE ~Stale(h) /\ ok
  <2>1. View(d, h) \in Seq(Chunks) /\ h.wpos \in 0 .. Len(View(d, h)) /\ h.rpos \in 0 .. Len(View(d, h))
    BY <1>2 DEF Stale, View, Sound, Within, Stored
  <2>2. after \in Seq(Chunks) /\ Len(after) >= Len(View(d, h)) /\ Len(after) >= h.wpos + 1
    BY <2>1, OverlayIs
  <2>3. Len(after) \in Nat /\ Len(View(d, h)) \in Nat /\ h.wpos \in Nat /\ h.rpos \in Nat
    BY <2>1, <2>2
  <2>5. CASE OnCard(h.name)
    <3>1. Key(h.name) \in DOMAIN d /\ View(d, h) = d[Key(h.name)]
      BY <1>2, <2>5 DEF Sound, Stale, View
    <3>2. w = [d |-> [d EXCEPT ![Key(h.name)] = after], h |-> [h EXCEPT !.wpos = @ + 1]]
      BY <1>2, <2>5, Zenon DEF WriteBytes
    <3> DEFINE e == [d EXCEPT ![Key(h.name)] = after]
               j == [h EXCEPT !.wpos = @ + 1]
    <3>4. w.d = e /\ w.h = j
      BY <3>2
    <3> HIDE DEF after
    <3>5. DOMAIN e = DOMAIN d /\ e[Key(h.name)] = after /\ \A k \in DOMAIN d : k # Key(h.name) => e[k] = d[k]
      BY <3>1
    <3>6. /\ IsStream(j) /\ j.name = h.name /\ j.gen = h.gen /\ j.rpos = h.rpos /\ j.wpos = h.wpos + 1
          /\ j.lost = h.lost /\ j.err = h.err
      BY <1>0 DEF IsStream, Fields
    <3> HIDE DEF e, j
    <3>7. Stored(e)
      BY <2>2, <3>5 DEF Stored
    <3>8. Grows(d, e)
      BY <2>2, <3>1, <3>5, GrowsSame DEF Grows
    <3>9. Sound(j, e, gen)
      <4>1. j.wpos \in 0 .. Len(after) /\ j.rpos \in 0 .. Len(after) /\ j.wpos \in Nat /\ j.rpos \in Nat
        BY <2>1, <2>2, <2>3, <3>6
      <4>2. QED BY <2>5, <3>1, <3>5, <3>6, <4>1 DEF Sound, Within
    <3>10. View(e, j) = after
      BY <2>5, <3>5, <3>6 DEF View
    <3>11. QED BY <2>5, <3>4, <3>5, <3>6, <3>7, <3>8, <3>9, <3>10 DEF after
  <2>6. CASE ~OnCard(h.name)
    <3>1. View(d, h) = h.buf
      BY <2>6 DEF View
    <3>2. w = [d |-> d, h |-> [h EXCEPT !.wpos = @ + 1, !.buf = after, !.dirty = TRUE, !.bad = FALSE]]
      BY <1>2, <2>6, Zenon DEF WriteBytes
    <3> DEFINE j == [h EXCEPT !.wpos = @ + 1, !.buf = after, !.dirty = TRUE, !.bad = FALSE]
    <3>4. w.d = d /\ w.h = j
      BY <3>2
    <3> HIDE DEF after
    <3>5. /\ IsStream(j) /\ j.name = h.name /\ j.gen = h.gen /\ j.rpos = h.rpos /\ j.wpos = h.wpos + 1
          /\ j.lost = h.lost /\ j.err = h.err /\ j.buf = after /\ j.dirty
      BY <1>0 DEF IsStream, Fields
    <3> HIDE DEF j
    <3>6. Sound(j, d, gen)
      <4>1. j.wpos \in 0 .. Len(after) /\ j.rpos \in 0 .. Len(after) /\ j.wpos \in Nat /\ j.rpos \in Nat
        BY <2>1, <2>2, <2>3, <3>5
      <4>2. QED BY <2>2, <2>6, <3>5, <4>1 DEF Sound, Within
    <3>7. View(d, j) = after
      BY <2>6, <3>5 DEF View
    <3>8. QED BY <3>4, <3>5, <3>6, <3>7, GrowsSame DEF after
  <2>7. QED BY <2>5, <2>6
<1>3. QED BY <1>1, <1>2

LEMMA WriteSound ==
  ASSUME NEW d, NEW h, NEW c \in Chunks, NEW ok, Stored(d), Sound(h, d, gen),
         NEW w, w = WriteBytes(d, h, c, ok)
  PROVE  Stored(w.d) /\ Grows(d, w.d) /\ Sound(w.h, w.d, gen) /\ w.h.name = h.name
<1>1. Wrote(d, h, c, w)
  BY WriteIs
<1>2. QED BY <1>1 DEF Wrote

\* What a root stream holds goes to its file, and to no other.
LEMMA CommitIs ==
  ASSUME NEW d, NEW h, Stored(d), ~OnCard(h.name), h.buf \in Seq(Chunks)
  PROVE  /\ Stored(Commit(d, h)) /\ Grows(d, Commit(d, h))
         /\ DOMAIN Commit(d, h) = DOMAIN d
         /\ \A k \in DOMAIN d : k # Key(h.name) => Commit(d, h)[k] = d[k]
         /\ ~h.lost /\ Key(h.name) \in DOMAIN d => Commit(d, h)[Key(h.name)] = h.buf
<1> DEFINE e == [d EXCEPT ![Key(h.name)] = h.buf]
<1>1. /\ DOMAIN e = DOMAIN d /\ \A k \in DOMAIN d : k # Key(h.name) => e[k] = d[k]
      /\ Key(h.name) \in DOMAIN d => e[Key(h.name)] = h.buf
  OBVIOUS
<1> HIDE DEF e
<1>2. Stored(e)
  BY <1>1 DEF Stored
<1>3. Grows(d, e)
  BY <1>1, KeyVol, GrowsSame DEF Grows
<1>4. Commit(d, h) = IF h.lost THEN d ELSE e
  BY DEF Commit, e
<1>5. QED BY <1>1, <1>2, <1>3, <1>4, GrowsSame

\* A flush: the root's file becomes what the stream holds if there is anything new,
\* or the stream is refused.
Flushed(d, h, ok, f) ==
  /\ Stored(f.d) /\ Grows(d, f.d) /\ Sound(f.h, f.d, gen)
  /\ SameStream(h, f.h)
  /\ DOMAIN f.d = DOMAIN d /\ \A k \in DOMAIN d : k # Key(h.name) => f.d[k] = d[k]
  /\ OnCard(h.name) => f.d = d
  /\ ~h.dirty => f.d = d
  /\ ~OnCard(h.name) /\ h.dirty /\ ok /\ ~h.lost /\ Key(h.name) \in DOMAIN d => f.d[Key(h.name)] = h.buf

LEMMA FlushIs ==
  ASSUME NEW d, NEW h, NEW ok, Stored(d), Sound(h, d, gen),
         NEW f, f = Flush(d, h, ok)
  PROVE  Flushed(d, h, ok, f)
<1> USE DEF Flushed
<1>0. IsStream(h)
  BY DEF Sound
<1>1. CASE OnCard(h.name)
  <2>1. f = [d |-> d, h |-> h]
    BY <1>1, Zenon DEF Flush
  <2>2. f.d = d /\ f.h = h
    BY <2>1
  <2>3. QED BY <1>0, <1>1, <2>2, GrowsSame DEF SameStream
<1>2. CASE ~OnCard(h.name) /\ ~h.dirty
  <2> DEFINE j == [h EXCEPT !.bad = FALSE]
  <2>1. f = [d |-> d, h |-> j]
    BY <1>2, Zenon DEF Flush
  <2>2. f.d = d /\ f.h = j
    BY <2>1
  <2>3. SameStream(h, j)
    BY <1>0 DEF SameStream, IsStream, Fields
  <2> HIDE DEF j
  <2>4. Sound(j, d, gen)
    BY <2>3, SameSound
  <2>5. QED BY <1>2, <2>2, <2>3, <2>4, GrowsSame
<1>3. CASE ~OnCard(h.name) /\ h.dirty /\ ok
  <2> DEFINE j == [h EXCEPT !.dirty = FALSE, !.bad = FALSE]
  <2>1. f = [d |-> Commit(d, h), h |-> j]
    BY <1>3, Zenon DEF Flush
  <2>2. f.d = Commit(d, h) /\ f.h = j
    BY <2>1
  <2>3. SameStream(h, j)
    BY <1>0 DEF SameStream, IsStream, Fields
  <2> HIDE DEF j
  <2>4. h.buf \in Seq(Chunks)
    BY <1>3 DEF Sound
  <2>5. /\ Stored(Commit(d, h)) /\ Grows(d, Commit(d, h))
        /\ DOMAIN Commit(d, h) = DOMAIN d
        /\ \A k \in DOMAIN d : k # Key(h.name) => Commit(d, h)[k] = d[k]
        /\ ~h.lost /\ Key(h.name) \in DOMAIN d => Commit(d, h)[Key(h.name)] = h.buf
    BY <1>3, <2>4, CommitIs
  <2>6. Sound(j, Commit(d, h), gen)
    BY <2>3, <2>5, SoundGrows, SameSound
  <2>7. QED BY <1>3, <2>2, <2>3, <2>5, <2>6
<1>4. CASE ~OnCard(h.name) /\ h.dirty /\ ~ok
  <2>1. f = [d |-> d, h |-> Refused(h)]
    BY <1>4, Zenon DEF Flush
  <2>2. f.d = d /\ f.h = Refused(h)
    BY <2>1
  <2>3. SameStream(h, Refused(h)) /\ Sound(Refused(h), d, gen)
    BY <1>0, Marks, SameSound
  <2>4. QED BY <1>4, <2>2, <2>3, GrowsSame
<1>5. QED BY <1>1, <1>2, <1>3, <1>4

\* Closing a stream writes its own file back or nothing.
LEMMA CloseIs ==
  ASSUME NEW d, NEW h, NEW ok, Stored(d), Sound(h, d, gen)
  PROVE  LET e == CloseStream(d, h, ok) IN
         /\ Stored(e) /\ Grows(d, e) /\ DOMAIN e = DOMAIN d
         /\ \A k \in DOMAIN d : k # Key(h.name) => e[k] = d[k]
         /\ OnCard(h.name) => e = d
         /\ Key(h.name) \in DOMAIN d => e[Key(h.name)] \in {d[Key(h.name)], h.buf}
<1>1. CASE WritesBack(h, ok)
  <2>1. ~OnCard(h.name) /\ h.buf \in Seq(Chunks) /\ CloseStream(d, h, ok) = Commit(d, h)
    BY <1>1 DEF WritesBack, Sound, CloseStream
  <2>2. /\ Stored(Commit(d, h)) /\ Grows(d, Commit(d, h))
        /\ DOMAIN Commit(d, h) = DOMAIN d
        /\ \A k \in DOMAIN d : k # Key(h.name) => Commit(d, h)[k] = d[k]
        /\ ~h.lost /\ Key(h.name) \in DOMAIN d => Commit(d, h)[Key(h.name)] = h.buf
    BY <2>1, CommitIs
  <2>3. h.lost => Commit(d, h) = d
    BY DEF Commit
  <2>4. QED BY <2>1, <2>2, <2>3
<1>2. CASE ~WritesBack(h, ok)
  BY <1>2, GrowsSame DEF CloseStream
<1>3. QED BY <1>1, <1>2

\* A file that goes takes no stream with it that did not have it open.
LEMMA GoneSound ==
  ASSUME NEW h, NEW d, NEW e, NEW g, NEW gone, Sound(h, d, g), Stored(d), Stored(e),
         \A k \in DOMAIN d : k.vol = "card" /\ k # gone => k \in DOMAIN e /\ e[k] = d[k],
         ~(OnCard(h.name) /\ h.gen = g /\ Key(h.name) = gone)
  PROVE  Sound(h, e, g)
<1>1. ASSUME OnCard(h.name), h.gen = g
      PROVE  Key(h.name) \in DOMAIN e /\ Within(h, Len(e[Key(h.name)]))
  <2>1. Key(h.name) \in DOMAIN d /\ Within(h, Len(d[Key(h.name)]))
    BY <1>1 DEF Sound
  <2>2. QED BY <1>1, <2>1, KeyVol
<1>2. QED BY <1>1 DEF Sound

-----------------------------------------------------------------------------
(* The inductive invariant.                                                *)

SlotsUsed == {s \in Slots : table[s] # Free}

StreamsSound ==
  /\ Stored(disk)
  /\ table = [s \in Slots |-> table[s]]
  /\ \A s \in SlotsUsed : Sound(table[s], disk, gen)
  /\ dribble # Free => Sound(dribble, disk, gen)

CountExact == count = Cardinality(SlotsUsed)

OncePerName == \A s, t \in SlotsUsed : table[s].name = table[t].name => s = t

Pointers == reader \in Selectable /\ writer \in Selectable

\* What a command that takes several steps has in hand, and that the program
\* has nothing open that it is about to erase.
JobFields == {"op", "src", "dst", "was", "at", "in", "out"}
IsTransfer(j) ==
  /\ j.op \in {"copy", "move"}
  /\ DOMAIN j = JobFields /\ j = [f \in DOMAIN j |-> j[f]]
SaveFields == {"op", "name", "old", "left"}
IsSave(j) ==
  /\ j.op = "save"
  /\ DOMAIN j = SaveFields /\ j = [f \in DOMAIN j |-> j[f]]

JobSound ==
  \/ job = None
  \/ /\ IsSave(job) /\ job.left \in Seq(Chunks)
     /\ job.old \in Selectable /\ writer # Console
  \/ /\ IsTransfer(job) /\ ~InUse(job.dst)
     /\ job.op = "move" => ~InUse(job.src)
     /\ job.at = "drop" => job.op = "move"
     /\ job.at \in {"copy", "close"} => Sound(job.in, disk, gen) /\ Sound(job.out, disk, gen)

World ==
  /\ card \in BOOLEAN /\ gen \in 0 .. MaxGen /\ ops \in 0 .. MaxOps
  /\ loading # None => loading.slot \in Slots

FileInv == World /\ StreamsSound /\ CountExact /\ OncePerName /\ Pointers /\ JobSound

LEMMA Numbers ==
  /\ MaxOpen \in Nat /\ MaxOpen > 0 /\ MaxLen \in Nat /\ MaxGen \in Nat /\ MaxOps \in Nat
  /\ Console \notin Slots
  /\ World => gen \in Nat
  BY FilesAssumption DEF Slots, Console, World

LEMMA CountBound ==
  /\ IsFiniteSet(SlotsUsed) /\ Cardinality(SlotsUsed) \in 0 .. MaxOpen
  /\ Cardinality(SlotsUsed) = MaxOpen => SlotsUsed = Slots
<1>1. IsFiniteSet(Slots) /\ Cardinality(Slots) = MaxOpen
  BY Numbers, FS_Interval DEF Slots
<1>2. SlotsUsed \in SUBSET Slots
  BY DEF SlotsUsed
<1>3. QED BY <1>1, <1>2, Numbers, FS_Subset, FS_CardinalityType

\* A non-empty set of naturals has a least element.
LEMMA LeastIn ==
  ASSUME NEW S \in SUBSET Nat, S # {}
  PROVE  \E m \in S : \A x \in S : m <= x
<1>1. IsWellFoundedOn(OpToRel(<, Nat), Nat)
  BY NatLessThanWellFounded
<1>2. PICK m \in S : \A x \in S : ~ (<<x, m>> \in OpToRel(<, Nat))
  BY <1>1, WFMin
<1>3. ASSUME NEW x \in S PROVE m <= x
  <2>1. x \in Nat /\ m \in Nat
    OBVIOUS
  <2>2. ~ (x < m)
    BY <1>2, <2>1 DEF OpToRel
  <2>3. QED BY <2>1, <2>2
<1>4. QED BY <1>3

\* What LastOf chooses is one of the slots.
LEMMA LastIs ==
  ASSUME NEW S, S # {}, S \subseteq SlotsUsed
  PROVE  LastOf(S) \in S
<1> DEFINE U == {MaxOpen - s : s \in S}
<1>1. S \subseteq Slots
  BY DEF SlotsUsed
<1>2. U \in SUBSET Nat /\ U # {}
  <2>1. \A s \in S : MaxOpen - s \in Nat
    BY <1>1, Numbers DEF Slots
  <2>2. QED BY <2>1
<1>3. PICK m \in U : \A x \in U : m <= x
  BY <1>2, LeastIn
<1>4. PICK s \in S : m = MaxOpen - s
  BY <1>3
<1>5. ASSUME NEW t \in S PROVE t <= s
  <2>1. MaxOpen - t \in U
    OBVIOUS
  <2>2. MaxOpen - s <= MaxOpen - t
    BY <1>3, <1>4, <2>1
  <2>3. s \in Nat /\ t \in Nat
    BY <1>1, Numbers DEF Slots
  <2>4. QED BY <2>2, <2>3, Numbers
<1>6. QED BY <1>5 DEF LastOf

\* The invariant says what the property does.
LEMMA FileInvExact == FileInv => TableExact
<1> SUFFICES ASSUME FileInv PROVE TableExact
  OBVIOUS
<1> USE DEF FileInv
<1>1. \A h \in Handles : Sound(h, disk, gen)
  BY DEF Handles, StreamsSound, SlotsUsed
<1>2. \A h \in Handles : ~Stale(h) => h.rpos \in 0 .. Len(View(disk, h)) /\ h.wpos \in 0 .. Len(View(disk, h))
  BY <1>1 DEF Stale, View, Sound, Within
<1>3. table \in [Slots -> Handles \cup {Free}]
  <2>1. table = [s \in Slots |-> table[s]] /\ \A s \in Slots : table[s] \in Handles \cup {Free}
    BY DEF StreamsSound, Handles
  <2>2. QED BY <2>1
<1>4. count \in 0 .. MaxOpen
  BY CountBound DEF CountExact
<1>5. TypeOK
  BY <1>2, <1>3, <1>4 DEF TypeOK, World, StreamsSound, Stored, Pointers, Selectable
<1>6. job.op = "save" => job.old \in Selectable
  BY DEF JobSound, None, IsTransfer
<1>7. QED BY <1>5, <1>6 DEF TableExact, NoDangling, Pointers, CountExact, SlotsUsed, OncePerName

-----------------------------------------------------------------------------
(* What the commands share.                                                *)

\* Streams stay sound where the card's files only grow and every stream that
\* is not as before is sound.
LEMMA StreamsStay ==
  ASSUME FileInv, gen' = gen, Stored(disk'), Grows(disk, disk'),
         table' = [s \in Slots |-> table'[s]],
         \A s \in Slots : table'[s] \in {table[s], Free} \/ Sound(table'[s], disk', gen),
         dribble' \in {dribble, Free} \/ Sound(dribble', disk', gen)
  PROVE  StreamsSound'
<1>1. ASSUME NEW s \in Slots, table'[s] # Free PROVE Sound(table'[s], disk', gen)
  <2>1. table[s] # Free => Sound(table[s], disk, gen)
    BY DEF FileInv, StreamsSound, SlotsUsed
  <2>2. table[s] # Free => Sound(table[s], disk', gen)
    BY <2>1, SoundGrows DEF FileInv, StreamsSound
  <2>3. QED BY <1>1, <2>2
<1>2. ASSUME dribble' # Free PROVE Sound(dribble', disk', gen)
  <2>1. dribble # Free => Sound(dribble, disk', gen)
    BY SoundGrows DEF FileInv, StreamsSound
  <2>2. QED BY <1>2, <2>1
<1>3. QED BY <1>1, <1>2 DEF StreamsSound, SlotsUsed

\* The same slots hold streams of the same names.
LEMMA SlotsStay ==
  ASSUME FileInv, count' = count, reader' \in Selectable, writer' \in Selectable,
         \A s \in Slots : table'[s] = Free <=> table[s] = Free,
         \A s \in SlotsUsed : table'[s].name = table[s].name
  PROVE  SlotsUsed' = SlotsUsed /\ Selectable' = Selectable /\ CountExact' /\ OncePerName' /\ Pointers'
<1>1. SlotsUsed' = SlotsUsed /\ Selectable' = Selectable
  BY DEF SlotsUsed, Selectable
<1>2. QED BY <1>1 DEF FileInv, CountExact, OncePerName, Pointers

\* logo_io_open finds the stream or gives it a slot that was free.
LEMMA EnterIs ==
  ASSUME FileInv, NEW n, NEW s \in Slots, Enter(n, s), UNCHANGED <<gen, dribble>>
  PROVE  /\ StreamsSound' /\ CountExact' /\ OncePerName'
         /\ SlotsUsed' = SlotsUsed \cup {s} /\ Selectable \subseteq Selectable'
         /\ \A t \in SlotsUsed : table'[t] = table[t]
         /\ Grows(disk, disk')
<1> USE DEF FileInv
<1>0. Stored(disk) /\ gen \in Nat
  BY Numbers DEF StreamsSound
<1>1. CASE SlotsOf(n) # {} /\ s = SlotOf(n) /\ UNCHANGED <<disk, table, count>>
  <2>1. s \in SlotsUsed
    <3>1. PICK u \in SlotsOf(n) : TRUE
      BY <1>1
    <3>2. \A t \in SlotsOf(n) : t = u
      BY <3>1 DEF SlotsOf, SlotsUsed, OncePerName
    <3>3. u \in Nat
      BY <3>1, Numbers DEF SlotsOf, Slots
    <3>4. \A t \in SlotsOf(n) : u <= t
      BY <3>2, <3>3
    <3>5. SlotOf(n) \in SlotsOf(n)
      BY <3>1, <3>4 DEF SlotOf
    <3>6. QED BY <1>1, <3>5 DEF SlotsOf, SlotsUsed
  <2>2. SlotsUsed' = SlotsUsed /\ Selectable' = Selectable
    BY <1>1 DEF SlotsUsed, Selectable
  <2>3. StreamsSound' /\ CountExact' /\ OncePerName'
    BY <1>1, <2>2 DEF StreamsSound, CountExact, OncePerName
  <2>4. QED BY <1>0, <1>1, <2>1, <2>2, <2>3, GrowsSame
<1>2. CASE /\ SlotsOf(n) = {} /\ CanOpen(n) /\ s = FirstFree
           /\ disk' = Created(disk, n) /\ count' = count + 1
           /\ table' = [table EXCEPT ![s] = Fresh(disk, n)]
  <2>1. table[s] = Free
    <3>1. count < MaxOpen
      BY DEF Enter
    <3>2. Slots \ SlotsUsed # {}
      <4>1. Cardinality(SlotsUsed) < MaxOpen
        BY <3>1 DEF CountExact
      <4>2. SlotsUsed # Slots
        <5>1. Cardinality(Slots) = MaxOpen
          BY Numbers, FS_Interval DEF Slots
        <5>2. Cardinality(SlotsUsed) # Cardinality(Slots)
          BY <4>1, <5>1, CountBound, Numbers
        <5>3. QED BY <5>2
      <4>3. QED BY <4>2 DEF SlotsUsed
    <3>3. \E m \in Slots \ SlotsUsed : \A t \in Slots \ SlotsUsed : m <= t
      <4>1. Slots \ SlotsUsed \in SUBSET Nat
        BY Numbers DEF Slots
      <4>2. QED BY <3>2, <4>1, LeastIn
    <3>4. PICK m \in Slots \ SlotsUsed : \A t \in Slots \ SlotsUsed : m <= t
      BY <3>3
    <3>5. table[m] = Free /\ \A t \in 1 .. m - 1 : table[t] # Free
      BY <3>4, Numbers DEF Slots, SlotsUsed
    <3>6. QED BY <1>2, <3>4, <3>5 DEF FirstFree
  <2>2. /\ table'[s] = Fresh(disk, n) /\ \A t \in Slots : t # s => table'[t] = table[t]
        /\ table' = [t \in Slots |-> table'[t]]
    BY <1>2 DEF StreamsSound
  <2>3. Sound(Fresh(disk, n), disk', gen) /\ Fresh(disk, n).name = n
    BY <1>0, <1>2, FreshSound
  <2>4. Stored(disk') /\ Grows(disk, disk')
    BY <1>0, <1>2, CreatedIs
  <2>5. StreamsSound'
    BY <2>2, <2>3, <2>4, StreamsStay
  <2>6. table'[s] # Free
    BY <2>2, <2>3, StreamNotFree DEF Sound
  <2>7. SlotsUsed' = SlotsUsed \cup {s} /\ s \notin SlotsUsed
    BY <2>1, <2>2, <2>6 DEF SlotsUsed
  <2>8. CountExact'
    <3>1. Cardinality(SlotsUsed \cup {s}) = Cardinality(SlotsUsed) + 1
      BY <2>7, CountBound, FS_AddElement
    <3>2. QED BY <1>2, <2>7, <3>1 DEF CountExact
  <2>9. \A t \in SlotsUsed : table'[t] = table[t] /\ table[t].name # n
    BY <1>2, <2>2, <2>7 DEF SlotsUsed, SlotsOf
  <2>10. OncePerName'
    BY <2>2, <2>3, <2>7, <2>9 DEF OncePerName
  <2>11. Selectable \subseteq Selectable'
    BY <2>7 DEF Selectable, SlotsUsed
  <2>12. QED BY <2>4, <2>5, <2>7, <2>8, <2>9, <2>10, <2>11
<1>3. QED BY <1>1, <1>2 DEF Enter

\* logo_io_close frees one slot, and whatever pointed to it is the console.
LEMMA LeaveIs ==
  ASSUME FileInv, NEW n, NEW w \in Selectable, Leave(n, w), UNCHANGED <<gen, dribble>>
  PROVE  StreamsSound' /\ CountExact' /\ OncePerName' /\ Pointers'
<1> USE DEF FileInv
<1>0. Stored(disk) /\ gen \in Nat
  BY Numbers DEF StreamsSound
<1>1. CASE SlotsOf(n) = {}
  <2>1. UNCHANGED <<disk, table, count, reader>> /\ writer' = w
    BY <1>1 DEF Leave
  <2>2. SlotsUsed' = SlotsUsed /\ Selectable' = Selectable
    BY <2>1 DEF SlotsUsed, Selectable
  <2>3. QED BY <2>1, <2>2 DEF StreamsSound, CountExact, OncePerName, Pointers
<1>2. CASE SlotsOf(n) # {}
  <2>1. PICK s \in {SlotOf(n)}, ok \in Late :
          /\ disk' = CloseStream(disk, table[s], ok)
          /\ table' = [table EXCEPT ![s] = Free] /\ count' = count - 1
          /\ reader' = Unless(reader, {s}) /\ writer' = Unless(w, {s})
    BY <1>2 DEF Leave
  <2>2. s \in SlotsUsed
    <3>1. PICK u \in SlotsOf(n) : TRUE
      BY <1>2
    <3>2. \A t \in SlotsOf(n) : t = u
      BY <3>1 DEF SlotsOf, SlotsUsed, OncePerName
    <3>3. u \in Nat
      BY <3>1, Numbers DEF SlotsOf, Slots
    <3>4. \A t \in SlotsOf(n) : u <= t
      BY <3>2, <3>3
    <3>5. SlotOf(n) \in SlotsOf(n)
      BY <3>1, <3>4 DEF SlotOf
    <3>6. QED BY <2>1, <3>5 DEF SlotsOf, SlotsUsed
  <2>3. /\ table'[s] = Free /\ \A t \in Slots : t # s => table'[t] = table[t]
        /\ table' = [t \in Slots |-> table'[t]]
    BY <2>1, <2>2 DEF StreamsSound, SlotsUsed
  <2>4. Stored(disk') /\ Grows(disk, disk')
    BY <1>0, <2>1, <2>2, CloseIs DEF StreamsSound
  <2>5. StreamsSound'
    BY <2>3, <2>4, StreamsStay
  <2>6. SlotsUsed' = SlotsUsed \ {s}
    BY <2>3 DEF SlotsUsed
  <2>7. CountExact'
    <3>1. Cardinality(SlotsUsed \ {s}) = Cardinality(SlotsUsed) - 1
      BY <2>2, CountBound, FS_RemoveElement
    <3>2. QED BY <2>1, <2>6, <3>1 DEF CountExact
  <2>8. OncePerName'
    BY <2>3, <2>6 DEF OncePerName, SlotsUsed
  <2>9. \A p \in Selectable : Unless(p, {s}) \in Selectable'
    BY <2>6 DEF Selectable, SlotsUsed, Unless
  <2>10. Pointers'
    BY <2>1, <2>9 DEF Pointers
  <2>11. QED BY <2>5, <2>7, <2>8, <2>10
<1>3. QED BY <1>1, <1>2

\* Nothing comes into use where no stream is opened.
LEMMA InUseStay ==
  ASSUME gen' = gen,
         \A s \in Slots : table'[s] # Free => /\ table[s] # Free /\ table'[s].name = table[s].name
                                              /\ table'[s].gen = table[s].gen,
         dribble' # Free => dribble # Free /\ dribble'.name = dribble.name /\ dribble'.gen = dribble.gen
  PROVE  \A m : InUse(m)' => InUse(m)
<1> SUFFICES ASSUME NEW m, InUse(m)' PROVE InUse(m)
  OBVIOUS
<1>1. OnCard(m)
  BY DEF InUse
<1>2. PICK h \in {table'[s] : s \in Slots} \cup {dribble'} :
        h # Free /\ ~(OnCard(h.name) /\ h.gen # gen') /\ Key(h.name) = Key(m)
  BY DEF InUse, Stale
<1>3. CASE h = dribble'
  BY <1>1, <1>2, <1>3 DEF InUse, Stale
<1>4. ASSUME NEW s \in Slots, h = table'[s] PROVE InUse(m)
  BY <1>1, <1>2, <1>4 DEF InUse, Stale
<1>5. QED BY <1>2, <1>3, <1>4

\* A file is erased or replaced: no sound stream had it open on the card, and
\* those of the root keep what they hold.
LEMMA LoseIs ==
  ASSUME FileInv, NEW n, NEW ks, Lose(ks), UNCHANGED <<gen, count, reader, writer>>, Stored(disk'), ~InUse(n),
         \A k \in DOMAIN disk : k.vol = "card" /\ k # Key(n) => k \in DOMAIN disk' /\ disk'[k] = disk[k]
  PROVE  /\ StreamsSound' /\ CountExact' /\ OncePerName' /\ Pointers'
         /\ \A m : InUse(m)' => InUse(m)
<1> USE DEF FileInv
<1>1. table' = [s \in Slots |-> Orphan(table[s], ks)] /\ dribble' = Orphan(dribble, ks)
  BY DEF Lose
<1>2. Orphan(Free, ks) = Free
  BY DEF Orphan
<1>3. ASSUME NEW h, h # Free, Sound(h, disk, gen),
             h \in {table[s] : s \in Slots} \cup {dribble}
      PROVE  Sound(Orphan(h, ks), disk', gen) /\ SameStream(h, Orphan(h, ks)) /\ Orphan(h, ks) # Free
  <2>1. SameStream(h, Orphan(h, ks))
    BY <1>3, Marks DEF Sound
  <2>2. ~(OnCard(h.name) /\ h.gen = gen /\ Key(h.name) = Key(n))
    <3>1. SUFFICES ASSUME OnCard(h.name), h.gen = gen, Key(h.name) = Key(n) PROVE FALSE
      OBVIOUS
    <3>2. OnCard(n)
      BY <3>1, KeyVol
    <3>3. ~Stale(h)
      BY <3>1 DEF Stale
    <3>4. QED BY <1>3, <3>1, <3>2, <3>3 DEF InUse
  <2>3. Sound(h, disk', gen)
    BY <1>3, <2>2, GoneSound DEF StreamsSound
  <2>4. QED BY <2>1, <2>3, SameSound, StreamNotFree DEF SameStream
<1>4. ASSUME NEW s \in Slots
      PROVE  /\ table[s] = Free => table'[s] = Free
             /\ table[s] # Free => /\ table'[s] # Free /\ Sound(table'[s], disk', gen)
                                   /\ SameStream(table[s], table'[s])
  <2>1. table'[s] = Orphan(table[s], ks)
    BY <1>1
  <2>2. table[s] # Free => Sound(table[s], disk, gen)
    BY DEF StreamsSound, SlotsUsed
  <2>3. QED BY <1>2, <1>3, <2>1, <2>2
<1>5. /\ dribble = Free => dribble' = Free
      /\ dribble # Free => /\ dribble' # Free /\ Sound(dribble', disk', gen)
                           /\ SameStream(dribble, dribble')
  BY <1>1, <1>2, <1>3 DEF StreamsSound
<1>6. table' = [s \in Slots |-> table'[s]]
  BY <1>1
<1>7. StreamsSound'
  BY <1>4, <1>5, <1>6 DEF StreamsSound, SlotsUsed
<1>8. CountExact' /\ OncePerName' /\ Pointers'
  <2>1. \A s \in Slots : table'[s] = Free <=> table[s] = Free
    BY <1>4
  <2>2. \A s \in SlotsUsed : table'[s].name = table[s].name
    BY <1>4 DEF SlotsUsed, SameStream
  <2>3. QED BY <2>1, <2>2, SlotsStay DEF Pointers
<1>9. \A m : InUse(m)' => InUse(m)
  BY <1>4, <1>5, InUseStay DEF SameStream
<1>10. QED BY <1>7, <1>8, <1>9

LEMMA WithoutIs ==
  \A d, k : /\ DOMAIN Without(d, k) = DOMAIN d \ {k}
            /\ \A j \in DOMAIN d : j # k => Without(d, k)[j] = d[j]
            /\ Stored(d) => Stored(Without(d, k))
  BY DEF Without, Stored

LEMMA ClearIs ==
  ASSUME FileInv, NEW m, ~InUse(m), ClearDestination(m), UNCHANGED <<gen, count, reader, writer>>
  PROVE  /\ StreamsSound' /\ CountExact' /\ OncePerName' /\ Pointers'
         /\ \A n : InUse(n)' => InUse(n)
<1>1. CASE FileExists(m)
  <2>1. disk' = Without(disk, Key(m)) /\ Lose({Key(m)})
    BY <1>1 DEF ClearDestination
  <2>2. Stored(disk') /\ \A k \in DOMAIN disk : k # Key(m) => k \in DOMAIN disk' /\ disk'[k] = disk[k]
    BY <2>1, WithoutIs DEF FileInv, StreamsSound
  <2>3. QED BY <2>1, <2>2, LoseIs
<1>2. CASE ~FileExists(m)
  <2>1. UNCHANGED <<disk, table, dribble>>
    BY <1>2 DEF ClearDestination
  <2>2. QED BY <2>1 DEF FileInv, StreamsSound, SlotsUsed, CountExact, OncePerName, Pointers, Selectable, InUse, Stale
<1>3. QED BY <1>1, <1>2

\* A stream takes the place of one of the same name: what a command that moves
\* a cursor or writes does.
LEMMA OneStream ==
  ASSUME FileInv, NEW s \in SlotsUsed, NEW h, Sound(h, disk', gen), h.name = table[s].name,
         table' = [t \in Slots |-> IF t = s THEN h ELSE table[t]],
         dribble' \in {dribble, Free} \/ Sound(dribble', disk', gen),
         gen' = gen, count' = count, reader' \in Selectable, writer' \in Selectable,
         Stored(disk'), Grows(disk, disk')
  PROVE  StreamsSound' /\ CountExact' /\ OncePerName' /\ Pointers' /\ Selectable' = Selectable
<1>1. table'[s] = h /\ (\A t \in Slots : t # s => table'[t] = table[t]) /\ h # Free
  BY StreamNotFree DEF Sound, SlotsUsed
<1>2. table' = [t \in Slots |-> table'[t]]
  OBVIOUS
<1>3. StreamsSound'
  BY <1>1, <1>2, StreamsStay
<1>4. \A t \in Slots : table'[t] = Free <=> table[t] = Free
  BY <1>1 DEF SlotsUsed
<1>5. \A t \in SlotsUsed : table'[t].name = table[t].name
  BY <1>1 DEF SlotsUsed
<1>6. QED BY <1>3, <1>4, <1>5, SlotsStay

\* A cursor moved within what the stream sees.
LEMMA CursorIs ==
  ASSUME NEW h, Sound(h, disk, gen), ~Stale(h), NEW pos \in 0 .. Len(View(disk, h)),
         StreamsSound
  PROVE  /\ Sound([h EXCEPT !.rpos = pos], disk, gen) /\ [h EXCEPT !.rpos = pos].name = h.name
         /\ Sound([h EXCEPT !.wpos = pos], disk, gen) /\ [h EXCEPT !.wpos = pos].name = h.name
<1> DEFINE i == [h EXCEPT !.rpos = pos]
           j == [h EXCEPT !.wpos = pos]
<1>0. IsStream(h)
  BY DEF Sound
<1>1. IsStream(i) /\ i.name = h.name /\ i.gen = h.gen /\ i.rpos = pos /\ i.wpos = h.wpos /\ i.buf = h.buf
  BY <1>0 DEF IsStream, Fields
<1>2. IsStream(j) /\ j.name = h.name /\ j.gen = h.gen /\ j.rpos = h.rpos /\ j.wpos = pos /\ j.buf = h.buf
  BY <1>0 DEF IsStream, Fields
<1> HIDE DEF i, j
<1>3. View(disk, h) = IF OnCard(h.name) THEN disk[Key(h.name)] ELSE h.buf
  BY DEF View
<1>4. View(disk, h) \in Seq(Chunks)
  BY <1>3 DEF Sound, Stale, StreamsSound, Stored
<1>5. pos \in Nat /\ h.rpos \in Nat /\ h.wpos \in Nat
  BY <1>4 DEF Sound
<1>6. Sound(i, disk, gen)
  BY <1>1, <1>3, <1>5 DEF Sound, Within
<1>7. Sound(j, disk, gen)
  BY <1>2, <1>3, <1>5 DEF Sound, Within
<1>8. QED BY <1>1, <1>2, <1>6, <1>7 DEF i, j

\* A print to the console, or to a stream and flushed.
LEMMA WrittenIs ==
  ASSUME NEW d, NEW h, NEW c \in Chunks, NEW ok, NEW late, Stored(d), gen \in Nat,
         h # Free => Sound(h, d, gen),
         NEW w, w = Written(d, h, c, ok, late)
  PROVE  /\ Stored(w.d) /\ Grows(d, w.d)
         /\ h = Free => w.h = Free
         /\ h # Free => Sound(w.h, w.d, gen) /\ w.h.name = h.name
<1>1. CASE h = Free
  <2>1. w = [d |-> d, h |-> h]
    BY <1>1, Zenon DEF Written
  <2>2. w.d = d /\ w.h = h
    BY <2>1
  <2>3. QED BY <1>1, <2>2, GrowsSame
<1>2. CASE h # Free
  <2>0. PICK v : v = WriteBytes(d, h, c, ok)
    OBVIOUS
  <2>1. w = Flush(v.d, v.h, late)
    BY <1>2, <2>0, Zenon DEF Written
  <2>2. Stored(v.d) /\ Grows(d, v.d) /\ Sound(v.h, v.d, gen) /\ v.h.name = h.name
    <3>1. Sound(h, d, gen)
      BY <1>2
    <3>2. QED BY <2>0, <3>1, WriteSound
  <2>3. Stored(w.d) /\ Grows(v.d, w.d) /\ Sound(w.h, w.d, gen) /\ SameStream(v.h, w.h)
    BY <2>1, <2>2, FlushIs DEF Flushed
  <2>4. Grows(d, w.d)
    BY <2>2, <2>3, GrowsTwice
  <2>5. QED BY <1>2, <2>1, <2>2, <2>3, <2>4 DEF SameStream
<1>3. QED BY <1>1, <1>2

LEMMA ClearedIs ==
  ASSUME NEW h, NEW d, h = Free \/ Sound(h, d, gen)
  PROVE  /\ h = Free => Cleared(h) = Free
         /\ h # Free => Sound(Cleared(h), d, gen) /\ Cleared(h).name = h.name
<1>1. CASE h = Free
  BY <1>1 DEF Cleared
<1>2. CASE h # Free
  BY <1>2, Marks, SameSound DEF Sound, SameStream
<1>3. QED BY <1>1, <1>2

-----------------------------------------------------------------------------
(* The commands that are one step.                                         *)

LEMMA CommandIs ==
  ASSUME FileInv, Command
  PROVE  World' /\ JobSound' /\ UNCHANGED gen
<1>1. job' = None /\ ops' = ops + 1 /\ ops < MaxOps /\ UNCHANGED <<card, gen, loading>>
  BY DEF Command, Ready
<1>2. ops \in Nat /\ ops + 1 \in 0 .. MaxOps
  BY <1>1, Numbers DEF FileInv, World
<1>3. World'
  BY <1>1, <1>2 DEF FileInv, World
<1>4. QED BY <1>1, <1>3 DEF JobSound

\* Nothing a stream is made of changes.
LEMMA Steady ==
  ASSUME FileInv, UNCHANGED <<disk, table, count, dribble, gen>>, reader' \in Selectable, writer' \in Selectable
  PROVE  StreamsSound' /\ CountExact' /\ OncePerName' /\ Pointers' /\ \A m : InUse(m)' = InUse(m)
<1>1. SlotsUsed' = SlotsUsed /\ Selectable' = Selectable
  BY DEF SlotsUsed, Selectable
<1>2. QED BY <1>1 DEF FileInv, StreamsSound, CountExact, OncePerName, Pointers, InUse, Stale

LEMMA OpenKeeps ==
  ASSUME FileInv, NEW w \in Words, Open(w)
  PROVE  FileInv'
<1>1. Command /\ UNCHANGED <<reader, writer, dribble>>
  BY DEF Open
<1>2. PICK s \in Slots : Enter(Resolve(w), s)
  BY DEF Open
<1>3. World' /\ JobSound' /\ UNCHANGED gen
  BY <1>1, CommandIs
<1>4. StreamsSound' /\ CountExact' /\ OncePerName' /\ Selectable \subseteq Selectable'
  BY <1>1, <1>2, <1>3, EnterIs
<1>5. QED BY <1>1, <1>3, <1>4 DEF FileInv, Pointers

LEMMA CloseKeeps ==
  ASSUME FileInv, NEW w \in Words, Close(w)
  PROVE  FileInv'
<1>1. Command /\ Leave(Resolve(w), writer) /\ UNCHANGED dribble
  BY DEF Close
<1>2. World' /\ JobSound' /\ UNCHANGED gen
  BY <1>1, CommandIs
<1>3. writer \in Selectable
  BY DEF FileInv, Pointers
<1>4. StreamsSound' /\ CountExact' /\ OncePerName' /\ Pointers'
  BY <1>1, <1>2, <1>3, LeaveIs
<1>5. QED BY <1>2, <1>4 DEF FileInv

LEMMA CloseAllKeeps ==
  ASSUME FileInv, CloseAll
  PROVE  FileInv'
<1>1. /\ Command /\ table' = [s \in Slots |-> Free] /\ count' = 0
      /\ reader' = Console /\ writer' = Console /\ UNCHANGED dribble
  BY DEF CloseAll
<1>2. World' /\ JobSound' /\ UNCHANGED gen
  BY <1>1, CommandIs
<1>3. PICK ok \in [Slots -> Late] :
        disk' = [k \in DOMAIN disk |-> IF Closes(k, ok) = {} THEN disk[k] ELSE table[LastOf(Closes(k, ok))].buf]
  BY DEF CloseAll
<1>4. ASSUME NEW k \in DOMAIN disk, Closes(k, ok) # {}
      PROVE  k.vol = "root" /\ table[LastOf(Closes(k, ok))].buf \in Seq(Chunks)
  <2>1. Closes(k, ok) \subseteq SlotsUsed
    BY DEF Closes, SlotsUsed
  <2>2. LastOf(Closes(k, ok)) \in Closes(k, ok)
    BY <1>4, <2>1, LastIs
  <2>3. QED BY <2>1, <2>2, KeyVol DEF Closes, WritesBack, FileInv, StreamsSound, Sound
<1>5. Stored(disk')
  BY <1>3, <1>4 DEF Stored, FileInv, StreamsSound
<1>6. Grows(disk, disk')
  BY <1>3, <1>4, GrowsSame DEF Grows, FileInv, StreamsSound
<1>7. table' = [s \in Slots |-> table'[s]] /\ \A s \in Slots : table'[s] = Free
  BY <1>1
<1>8. StreamsSound'
  BY <1>1, <1>2, <1>5, <1>6, <1>7, StreamsStay
<1>9. SlotsUsed' = {}
  BY <1>7 DEF SlotsUsed
<1>10. CountExact' /\ OncePerName' /\ Pointers'
  BY <1>1, <1>9, FS_EmptySet DEF CountExact, OncePerName, Pointers, Selectable
<1>11. QED BY <1>2, <1>8, <1>10 DEF FileInv

LEMMA SelectKeeps ==
  ASSUME FileInv, SetRead \/ SetWrite
  PROVE  FileInv'
<1>1. /\ Command /\ UNCHANGED <<disk, table, count, dribble>>
      /\ reader' \in Selectable /\ writer' \in Selectable
  BY DEF SetRead, SetWrite, FileInv, Pointers
<1>2. World' /\ JobSound' /\ UNCHANGED gen
  BY <1>1, CommandIs
<1>3. QED BY <1>1, <1>2, Steady DEF FileInv

\* What a live pointer finds.
LEMMA LiveIs ==
  ASSUME FileInv, NEW s \in Selectable, Live(s)
  PROVE  s \in SlotsUsed /\ Sound(table[s], disk, gen) /\ ~Stale(table[s])
         /\ View(disk, table[s]) \in Seq(Chunks) /\ table[s].rpos \in Nat
<1>1. s \in SlotsUsed /\ ~Stale(table[s])
  BY DEF Live, Selectable, SlotsUsed
<1>2. Sound(table[s], disk, gen)
  BY <1>1 DEF FileInv, StreamsSound
<1>3. View(disk, table[s]) \in Seq(Chunks)
  BY <1>1, <1>2 DEF View, Sound, Stale, FileInv, StreamsSound, Stored
<1>4. QED BY <1>1, <1>2, <1>3 DEF Sound

\* A cursor of one stream moves.
LEMMA CursorKeeps ==
  ASSUME FileInv, NEW s \in Selectable, Live(s), NEW pos \in 0 .. Len(View(disk, table[s])),
         table' = [table EXCEPT ![s].rpos = pos] \/ table' = [table EXCEPT ![s].wpos = pos],
         UNCHANGED <<gen, disk, count, reader, writer, dribble>>
  PROVE  StreamsSound' /\ CountExact' /\ OncePerName' /\ Pointers'
<1> DEFINE i == [table[s] EXCEPT !.rpos = pos]
           j == [table[s] EXCEPT !.wpos = pos]
<1>1. s \in SlotsUsed /\ Sound(table[s], disk, gen) /\ ~Stale(table[s]) /\ StreamsSound
  BY LiveIs DEF FileInv
<1>2. Sound(i, disk, gen) /\ i.name = table[s].name /\ Sound(j, disk, gen) /\ j.name = table[s].name
  BY <1>1, CursorIs, Zenon
<1>3. [table EXCEPT ![s].rpos = pos] = [table EXCEPT ![s] = i]
  OBVIOUS
<1>4. [table EXCEPT ![s].wpos = pos] = [table EXCEPT ![s] = j]
  OBVIOUS
<1>5. table' = [table EXCEPT ![s] = i] \/ table' = [table EXCEPT ![s] = j]
  BY <1>3, <1>4, Zenon
<1> HIDE DEF i, j
<1>6. PICK h \in {i, j} : table' = [table EXCEPT ![s] = h]
  BY <1>5
<1>7. table' = [t \in Slots |-> IF t = s THEN h ELSE table[t]]
  BY <1>1, <1>6 DEF StreamsSound, SlotsUsed
<1>8. Stored(disk') /\ Grows(disk, disk')
  BY <1>1, GrowsSame DEF StreamsSound
<1>9. Sound(h, disk', gen) /\ h.name = table[s].name
  BY <1>2, <1>6
<1>10. reader' \in Selectable /\ writer' \in Selectable
  BY DEF FileInv, Pointers
<1>11. QED BY <1>1, <1>7, <1>8, <1>9, <1>10, OneStream

LEMMA PosKeeps ==
  ASSUME FileInv, NEW pos \in 0 .. MaxLen, SetReadPos(pos) \/ SetWritePos(pos)
  PROVE  FileInv'
<1>1. Command /\ UNCHANGED <<disk, count, reader, writer, dribble>>
  BY DEF SetReadPos, SetWritePos
<1>2. World' /\ JobSound' /\ UNCHANGED gen
  BY <1>1, CommandIs
<1>3. reader \in Selectable /\ writer \in Selectable
  BY DEF FileInv, Pointers
<1>4. CASE SetReadPos(pos)
  <2>1. Live(reader) /\ pos <= Len(View(disk, table[reader])) /\ table' = [table EXCEPT ![reader].rpos = pos]
    BY <1>4, Zenon DEF SetReadPos
  <2>2. Live(reader) /\ pos <= Len(View(disk, table[reader]))
    BY <2>1, Zenon
  <2>3. pos \in 0 .. Len(View(disk, table[reader]))
    BY <1>3, <2>2, LiveIs, Numbers
  <2>4. StreamsSound' /\ CountExact' /\ OncePerName' /\ Pointers'
    BY <1>1, <1>2, <1>3, <2>1, <2>3, CursorKeeps, Zenon
  <2>5. QED BY <1>2, <2>4 DEF FileInv
<1>5. CASE SetWritePos(pos)
  <2>1. Live(writer) /\ pos <= Len(View(disk, table[writer])) /\ table' = [table EXCEPT ![writer].wpos = pos]
    BY <1>5, Zenon DEF SetWritePos
  <2>2. Live(writer) /\ pos <= Len(View(disk, table[writer]))
    BY <2>1, Zenon
  <2>3. pos \in 0 .. Len(View(disk, table[writer]))
    BY <1>3, <2>2, LiveIs, Numbers
  <2>4. StreamsSound' /\ CountExact' /\ OncePerName' /\ Pointers'
    BY <1>1, <1>2, <1>3, <2>1, <2>3, CursorKeeps, Zenon
  <2>5. QED BY <1>2, <2>4 DEF FileInv
<1>6. QED BY <1>4, <1>5

\* One chunk read: the cursor was before the end.
LEMMA ReadOne ==
  ASSUME FileInv, NEW s \in Selectable, Live(s), ~AtEnd(disk, table[s]),
         table' = [table EXCEPT ![s].rpos = @ + 1],
         UNCHANGED <<gen, disk, count, reader, writer, dribble>>
  PROVE  StreamsSound' /\ CountExact' /\ OncePerName' /\ Pointers'
<1> DEFINE pos == table[s].rpos + 1
<1>1. pos \in 0 .. Len(View(disk, table[s]))
  BY LiveIs DEF AtEnd
<1>2. [table EXCEPT ![s].rpos = @ + 1] = [table EXCEPT ![s].rpos = pos]
  OBVIOUS
<1>3. table' = [table EXCEPT ![s].rpos = pos]
  BY <1>2, Zenon
<1> HIDE DEF pos
<1>4. QED BY <1>1, <1>3, CursorKeeps, Zenon

LEMMA ReadKeeps ==
  ASSUME FileInv, Read
  PROVE  FileInv'
<1>1. Command /\ UNCHANGED <<disk, count, reader, writer, dribble>>
  BY DEF Read
<1>2. World' /\ JobSound' /\ UNCHANGED gen
  BY <1>1, CommandIs
<1>3. Live(reader) /\ ~AtEnd(disk, table[reader]) /\ table' = [table EXCEPT ![reader].rpos = @ + 1]
  BY Zenon DEF Read
<1>4. reader \in Selectable
  BY DEF FileInv, Pointers
<1>5. StreamsSound' /\ CountExact' /\ OncePerName' /\ Pointers'
  BY <1>1, <1>2, <1>3, <1>4, ReadOne, Zenon
<1>6. QED BY <1>2, <1>5 DEF FileInv

LEMMA PrintKeeps ==
  ASSUME FileInv, NEW c \in Chunks, PrimPrint(c)
  PROVE  FileInv'
<1>1. Command /\ UNCHANGED <<count, reader, writer>>
  BY DEF PrimPrint
<1>2. World' /\ JobSound' /\ UNCHANGED gen
  BY <1>1, CommandIs
<1>3. PICK ok1 \in Outcomes(Handle(writer)), ok2 \in Outcomes(dribble), late1 \in Late, late2 \in Late :
      \E w \in {Written(disk, Handle(writer), c, ok1, late1)} :
      \E b \in {Written(w.d, dribble, c, ok2, late2)} :
        /\ disk' = b.d /\ dribble' = Cleared(b.h)
        /\ table' = [s \in Slots |-> IF s = writer THEN Cleared(w.h) ELSE table[s]]
  BY DEF PrimPrint
<1>4. PICK w : /\ w = Written(disk, Handle(writer), c, ok1, late1)
               /\ \E b \in {Written(w.d, dribble, c, ok2, late2)} :
                    /\ disk' = b.d /\ dribble' = Cleared(b.h)
                    /\ table' = [s \in Slots |-> IF s = writer THEN Cleared(w.h) ELSE table[s]]
  BY <1>3
<1>5. PICK b : /\ b = Written(w.d, dribble, c, ok2, late2)
               /\ disk' = b.d /\ dribble' = Cleared(b.h)
               /\ table' = [s \in Slots |-> IF s = writer THEN Cleared(w.h) ELSE table[s]]
  BY <1>4
<1>6. gen \in Nat /\ Stored(disk) /\ writer \in Selectable /\ reader \in Selectable
  BY Numbers DEF FileInv, StreamsSound, Pointers
<1>7. writer # Console => writer \in SlotsUsed /\ Handle(writer) = table[writer]
  BY <1>6 DEF Selectable, Handle, SlotsUsed
<1>8. Handle(writer) # Free => Sound(Handle(writer), disk, gen)
  BY <1>7 DEF Handle, FileInv, StreamsSound
<1>9. /\ Stored(w.d) /\ Grows(disk, w.d)
      /\ Handle(writer) # Free => Sound(w.h, w.d, gen) /\ w.h.name = Handle(writer).name
  <2>1. w = Written(disk, Handle(writer), c, ok1, late1)
    BY <1>4
  <2>2. QED BY <1>6, <1>8, <2>1, WrittenIs, SMTT(60)
<1>10. dribble # Free => Sound(dribble, w.d, gen)
  BY <1>6, <1>9, SoundGrows DEF FileInv, StreamsSound
<1>11. /\ Stored(b.d) /\ Grows(w.d, b.d)
       /\ dribble = Free => b.h = Free
       /\ dribble # Free => Sound(b.h, b.d, gen)
  <2>1. PICK d : d = w.d
    OBVIOUS
  <2>2. b = Written(d, dribble, c, ok2, late2)
    BY <1>5, <2>1
  <2>3. Stored(d) /\ gen \in Nat /\ (dribble # Free => Sound(dribble, d, gen))
    BY <1>6, <1>9, <1>10, <2>1
  <2>4. /\ Stored(b.d) /\ Grows(d, b.d)
        /\ dribble = Free => b.h = Free
        /\ dribble # Free => Sound(b.h, b.d, gen)
    <3>1. CASE dribble = Free
      <4>1. b = [d |-> d, h |-> dribble]
        BY <2>2, <3>1, Zenon DEF Written
      <4>2. b.d = d /\ b.h = dribble
        BY <4>1
      <4>3. QED BY <2>3, <3>1, <4>2, GrowsSame
    <3>2. CASE dribble # Free
      <4>1. Sound(dribble, d, gen)
        BY <2>3, <3>2
      <4>2. Stored(b.d) /\ Grows(d, b.d) /\ Sound(b.h, b.d, gen)
        BY <2>2, <2>3, <3>2, <4>1, WrittenIs
      <4>3. QED BY <3>2, <4>2
    <3>3. QED BY <3>1, <3>2
  <2>5. QED BY <2>1, <2>4
<1>12. Stored(disk') /\ Grows(disk, disk')
  BY <1>5, <1>6, <1>9, <1>11, GrowsTwice
<1>13. dribble' \in {dribble, Free} \/ Sound(dribble', disk', gen)
  BY <1>5, <1>11, ClearedIs
<1>14. CASE writer = Console
  <2>1. \A s \in Slots : table'[s] = table[s]
    BY <1>5, <1>14, Numbers
  <2>2. table' = [s \in Slots |-> table'[s]]
    BY <1>5
  <2>3. StreamsSound'
    BY <1>2, <1>12, <1>13, <2>1, <2>2, StreamsStay
  <2>4. CountExact' /\ OncePerName' /\ Pointers'
    BY <1>1, <1>6, <2>1, SlotsStay DEF SlotsUsed
  <2>5. QED BY <1>2, <2>3, <2>4 DEF FileInv
<1>15. CASE writer # Console
  <2>1. writer \in SlotsUsed /\ Handle(writer) # Free /\ Handle(writer) = table[writer]
    BY <1>7, <1>15 DEF SlotsUsed
  <2>2. Sound(w.h, b.d, gen) /\ w.h.name = table[writer].name
    BY <1>9, <1>11, <2>1, SoundGrows
  <2>3. w.h # Free
    BY <2>2, StreamNotFree DEF Sound
  <2>4. Sound(Cleared(w.h), disk', gen) /\ Cleared(w.h).name = table[writer].name
    BY <1>5, <2>2, <2>3, ClearedIs
  <2>5. StreamsSound' /\ CountExact' /\ OncePerName' /\ Pointers'
    BY <1>1, <1>2, <1>5, <1>6, <1>12, <1>13, <2>1, <2>4, OneStream
  <2>6. QED BY <1>2, <2>5 DEF FileInv
<1>16. QED BY <1>14, <1>15

LEMMA DribbleKeeps ==
  ASSUME FileInv, NEW w \in DribbleWords, Dribble(w)
  PROVE  FileInv'
<1>1. /\ Command /\ UNCHANGED <<table, count, reader, writer>>
      /\ disk' = Created(disk, Resolve(w)) /\ dribble' = Fresh(disk, Resolve(w))
  BY DEF Dribble
<1>2. World' /\ JobSound' /\ UNCHANGED gen
  BY <1>1, CommandIs
<1>3. gen \in Nat /\ Stored(disk) /\ table = [s \in Slots |-> table[s]]
  BY Numbers DEF FileInv, StreamsSound
<1>4. Stored(disk') /\ Grows(disk, disk') /\ Sound(dribble', disk', gen)
  BY <1>1, <1>3, CreatedIs, FreshSound
<1>5. StreamsSound'
  BY <1>1, <1>2, <1>3, <1>4, StreamsStay
<1>6. CountExact' /\ OncePerName' /\ Pointers'
  BY <1>1, SlotsStay DEF FileInv, Pointers
<1>7. QED BY <1>2, <1>5, <1>6 DEF FileInv

LEMMA NoDribbleKeeps ==
  ASSUME FileInv, NoDribble
  PROVE  FileInv'
<1>1. /\ Command /\ UNCHANGED <<table, count, reader, writer>>
      /\ dribble # Free /\ dribble' = Free
  BY DEF NoDribble
<1>2. World' /\ JobSound' /\ UNCHANGED gen
  BY <1>1, CommandIs
<1>3. PICK ok \in Late : disk' = CloseStream(disk, dribble, ok)
  BY DEF NoDribble
<1>4. Stored(disk) /\ Sound(dribble, disk, gen) /\ table = [s \in Slots |-> table[s]]
  BY <1>1 DEF FileInv, StreamsSound
<1>5. Stored(disk') /\ Grows(disk, disk')
  BY <1>3, <1>4, CloseIs
<1>6. StreamsSound'
  BY <1>1, <1>2, <1>4, <1>5, StreamsStay
<1>7. CountExact' /\ OncePerName' /\ Pointers'
  BY <1>1, SlotsStay DEF FileInv, Pointers
<1>8. QED BY <1>2, <1>6, <1>7 DEF FileInv

LEMMA SetPrefixKeeps ==
  ASSUME FileInv, NEW w \in PrefixWords, SetPrefix(w)
  PROVE  FileInv'
<1>1. Command /\ UNCHANGED <<disk, table, count, reader, writer, dribble>>
  BY DEF SetPrefix, streams
<1>2. World' /\ JobSound' /\ UNCHANGED gen
  BY <1>1, CommandIs
<1>3. reader' \in Selectable /\ writer' \in Selectable
  BY <1>1 DEF FileInv, Pointers
<1>4. QED BY <1>1, <1>2, <1>3, Steady DEF FileInv

LEMMA EraseKeeps ==
  ASSUME FileInv, NEW w, EraseFile(w)
  PROVE  FileInv'
<1>1. PICK n : /\ Command /\ ~InUse(n) /\ UNCHANGED <<count, reader, writer>>
               /\ disk' = Without(disk, Key(n)) /\ Lose({Key(n)})
  BY DEF EraseFile
<1>2. World' /\ JobSound' /\ UNCHANGED gen
  BY <1>1, CommandIs
<1>3. Stored(disk') /\ \A k \in DOMAIN disk : k # Key(n) => k \in DOMAIN disk' /\ disk'[k] = disk[k]
  BY <1>1, WithoutIs DEF FileInv, StreamsSound
<1>4. StreamsSound' /\ CountExact' /\ OncePerName' /\ Pointers'
  BY <1>1, <1>2, <1>3, LoseIs
<1>5. QED BY <1>2, <1>4 DEF FileInv

LEMMA RenameKeeps ==
  ASSUME FileInv, NEW w, NEW v, Rename(w, v)
  PROVE  FileInv'
<1>1. PICK n, m :
        /\ Command /\ OnCard(n) = OnCard(m) /\ Key(n) # Key(m)
        /\ FileExists(n) /\ ~InUse(n)
        /\ OnCard(m) => ~FileExists(m)
        /\ disk' = [k \in (DOMAIN disk \cup {Key(m)}) \ {Key(n)} |-> IF k = Key(m) THEN disk[Key(n)] ELSE disk[k]]
        /\ Lose({Key(n), Key(m)}) /\ UNCHANGED <<count, reader, writer>>
  BY DEF Rename
<1>2. World' /\ JobSound' /\ UNCHANGED gen
  BY <1>1, CommandIs
<1>3. Key(n) \in DOMAIN disk /\ (OnCard(m) => Key(m) \notin DOMAIN disk)
  BY <1>1 DEF FileExists, Reachable
<1>4. Stored(disk')
  BY <1>1, <1>3 DEF Stored, FileInv, StreamsSound
<1>5. \A k \in DOMAIN disk : k.vol = "card" /\ k # Key(n) => k \in DOMAIN disk' /\ disk'[k] = disk[k]
  BY <1>1, <1>3, KeyVol
<1>6. StreamsSound' /\ CountExact' /\ OncePerName' /\ Pointers'
  BY <1>1, <1>2, <1>4, <1>5, LoseIs
<1>7. QED BY <1>2, <1>6 DEF FileInv

-----------------------------------------------------------------------------
(* The commands that take several steps.                                   *)

LEMMA ReadyIs ==
  ASSUME FileInv, ops < MaxOps, ops' = ops + 1, UNCHANGED <<card, gen>>,
         loading' # None => loading' = loading \/ loading'.slot \in Slots
  PROVE  World'
<1>1. ops \in Nat /\ ops + 1 \in 0 .. MaxOps
  BY Numbers DEF FileInv, World
<1>2. QED BY <1>1 DEF FileInv, World

LEMMA StartKeeps ==
  ASSUME FileInv, NEW op \in {"copy", "move"}, NEW n, NEW m, Transfer(op, n, m),
         op = "move" => ~InUse(n)
  PROVE  FileInv'
<1>1. /\ job = None /\ ops < MaxOps /\ ops' = ops + 1 /\ UNCHANGED <<card, gen, loading, count, reader, writer>>
      /\ ~InUse(m) /\ ClearDestination(m)
      /\ job' = [op |-> op, src |-> n, dst |-> m, was |-> disk[Key(n)], at |-> "open", in |-> Free, out |-> Free]
  BY DEF Transfer, Ready
<1>2. World'
  BY <1>1, ReadyIs
<1>3. StreamsSound' /\ CountExact' /\ OncePerName' /\ Pointers' /\ \A k : InUse(k)' => InUse(k)
  BY <1>1, ClearIs
<1>4. IsTransfer(job') /\ job'.op = op /\ job'.src = n /\ job'.dst = m /\ job'.at = "open"
  BY <1>1 DEF IsTransfer, JobFields
<1>5. ~InUse(m)' /\ (op = "move" => ~InUse(n)')
  BY <1>1, <1>3
<1>6. JobSound'
  BY <1>4, <1>5 DEF JobSound, InUse, Stale
<1>7. QED BY <1>2, <1>3, <1>6 DEF FileInv

\* A step of a transfer that erases nothing.
LEMMA TransferStep ==
  ASSUME FileInv, IsTransfer(job), UNCHANGED <<card, gen, ops, loading, count, reader, writer, table, dribble>>,
         Stored(disk'), Grows(disk, disk'),
         \/ job' = None
         \/ /\ IsTransfer(job') /\ job'.op = job.op /\ job'.src = job.src /\ job'.dst = job.dst
            /\ job'.at = "drop" => job'.op = "move"
            /\ job'.at \in {"copy", "close"} => Sound(job'.in, disk', gen) /\ Sound(job'.out, disk', gen)
  PROVE  FileInv'
<1>1. World'
  BY DEF FileInv, World
<1>2. StreamsSound'
  <2>1. table' = [s \in Slots |-> table'[s]] /\ \A s \in Slots : table'[s] = table[s]
    BY DEF FileInv, StreamsSound
  <2>2. QED BY <2>1, StreamsStay
<1>3. CountExact' /\ OncePerName' /\ Pointers'
  BY SlotsStay DEF FileInv, Pointers
<1>4. \A m : InUse(m)' = InUse(m)
  BY DEF InUse, Stale
<1>5. job # None
  BY DEF IsTransfer, None
<1>6. ~InUse(job.dst) /\ (job.op = "move" => ~InUse(job.src))
  BY <1>5 DEF FileInv, JobSound, IsTransfer, IsSave
<1>7. JobSound'
  <2>1. CASE job' = None
    BY <2>1 DEF JobSound
  <2>2. CASE /\ IsTransfer(job') /\ job'.op = job.op /\ job'.src = job.src /\ job'.dst = job.dst
             /\ job'.at = "drop" => job'.op = "move"
             /\ job'.at \in {"copy", "close"} => Sound(job'.in, disk', gen) /\ Sound(job'.out, disk', gen)
    <3>1. PICK n, m : n = job.src /\ m = job.dst
      OBVIOUS
    <3>2. ~InUse(m)' /\ (job.op = "move" => ~InUse(n)')
      BY <1>4, <1>6, <3>1
    <3>3. QED BY <2>2, <3>1, <3>2 DEF JobSound, InUse, Stale
  <2>3. QED BY <2>1, <2>2
<1>8. QED BY <1>1, <1>2, <1>3, <1>7 DEF FileInv

\* What a running transfer has in hand.
LEMMA RunningIs ==
  ASSUME FileInv, NEW at, Running(at)
  PROVE  /\ IsTransfer(job) /\ job.at = at /\ ~InUse(job.dst) /\ (job.op = "move" => ~InUse(job.src))
         /\ at = "drop" => job.op = "move"
         /\ at \in {"copy", "close"} => Sound(job.in, disk, gen) /\ Sound(job.out, disk, gen)
         /\ UNCHANGED <<card, gen, count, reader, writer, loading, ops>>
         /\ Stored(disk) /\ gen \in Nat /\ World'
<1>1. job.op \in {"copy", "move"} /\ job.at = at
      /\ UNCHANGED <<card, gen, count, reader, writer, loading, ops>>
  BY DEF Running
<1>2. job # None
  BY <1>1 DEF None
<1>3. World'
  BY <1>1 DEF FileInv, World
<1>4. QED BY <1>1, <1>2, <1>3, Numbers DEF FileInv, JobSound, IsSave, StreamsSound

\* A transfer goes on with other streams or at another place.
LEMMA OnwardIs ==
  ASSUME IsTransfer(job), NEW at
  PROVE  /\ Onward(at) => /\ IsTransfer(job') /\ job'.op = job.op /\ job'.src = job.src /\ job'.dst = job.dst
                          /\ job'.was = job.was /\ job'.at = at
         /\ \A i, o : job' = [job EXCEPT !.at = at, !.in = i, !.out = o] =>
               /\ IsTransfer(job') /\ job'.op = job.op /\ job'.src = job.src /\ job'.dst = job.dst
               /\ job'.was = job.was /\ job'.at = at /\ job'.in = i /\ job'.out = o
<1> USE DEF IsTransfer, JobFields
<1>1. ASSUME Onward(at)
      PROVE  /\ IsTransfer(job') /\ job'.op = job.op /\ job'.src = job.src /\ job'.dst = job.dst
             /\ job'.was = job.was /\ job'.at = at
  BY <1>1 DEF Onward
<1>2. ASSUME NEW i, NEW o, job' = [job EXCEPT !.at = at, !.in = i, !.out = o]
      PROVE  /\ IsTransfer(job') /\ job'.op = job.op /\ job'.src = job.src /\ job'.dst = job.dst
             /\ job'.was = job.was /\ job'.at = at /\ job'.in = i /\ job'.out = o
  BY <1>2
<1>3. QED BY <1>1, <1>2

LEMMA PassedOn ==
  ASSUME IsTransfer(job), NEW at, NEW i, NEW o, job' = [job EXCEPT !.at = at, !.in = i, !.out = o]
  PROVE  /\ IsTransfer(job') /\ job'.op = job.op /\ job'.src = job.src /\ job'.dst = job.dst
         /\ job'.was = job.was /\ job'.at = at /\ job'.in = i /\ job'.out = o
  BY OnwardIs

LEMMA TransferOpenKeeps ==
  ASSUME FileInv, TransferOpen
  PROVE  FileInv'
<1>1. Running("open") /\ UNCHANGED <<table, dribble>>
  BY DEF TransferOpen
<1>2. /\ IsTransfer(job) /\ UNCHANGED <<card, gen, count, reader, writer, loading, ops>>
      /\ Stored(disk) /\ gen \in Nat
  BY <1>1, RunningIs
<1>3. CASE UNCHANGED disk /\ Report(FALSE)
  BY <1>1, <1>2, <1>3, GrowsSame, TransferStep DEF Report
<1>4. ASSUME NEW d, d = Created(disk, job.src), disk' = d, Report(FALSE) PROVE FileInv'
  <2>1. Stored(d) /\ Grows(disk, d)
    BY <1>2, <1>4, CreatedIs
  <2>2. QED BY <1>1, <1>2, <1>4, <2>1, TransferStep DEF Report
<1>5. ASSUME NEW d, d = Created(disk, job.src), disk' = Created(d, job.dst),
             job' = [job EXCEPT !.at = "copy", !.in = Fresh(d, job.src), !.out = Fresh(d, job.dst)]
      PROVE  FileInv'
  <2>1. Stored(d) /\ Grows(disk, d) /\ Key(job.src) \in DOMAIN d
    <3>1. Stored(Created(disk, job.src)) /\ Grows(disk, Created(disk, job.src))
          /\ DOMAIN Created(disk, job.src) = DOMAIN disk \cup {Key(job.src)}
      BY <1>2, CreatedIs
    <3>2. QED BY <1>5, <3>1
  <2>2. Stored(disk') /\ Grows(d, disk')
    BY <1>5, <2>1, CreatedIs
  <2>3. Created(d, job.src) = d
    BY <2>1 DEF Created
  <2>4. Sound(Fresh(d, job.src), d, gen)
    BY <1>2, <2>1, <2>3, FreshSound
  <2>5. Sound(Fresh(d, job.src), disk', gen)
    BY <2>1, <2>2, <2>4, SoundGrows
  <2>6. Sound(Fresh(d, job.dst), disk', gen)
    BY <1>2, <1>5, <2>1, FreshSound
  <2>7. /\ IsTransfer(job') /\ job'.op = job.op /\ job'.src = job.src /\ job'.dst = job.dst
        /\ job'.at = "copy" /\ job'.in = Fresh(d, job.src) /\ job'.out = Fresh(d, job.dst)
    BY <1>2, <1>5, OnwardIs, Zenon
  <2>8. Grows(disk, disk')
    BY <1>2, <2>1, <2>2, GrowsTwice
  <2>9. QED BY <1>1, <1>2, <2>2, <2>5, <2>6, <2>7, <2>8, TransferStep
<1>6. QED BY <1>3, <1>4, <1>5, Zenon DEF TransferOpen

\* What a stream that can be read gives.
LEMMA NextChunk ==
  ASSUME NEW h, Sound(h, disk, gen), Stored(disk), ~Stale(h), ~AtEnd(disk, h)
  PROVE  View(disk, h)[h.rpos + 1] \in Chunks /\ h.rpos + 1 \in 0 .. Len(View(disk, h))
<1>1. View(disk, h) \in Seq(Chunks) /\ h.rpos \in Nat
  BY DEF View, Sound, Stale, Stored
<1>2. QED BY <1>1 DEF AtEnd

LEMMA TransferChunkKeeps ==
  ASSUME FileInv, TransferChunk
  PROVE  FileInv'
<1>1. Running("copy") /\ UNCHANGED <<table, dribble>>
  BY DEF TransferChunk
<1>2. /\ IsTransfer(job) /\ UNCHANGED <<card, gen, count, reader, writer, loading, ops>>
      /\ Stored(disk) /\ gen \in Nat /\ Sound(job.in, disk, gen) /\ Sound(job.out, disk, gen)
  BY <1>1, RunningIs
<1>3. CASE Onward("undo") /\ UNCHANGED disk
  <2>1. IsTransfer(job') /\ job'.op = job.op /\ job'.src = job.src /\ job'.dst = job.dst /\ job'.at = "undo"
    BY <1>2, <1>3, OnwardIs, Zenon
  <2>2. Stored(disk') /\ Grows(disk, disk')
    BY <1>2, <1>3, GrowsSame
  <2>3. QED BY <1>1, <1>2, <2>1, <2>2, TransferStep
<1>4. ASSUME NEW late, NEW f, f = Flush(disk, job.out, late), disk' = f.d,
             job' = [job EXCEPT !.out = f.h, !.at = "close"]
      PROVE  FileInv'
  <2>1. Stored(f.d) /\ Grows(disk, f.d) /\ Sound(f.h, f.d, gen)
    <3>1. Flushed(disk, job.out, late, f)
      BY <1>2, <1>4, FlushIs, Zenon
    <3>2. QED BY <3>1 DEF Flushed
  <2>2. Sound(job.in, f.d, gen)
    BY <1>2, <2>1, SoundGrows
  <2>3. /\ IsTransfer(job') /\ job'.op = job.op /\ job'.src = job.src /\ job'.dst = job.dst
        /\ job'.at = "close" /\ job'.in = job.in /\ job'.out = f.h
    BY <1>2, <1>4 DEF IsTransfer, JobFields
  <2>4. QED BY <1>1, <1>2, <1>4, <2>1, <2>2, <2>3, TransferStep
<1>5. ASSUME ~Stale(job.in), ~AtEnd(disk, job.in), NEW ok, NEW w,
             w = WriteBytes(disk, job.out, View(disk, job.in)[job.in.rpos + 1], ok), disk' = w.d,
             job' = [job EXCEPT !.out = w.h, !.in.rpos = @ + 1, !.at = AfterChunk(w.h)]
      PROVE  FileInv'
  <2> DEFINE pos == job.in.rpos + 1
             j == [job.in EXCEPT !.rpos = pos]
  <2>1. View(disk, job.in)[pos] \in Chunks /\ pos \in 0 .. Len(View(disk, job.in))
    BY <1>2, <1>5, NextChunk
  <2>2. Stored(w.d) /\ Grows(disk, w.d) /\ Sound(w.h, w.d, gen)
    <3>1. w = WriteBytes(disk, job.out, View(disk, job.in)[pos], ok)
      BY <1>5, Zenon
    <3>2. QED BY <1>2, <2>1, <3>1, WriteSound
  <2>3. Sound(j, disk, gen)
    <3>1. StreamsSound
      BY DEF FileInv
    <3>2. QED BY <1>2, <1>5, <2>1, <3>1, CursorIs, Zenon
  <2>4. job' = [job EXCEPT !.at = AfterChunk(w.h), !.in = j, !.out = w.h]
    BY <1>2, <1>5 DEF IsTransfer, JobFields
  <2> HIDE DEF pos, j
  <2>5. Sound(j, w.d, gen)
    BY <1>2, <2>2, <2>3, SoundGrows
  <2>6. /\ IsTransfer(job') /\ job'.op = job.op /\ job'.src = job.src /\ job'.dst = job.dst
        /\ job'.at = AfterChunk(w.h) /\ job'.in = j /\ job'.out = w.h
    <3>1. IsTransfer(job)
      BY <1>2
    <3>2. PICK at, o : at = AfterChunk(w.h) /\ o = w.h
      OBVIOUS
    <3>3. job' = [job EXCEPT !.at = at, !.in = j, !.out = o]
      BY <2>4, <3>2
    <3>4. /\ IsTransfer(job') /\ job'.op = job.op /\ job'.src = job.src /\ job'.dst = job.dst
          /\ job'.was = job.was /\ job'.at = at /\ job'.in = j /\ job'.out = o
      BY <3>1, <3>3, PassedOn, Zenon
    <3>5. QED BY <3>2, <3>4, Zenon
  <2>7. Stored(disk') /\ Grows(disk, disk') /\ Sound(j, disk', gen) /\ Sound(w.h, disk', gen)
    BY <1>5, <2>2, <2>5, Zenon
  <2>8. QED BY <1>1, <1>2, <2>6, <2>7, TransferStep DEF AfterChunk
<1>6. \/ Onward("undo") /\ UNCHANGED disk
      \/ \E late \in Late : \E f \in {Flush(disk, job.out, late)} :
             disk' = f.d /\ job' = [job EXCEPT !.out = f.h, !.at = "close"]
      \/ /\ ~Stale(job.in) /\ ~AtEnd(disk, job.in)
         /\ \E ok \in Outcomes(job.out) :
            \E w \in {WriteBytes(disk, job.out, View(disk, job.in)[job.in.rpos + 1], ok)} :
             disk' = w.d /\ job' = [job EXCEPT !.out = w.h, !.in.rpos = @ + 1, !.at = AfterChunk(w.h)]
  BY Zenon DEF TransferChunk
<1>7. QED BY <1>3, <1>4, <1>5, <1>6, Zenon

LEMMA TransferCloseKeeps ==
  ASSUME FileInv, TransferClose
  PROVE  FileInv'
<1>1. Running("close") /\ UNCHANGED <<table, dribble>>
  BY DEF TransferClose
<1>2. /\ IsTransfer(job) /\ UNCHANGED <<card, gen, count, reader, writer, loading, ops>>
      /\ Stored(disk) /\ gen \in Nat /\ Sound(job.in, disk, gen) /\ Sound(job.out, disk, gen)
  BY <1>1, RunningIs
<1>3. PICK ok \in Late : disk' = CloseStream(disk, job.out, ok)
  BY DEF TransferClose
<1>4. Stored(disk') /\ Grows(disk, disk')
  BY <1>2, <1>3, CloseIs
<1>5. Report(TRUE) \/ (job.op # "copy" /\ Onward("drop"))
  BY DEF TransferClose
<1>6. CASE Report(TRUE)
  BY <1>1, <1>2, <1>4, <1>6, TransferStep DEF Report
<1>7. CASE job.op # "copy" /\ Onward("drop")
  <2>1. IsTransfer(job') /\ job'.op = job.op /\ job'.src = job.src /\ job'.dst = job.dst /\ job'.at = "drop"
    BY <1>2, <1>7, OnwardIs, Zenon
  <2>2. job'.op = "move"
    BY <1>2, <1>7, <2>1 DEF IsTransfer
  <2>3. QED BY <1>1, <1>2, <1>4, <2>1, <2>2, TransferStep
<1>8. QED BY <1>5, <1>6, <1>7

LEMMA TransferEndKeeps ==
  ASSUME FileInv, TransferUndo \/ MoveDrop
  PROVE  FileInv'
<1>1. PICK at, m : Running(at) /\ job' = None /\ ClearDestination(m) /\ ~InUse(m)
  <2>1. CASE TransferUndo
    BY <2>1, RunningIs DEF TransferUndo, Report
  <2>2. CASE MoveDrop
    <3>1. Running("drop") /\ job' = None /\ ClearDestination(job.src)
      BY <2>2 DEF MoveDrop, Report
    <3>2. QED BY <3>1, RunningIs
  <2>3. QED BY <2>1, <2>2
<1>2. UNCHANGED <<card, gen, count, reader, writer, loading, ops>> /\ World'
  BY <1>1, RunningIs
<1>3. StreamsSound' /\ CountExact' /\ OncePerName' /\ Pointers'
  BY <1>1, <1>2, ClearIs
<1>4. JobSound'
  BY <1>1 DEF JobSound
<1>5. QED BY <1>2, <1>3, <1>4 DEF FileInv

LEMMA SaveKeeps ==
  ASSUME FileInv, NEW w \in Words, Save(w)
  PROVE  FileInv'
<1>1. PICK n \in {Resolve(w)}, s \in Slots :
        /\ Ready /\ Enter(n, s) /\ writer' = s
        /\ job' = [op |-> "save", name |-> n, old |-> writer, left |-> Workspace]
        /\ UNCHANGED <<reader, dribble>>
  BY DEF Save
<1>2. World' /\ UNCHANGED gen
  BY <1>1, ReadyIs DEF Ready
<1>3. /\ StreamsSound' /\ CountExact' /\ OncePerName'
      /\ SlotsUsed' = SlotsUsed \cup {s} /\ Selectable \subseteq Selectable'
  BY <1>1, <1>2, EnterIs
<1>4. s \in Selectable'
  BY <1>3 DEF Selectable, SlotsUsed
<1>5. Pointers' /\ writer \in Selectable'
  BY <1>1, <1>3, <1>4 DEF FileInv, Pointers
<1>6. IsSave(job') /\ job'.left = Workspace /\ job'.old = writer
  BY <1>1 DEF IsSave, SaveFields
<1>7. JobSound'
  BY <1>1, <1>5, <1>6, Numbers, FilesAssumption DEF JobSound
<1>8. QED BY <1>2, <1>3, <1>5, <1>7 DEF FileInv

\* What a running save has in hand.
LEMMA SavingIs ==
  ASSUME FileInv, job.op = "save"
  PROVE  /\ IsSave(job) /\ job.left \in Seq(Chunks) /\ job.old \in Selectable
         /\ writer \in SlotsUsed /\ Sound(table[writer], disk, gen)
<1>1. IsSave(job) /\ job.left \in Seq(Chunks) /\ job.old \in Selectable /\ writer # Console
  BY DEF FileInv, JobSound, None, IsTransfer
<1>2. writer \in SlotsUsed
  BY <1>1 DEF FileInv, Pointers, Selectable, SlotsUsed
<1>3. QED BY <1>1, <1>2 DEF FileInv, StreamsSound

LEMMA SaveChunkKeeps ==
  ASSUME FileInv, SaveChunk
  PROVE  FileInv'
<1>1. /\ job.op = "save" /\ job.left # <<>>
      /\ UNCHANGED <<card, gen, count, reader, writer, prefix, loading, ops>>
  BY DEF SaveChunk
<1>2. World'
  BY <1>1 DEF FileInv, World
<1>3. /\ IsSave(job) /\ job.left \in Seq(Chunks) /\ job.old \in Selectable
      /\ writer \in SlotsUsed /\ Sound(table[writer], disk, gen)
  BY <1>1, SavingIs
<1>4. PICK c : c = Head(job.left)
  OBVIOUS
<1>5. c \in Chunks
  BY <1>1, <1>3, <1>4
<1>6. PICK ok1 \in Outcomes(table[writer]), ok2 \in Outcomes(dribble) :
      \E w \in {WriteBytes(disk, table[writer], c, ok1)} :
      \E b \in {IF dribble = Free THEN [d |-> w.d, h |-> Free] ELSE WriteBytes(w.d, dribble, c, ok2)} :
        disk' = b.d /\ table' = [table EXCEPT ![writer] = w.h] /\ dribble' = b.h
  BY <1>4 DEF SaveChunk
<1>7. PICK w : /\ w = WriteBytes(disk, table[writer], c, ok1)
               /\ \E b \in {IF dribble = Free THEN [d |-> w.d, h |-> Free] ELSE WriteBytes(w.d, dribble, c, ok2)} :
                    disk' = b.d /\ table' = [table EXCEPT ![writer] = w.h] /\ dribble' = b.h
  BY <1>6
<1>8. PICK b : /\ b = IF dribble = Free THEN [d |-> w.d, h |-> Free] ELSE WriteBytes(w.d, dribble, c, ok2)
               /\ disk' = b.d /\ table' = [table EXCEPT ![writer] = w.h] /\ dribble' = b.h
  BY <1>7
<1>9. gen \in Nat /\ Stored(disk) /\ reader \in Selectable /\ writer \in Selectable
  BY Numbers DEF FileInv, StreamsSound, Pointers
<1>10. Stored(w.d) /\ Grows(disk, w.d) /\ Sound(w.h, w.d, gen) /\ w.h.name = table[writer].name
  <2>1. w = WriteBytes(disk, table[writer], c, ok1)
    BY <1>7
  <2>2. QED BY <1>3, <1>5, <1>9, <2>1, WriteSound
<1>11. Stored(b.d) /\ Grows(w.d, b.d) /\ (dribble = Free => b.h = Free) /\ (dribble # Free => Sound(b.h, b.d, gen))
  <2>1. CASE dribble = Free
    <3>1. b = [d |-> w.d, h |-> Free]
      BY <1>8, <2>1
    <3>2. b.d = w.d /\ b.h = Free
      BY <3>1
    <3>3. QED BY <1>10, <2>1, <3>2, GrowsSame
  <2>2. CASE dribble # Free
    <3>1. PICK e : e = w.d
      OBVIOUS
    <3>2. b = WriteBytes(e, dribble, c, ok2)
      BY <1>8, <2>2, <3>1
    <3>3. Sound(dribble, disk, gen)
      BY <2>2 DEF FileInv, StreamsSound
    <3>4. Stored(e) /\ Sound(dribble, e, gen)
      BY <1>9, <1>10, <3>1, <3>3, SoundGrows
    <3>5. Stored(b.d) /\ Grows(e, b.d) /\ Sound(b.h, b.d, gen)
      BY <1>5, <3>2, <3>4, WriteSound
    <3>6. QED BY <2>2, <3>1, <3>5
  <2>3. QED BY <2>1, <2>2
<1>12. Stored(disk') /\ Grows(disk, disk')
  BY <1>8, <1>9, <1>10, <1>11, GrowsTwice
<1>13. Sound(w.h, disk', gen)
  BY <1>8, <1>10, <1>11, SoundGrows
<1>14. table' = [s \in Slots |-> IF s = writer THEN w.h ELSE table[s]]
  BY <1>8, <1>3 DEF FileInv, StreamsSound, SlotsUsed
<1>15. dribble' \in {dribble, Free} \/ Sound(dribble', disk', gen)
  BY <1>8, <1>11
<1>16. StreamsSound' /\ CountExact' /\ OncePerName' /\ Pointers' /\ Selectable' = Selectable
  BY <1>1, <1>3, <1>9, <1>10, <1>12, <1>13, <1>14, <1>15, OneStream
<1>17. job' = [job EXCEPT !.left = Tail(job.left)]
  BY Zenon DEF SaveChunk
<1>18. IsSave(job') /\ job'.left = Tail(job.left) /\ job'.old = job.old
  BY <1>3, <1>17 DEF IsSave, SaveFields
<1>19. job'.left \in Seq(Chunks)
  BY <1>1, <1>3, <1>18
<1>20. JobSound'
  BY <1>1, <1>3, <1>16, <1>18, <1>19, Numbers DEF JobSound, SlotsUsed
<1>21. QED BY <1>2, <1>16, <1>20 DEF FileInv

LEMMA SaveEndKeeps ==
  ASSUME FileInv, SaveEnd
  PROVE  FileInv'
<1>1. /\ job.op = "save" /\ Leave(job.name, job.old) /\ job' = None
      /\ UNCHANGED <<card, gen, dribble, loading, ops>>
  BY DEF SaveEnd
<1>2. World' /\ JobSound'
  BY <1>1 DEF FileInv, World, JobSound
<1>3. StreamsSound' /\ CountExact' /\ OncePerName' /\ Pointers'
  BY <1>1, SavingIs, LeaveIs
<1>4. QED BY <1>2, <1>3 DEF FileInv

LEMMA LoadKeeps ==
  ASSUME FileInv, NEW w \in Words, Load(w)
  PROVE  FileInv'
<1>1. PICK n \in {Resolve(w)}, s \in Slots :
        /\ job = None /\ ops < MaxOps /\ ops' = ops + 1
        /\ Enter(n, s) /\ loading' = [op |-> "load", word |-> w, slot |-> s]
        /\ UNCHANGED <<card, gen, reader, writer, dribble, job>>
  BY DEF Load
<1>2. World' /\ JobSound'
  BY <1>1, ReadyIs DEF JobSound
<1>3. StreamsSound' /\ CountExact' /\ OncePerName' /\ Selectable \subseteq Selectable'
  BY <1>1, EnterIs
<1>4. QED BY <1>1, <1>2, <1>3 DEF FileInv, Pointers

LEMMA LoadLineKeeps ==
  ASSUME FileInv, LoadLine
  PROVE  FileInv'
<1>1. /\ job = None /\ loading # None /\ table[loading.slot] # Free
      /\ UNCHANGED <<disk, card, gen, count, reader, writer, dribble, loading, job, ops>>
  BY DEF LoadLine, volumes
<1>2. World' /\ JobSound'
  BY <1>1 DEF FileInv, World, JobSound
<1>3. loading.slot \in Selectable
  BY <1>1 DEF FileInv, World, Selectable
<1>4. /\ Live(loading.slot) /\ ~AtEnd(disk, table[loading.slot])
      /\ table' = [table EXCEPT ![loading.slot].rpos = @ + 1]
  BY Zenon DEF LoadLine
<1>5. StreamsSound' /\ CountExact' /\ OncePerName' /\ Pointers'
  BY <1>1, <1>3, <1>4, ReadOne, Zenon
<1>6. QED BY <1>2, <1>5 DEF FileInv

LEMMA LoadEndKeeps ==
  ASSUME FileInv, LoadEnd
  PROVE  FileInv'
<1>1. /\ job = None /\ Leave(Resolve(loading.word), writer) /\ loading' = None
      /\ UNCHANGED <<card, gen, dribble, job, ops>>
  BY DEF LoadEnd
<1>2. World' /\ JobSound'
  BY <1>1 DEF FileInv, World, JobSound
<1>3. writer \in Selectable
  BY DEF FileInv, Pointers
<1>4. StreamsSound' /\ CountExact' /\ OncePerName' /\ Pointers'
  BY <1>1, <1>3, LeaveIs
<1>5. QED BY <1>2, <1>4 DEF FileInv

\* The card is pulled: what was open on it is stale from now on.
LEMMA EjectKeeps ==
  ASSUME FileInv, Eject
  PROVE  FileInv'
<1>1. /\ card' = FALSE /\ gen' = gen + 1 /\ gen < MaxGen
      /\ UNCHANGED <<disk, table, count, reader, writer, dribble, loading, job, ops>>
  BY DEF Eject, streams
<1>2. gen \in Nat /\ gen + 1 \in 0 .. MaxGen
  BY <1>1, Numbers DEF FileInv, World
<1>3. World'
  BY <1>1, <1>2 DEF FileInv, World
<1>4. ASSUME NEW h, Sound(h, disk, gen) PROVE Sound(h, disk', gen') /\ h.gen # gen'
  <2>1. h.gen \in 0 .. gen' /\ h.gen # gen'
    BY <1>1, <1>2, <1>4 DEF Sound
  <2>2. QED BY <1>1, <1>4, <2>1 DEF Sound
<1>5. SlotsUsed' = SlotsUsed /\ Selectable' = Selectable
  BY <1>1 DEF SlotsUsed, Selectable
<1>6. StreamsSound'
  BY <1>1, <1>4, <1>5 DEF FileInv, StreamsSound
<1>7. CountExact' /\ OncePerName' /\ Pointers'
  BY <1>1, <1>5 DEF FileInv, CountExact, OncePerName, Pointers
<1>8. ASSUME NEW m PROVE ~InUse(m)'
  <2>1. SUFFICES ASSUME InUse(m)' PROVE FALSE
    OBVIOUS
  <2>2. OnCard(m)
    BY <2>1 DEF InUse
  <2>3. PICK h \in {table[s] : s \in Slots} \cup {dribble} :
          h # Free /\ ~(OnCard(h.name) /\ h.gen # gen') /\ Key(h.name) = Key(m)
    BY <1>1, <2>1 DEF InUse, Stale
  <2>4. Sound(h, disk, gen)
    BY <2>3 DEF FileInv, StreamsSound, SlotsUsed
  <2>5. OnCard(h.name)
    BY <2>2, <2>3, KeyVol
  <2>6. QED BY <1>4, <2>3, <2>4, <2>5
<1>9. JobSound'
  <2>1. CASE job = None
    BY <1>1, <2>1 DEF JobSound
  <2>2. CASE IsSave(job) /\ job.left \in Seq(Chunks) /\ job.old \in Selectable /\ writer # Console
    BY <1>1, <1>5, <2>2 DEF JobSound
  <2>3. CASE /\ IsTransfer(job) /\ (job.at = "drop" => job.op = "move")
             /\ job.at \in {"copy", "close"} => Sound(job.in, disk, gen) /\ Sound(job.out, disk, gen)
    <3>1. PICK n, m : n = job.src /\ m = job.dst
      OBVIOUS
    <3>2. ~InUse(m)' /\ ~InUse(n)'
      BY <1>8
    <3>3. job.at \in {"copy", "close"} => Sound(job.in, disk', gen') /\ Sound(job.out, disk', gen')
      BY <1>4, <2>3
    <3>4. QED BY <1>1, <2>3, <3>1, <3>2, <3>3 DEF JobSound, InUse, Stale
  <2>4. QED BY <2>1, <2>2, <2>3 DEF FileInv, JobSound
<1>10. QED BY <1>3, <1>6, <1>7, <1>9 DEF FileInv

LEMMA InsertKeeps ==
  ASSUME FileInv, Insert
  PROVE  FileInv'
<1>1. /\ card' = TRUE /\ job = None
      /\ UNCHANGED <<disk, gen, table, count, reader, writer, dribble, loading, job, ops>>
  BY DEF Insert, streams
<1>2. World' /\ JobSound'
  BY <1>1 DEF FileInv, World, JobSound
<1>3. reader' \in Selectable /\ writer' \in Selectable
  BY <1>1 DEF FileInv, Pointers
<1>4. QED BY <1>1, <1>2, <1>3, Steady DEF FileInv

-----------------------------------------------------------------------------
(* The table is exact in every reachable state.                            *)

LEMMA InitFileInv == Init => FileInv
<1> SUFFICES ASSUME Init PROVE FileInv
  OBVIOUS
<1>1. World
  BY Numbers DEF Init, World
<1>2. \A s \in Slots : table[s] = Free
  BY DEF Init
<1>3. SlotsUsed = {}
  BY <1>2 DEF SlotsUsed
<1>4. StreamsSound
  BY <1>3, FilesAssumption DEF Init, StreamsSound, Stored
<1>5. CountExact /\ OncePerName /\ Pointers
  BY <1>3, FS_EmptySet DEF Init, CountExact, OncePerName, Pointers, Selectable
<1>6. JobSound
  BY DEF Init, JobSound
<1>7. QED BY <1>1, <1>4, <1>5, <1>6 DEF FileInv

LEMMA StepFileInv == FileInv /\ [Next]_vars => FileInv'
<1> SUFFICES ASSUME FileInv, [Next]_vars PROVE FileInv'
  OBVIOUS
<1>1. CASE Streams
  BY <1>1, OpenKeeps, CloseKeeps, CloseAllKeeps, SelectKeeps, ReadKeeps, PrintKeeps, PosKeeps,
     NoDribbleKeeps, DribbleKeeps DEF Streams
<1>2. CASE Names
  <2>1. ASSUME NEW w, NEW v, CopyFile(w, v) PROVE FileInv'
    BY <2>1, StartKeeps DEF CopyFile
  <2>2. ASSUME NEW w, NEW v, Move(w, v) PROVE FileInv'
    BY <2>2, StartKeeps DEF Move
  <2>3. QED BY <1>2, <2>1, <2>2, SetPrefixKeeps, EraseKeeps, RenameKeeps DEF Names
<1>3. CASE Jobs
  BY <1>3, TransferOpenKeeps, TransferChunkKeeps, TransferCloseKeeps, TransferEndKeeps, SaveChunkKeeps,
     SaveEndKeeps, SaveKeeps, LoadLineKeeps, LoadEndKeeps, LoadKeeps DEF Jobs
<1>4. CASE Eject
  BY <1>4, EjectKeeps
<1>5. CASE Insert
  BY <1>5, InsertKeeps
<1>6. CASE UNCHANGED vars
  <2>1. UNCHANGED <<disk, card, gen, table, count, reader, writer, dribble, loading, job, ops>>
    BY <1>6 DEF vars, volumes, streams
  <2>2. QED BY <2>1 DEF FileInv, World, StreamsSound, SlotsUsed, CountExact, OncePerName, Pointers, Selectable,
                        JobSound, InUse, Stale
<1>7. QED BY <1>1, <1>2, <1>3, <1>4, <1>5, <1>6 DEF Next

\* open_count counts the streams of the table, no file is in it twice under one
\* name, no cursor is past the end of its file, and nothing the reader, the
\* writer or a save in progress points to is closed, whatever is opened, closed,
\* erased, moved and written, and whenever the card is pulled.
THEOREM TableAlwaysExact == Spec => []TableExact
<1>1. Spec => []FileInv
  BY InitFileInv, StepFileInv, PTL DEF Spec
<1>2. QED BY <1>1, FileInvExact, PTL

-----------------------------------------------------------------------------
(* No copy or move loses a file.                                           *)

\* The program does not copy a file onto itself under a second spelling:
\* copyfile compares the names as they are written.
Apart == job.op = "copy" => Key(job.src) # Key(job.dst)

\* A transfer in progress: the source is as it was, and the destination is
\* the part of it that has been read, on the disk too if nothing of it is unwritten.
Copying ==
  /\ job.in.name = job.src /\ job.out.name = job.dst
  /\ View(disk, job.in) = job.was /\ Key(job.dst) \in DOMAIN disk
  /\ ~job.out.err /\ ~job.out.lost /\ job.out.wpos = job.in.rpos /\ job.in.rpos <= Len(job.was)
  /\ View(disk, job.out) = SubSeq(job.was, 1, job.in.rpos)
  /\ ~job.out.dirty => disk[Key(job.dst)] = View(disk, job.out)

Copied ==
  /\ job.op = "move" => OnCard(job.src) # OnCard(job.dst)
  /\ Holds(job.src, job.was) /\ job.was \in Seq(Chunks)
  /\ job.at = "open" /\ Reachable(job.dst) => Key(job.dst) \notin DOMAIN disk
  /\ job.at = "copy" => Copying
  /\ job.at = "close" => Holds(job.dst, job.was) /\ job.out.name = job.dst /\ View(disk, job.out) = job.was
  /\ job.at = "drop" => Holds(job.dst, job.was)

Told ==
  /\ said.op = "move" => Holds(IF said.ok THEN said.dst ELSE said.src, said.was)
  /\ said.op = "copy" => Holds(said.src, said.was) /\ (said.ok => Holds(said.dst, said.was))

KeptInv == (job.op \in {"copy", "move"} => Copied) /\ Told

LEMMA KeptIsKept == KeptInv => FilesKept
  BY DEF KeptInv, Copied, Told, FilesKept, MoveKeeps, CopyKeeps

\* Where nothing is copied and nothing was said there is nothing to keep.
LEMMA Idle ==
  ASSUME ~(job'.op \in {"copy", "move"}), ~(said'.op \in {"copy", "move"})
  PROVE  KeptInv'
  BY DEF KeptInv, Told

LEMMA QuietIdle ==
  ASSUME job' = None, said' = None
  PROVE  KeptInv'
  BY Idle DEF None

\* What is reported at the end of a transfer is true.
On(d, n, data) == Key(n) \in DOMAIN d /\ d[Key(n)] = data

LEMMA ReportIs ==
  ASSUME NEW ok, Report(ok),
         job.op = "copy" => On(disk', job.src, job.was) /\ (ok => On(disk', job.dst, job.was)),
         job.op = "move" => IF ok THEN On(disk', job.dst, job.was) ELSE On(disk', job.src, job.was)
  PROVE  KeptInv'
<1>1. job' = None /\ said' = [op |-> job.op, src |-> job.src, dst |-> job.dst, was |-> job.was, ok |-> ok]
  BY DEF Report
<1>2. /\ said'.op = job.op /\ said'.src = job.src /\ said'.dst = job.dst /\ said'.was = job.was /\ said'.ok = ok
  BY <1>1
<1>3. said'.op = "move" =>
        /\ Key(IF said'.ok THEN said'.dst ELSE said'.src) \in DOMAIN disk'
        /\ disk'[Key(IF said'.ok THEN said'.dst ELSE said'.src)] = said'.was
  <2>1. CASE ok
    BY <1>2, <2>1 DEF On
  <2>2. CASE ~ok
    BY <1>2, <2>2 DEF On
  <2>3. QED BY <2>1, <2>2
<1>4. said'.op = "copy" =>
        /\ Key(said'.src) \in DOMAIN disk' /\ disk'[Key(said'.src)] = said'.was
        /\ said'.ok => Key(said'.dst) \in DOMAIN disk' /\ disk'[Key(said'.dst)] = said'.was
  BY <1>2 DEF On
<1>5. Told'
  BY <1>3, <1>4 DEF Told, Holds
<1>6. QED BY <1>1, <1>5 DEF KeptInv, None

\* The state of a transfer between two of its steps.
LEMMA RunIs ==
  ASSUME KeptInv, Apart, NEW at, Running(at)
  PROVE  /\ job.op \in {"copy", "move"} /\ Key(job.src) # Key(job.dst)
         /\ On(disk, job.src, job.was) /\ job.was \in Seq(Chunks)
         /\ at = "open" /\ Reachable(job.dst) => Key(job.dst) \notin DOMAIN disk
         /\ at = "copy" => Copying
         /\ at = "close" => On(disk, job.dst, job.was) /\ job.out.name = job.dst /\ View(disk, job.out) = job.was
         /\ at = "drop" => On(disk, job.dst, job.was)
         /\ job.op = "move" => OnCard(job.src) # OnCard(job.dst)
<1>1. job.op \in {"copy", "move"} /\ job.at = at
  BY DEF Running
<1>2. Copied
  BY <1>1 DEF KeptInv
<1>3. Key(job.src) # Key(job.dst)
  <2>1. CASE job.op = "copy"
    BY <2>1 DEF Apart
  <2>2. CASE job.op = "move"
    BY <1>2, <2>2, KeyVol DEF Copied, OnCard
  <2>3. QED BY <1>1, <2>1, <2>2
<1>4. QED BY <1>1, <1>2, <1>3 DEF Copied, Holds, On

\* A transfer goes on: what it has to keep.
LEMMA OnwardKept ==
  ASSUME said' = None, NEW d, d = disk',
         /\ job'.op = "move" => OnCard(job'.src) # OnCard(job'.dst)
         /\ On(d, job'.src, job'.was) /\ job'.was \in Seq(Chunks)
         /\ job'.at = "open" /\ Reachable(job'.dst) => Key(job'.dst) \notin DOMAIN d
         /\ job'.at = "copy" =>
              /\ job'.in.name = job'.src /\ job'.out.name = job'.dst
              /\ View(d, job'.in) = job'.was /\ Key(job'.dst) \in DOMAIN d
              /\ ~job'.out.err /\ ~job'.out.lost /\ job'.out.wpos = job'.in.rpos /\ job'.in.rpos <= Len(job'.was)
              /\ View(d, job'.out) = SubSeq(job'.was, 1, job'.in.rpos)
              /\ ~job'.out.dirty => d[Key(job'.dst)] = View(d, job'.out)
         /\ job'.at = "close" => On(d, job'.dst, job'.was) /\ job'.out.name = job'.dst /\ View(d, job'.out) = job'.was
         /\ job'.at = "drop" => On(d, job'.dst, job'.was),
         card' => card
  PROVE  KeptInv'
<1>1. Told'
  BY DEF Told, None
<1>2. Copied'
  BY DEF Copied, Copying, Holds, On, View, Reachable
<1>3. QED BY <1>1, <1>2 DEF KeptInv

LEMMA TransferOpenKept ==
  ASSUME FileInv, KeptInv, Apart, TransferOpen
  PROVE  KeptInv'
<1>1. Running("open")
  BY DEF TransferOpen
<1>2. /\ IsTransfer(job) /\ UNCHANGED card /\ Stored(disk) /\ gen \in Nat
  BY <1>1, RunningIs DEF Running
<1>3. /\ job.op \in {"copy", "move"} /\ Key(job.src) # Key(job.dst)
      /\ On(disk, job.src, job.was) /\ job.was \in Seq(Chunks)
      /\ Reachable(job.dst) => Key(job.dst) \notin DOMAIN disk
      /\ job.op = "move" => OnCard(job.src) # OnCard(job.dst)
  BY <1>1, RunIs
<1>4. Created(disk, job.src) = disk
  BY <1>3 DEF Created, On
<1>5. CASE disk' = disk /\ Report(FALSE)
  BY <1>3, <1>5, ReportIs
<1>6. ASSUME CanOpen(job.dst), disk' = Created(disk, job.dst), said' = None,
             job' = [job EXCEPT !.at = "copy", !.in = Fresh(disk, job.src), !.out = Fresh(disk, job.dst)]
      PROVE  KeptInv'
  <2> DEFINE i == Fresh(disk, job.src)
             o == Fresh(disk, job.dst)
  <2>1. /\ IsTransfer(job') /\ job'.op = job.op /\ job'.src = job.src /\ job'.dst = job.dst
        /\ job'.was = job.was /\ job'.at = "copy" /\ job'.in = i /\ job'.out = o
    BY <1>2, <1>6, OnwardIs, Zenon
  <2>2. disk' = Created(disk, job.dst) /\ said' = None /\ CanOpen(job.dst)
    BY <1>6, Zenon
  <2>3. Key(job.dst) \notin DOMAIN disk
    BY <1>3, <2>2 DEF CanOpen
  <2>4. /\ DOMAIN disk' = DOMAIN disk \cup {Key(job.dst)} /\ disk'[Key(job.dst)] = <<>>
        /\ \A k \in DOMAIN disk : disk'[k] = disk[k]
    BY <1>2, <2>2, <2>3, CreatedIs
  <2>5. On(disk', job.src, job.was)
    BY <1>3, <2>4 DEF On
  <2>6. i.name = job.src /\ i.rpos = 0 /\ View(disk, i) = job.was
    BY <1>2, <1>3, <1>4, FreshSound DEF On
  <2>7. View(disk', i) = job.was
    BY <2>5, <2>6 DEF View, On
  <2>8. o.name = job.dst /\ ~o.err /\ ~o.lost /\ o.wpos = Len(disk'[Key(job.dst)]) /\ View(disk', o) = disk'[Key(job.dst)]
    BY <1>2, <2>2, FreshSound
  <2>9. o.wpos = 0 /\ View(disk', o) = <<>> /\ disk'[Key(job.dst)] = View(disk', o)
    BY <2>4, <2>8
  <2>10. SubSeq(job.was, 1, 0) = <<>> /\ 0 <= Len(job.was)
    BY <1>3, SubSeqEmpty
  <2> HIDE DEF i, o
  <2>11. QED BY <1>2, <1>3, <2>1, <2>2, <2>4, <2>5, <2>6, <2>7, <2>8, <2>9, <2>10, OnwardKept
<1>7. \/ disk' = disk /\ Report(FALSE)
      \/ \E d \in {Created(disk, job.src)} :
             \/ disk' = d /\ Report(FALSE)
             \/ /\ CanOpen(job.dst) /\ disk' = Created(d, job.dst) /\ said' = None
                /\ job' = [job EXCEPT !.at = "copy", !.in = Fresh(d, job.src), !.out = Fresh(d, job.dst)]
  BY Zenon DEF TransferOpen
<1>8. \/ disk' = disk /\ Report(FALSE)
      \/ /\ CanOpen(job.dst) /\ disk' = Created(disk, job.dst) /\ said' = None
         /\ job' = [job EXCEPT !.at = "copy", !.in = Fresh(disk, job.src), !.out = Fresh(disk, job.dst)]
  BY <1>4, <1>7, Zenon
<1>9. QED BY <1>5, <1>6, <1>8, Zenon

\* The part of a file that has been copied, with one more chunk.
LEMMA OneMore ==
  ASSUME NEW s \in Seq(Chunks), NEW i \in Nat, i < Len(s)
  PROVE  /\ SubSeq(s, 1, i) \in Seq(Chunks) /\ Len(SubSeq(s, 1, i)) = i
         /\ Append(SubSeq(s, 1, i), s[i + 1]) = SubSeq(s, 1, i + 1) /\ s[i + 1] \in Chunks
<1>1. Len(s) \in Nat /\ i + 1 \in 1 .. Len(s)
  OBVIOUS
<1>2. \A k \in 1 .. i : s[k] \in Chunks
  BY <1>1
<1>3. SubSeq(s, 1, i) \in Seq(Chunks) /\ Len(SubSeq(s, 1, i)) = IF 1 <= i THEN i - 1 + 1 ELSE 0
  BY <1>2, SubSeqProperties
<1>4. SubSeq(s, 1, i + 1) = SubSeq(s, 1, i + 1 - 1) \o <<s[i + 1]>>
  <2>1. 1 \in 1 .. Len(s) /\ i + 1 \in 1 .. Len(s)
    BY <1>1
  <2>2. QED BY <2>1, SubSeqRecursiveSecond
<1>5. i + 1 - 1 = i /\ s[i + 1] \in Chunks
  BY <1>1
<1>6. SubSeq(s, 1, i) \o <<s[i + 1]>> = Append(SubSeq(s, 1, i), s[i + 1])
  BY <1>3, <1>5, AppendIsConcat
<1>7. QED BY <1>3, <1>4, <1>5, <1>6

\* One more chunk is written: the destination holds one more of the source.
LEMMA ChunkKept ==
  ASSUME FileInv, KeptInv, Apart, Running("copy"), NEW ok, NEW w,
         ~Stale(job.in), ~AtEnd(disk, job.in),
         w = WriteBytes(disk, job.out, View(disk, job.in)[job.in.rpos + 1], ok)
  PROVE  /\ On(w.d, job.src, job.was) /\ View(w.d, job.in) = job.was
         /\ Key(job.dst) \in DOMAIN w.d /\ w.h.name = job.dst /\ ~w.h.lost
         /\ w.h.err \/ /\ w.h.wpos = job.in.rpos + 1 /\ job.in.rpos + 1 <= Len(job.was)
                       /\ View(w.d, w.h) = SubSeq(job.was, 1, job.in.rpos + 1)
                       /\ ~w.h.dirty => w.d[Key(job.dst)] = View(w.d, w.h)
<1> DEFINE r == job.in.rpos
           c == job.was[r + 1]
<1>1. /\ Stored(disk) /\ Sound(job.in, disk, gen) /\ Sound(job.out, disk, gen)
  BY RunningIs
<1>2. /\ Key(job.src) # Key(job.dst) /\ On(disk, job.src, job.was) /\ job.was \in Seq(Chunks) /\ Copying
  BY RunIs
<1>3. r \in Nat /\ r < Len(job.was)
  BY <1>1, <1>2 DEF Copying, AtEnd, Sound
<1>4. c \in Chunks /\ w = WriteBytes(disk, job.out, c, ok)
  BY <1>2, <1>3, OneMore DEF Copying
<1>5. Wrote(disk, job.out, c, w)
  BY <1>1, <1>4, WriteIs
<1>6. /\ w.h.name = job.dst /\ ~w.h.lost /\ DOMAIN w.d = DOMAIN disk
      /\ \A k \in DOMAIN disk : k # Key(job.dst) => w.d[k] = disk[k]
  BY <1>2, <1>5 DEF Wrote, Copying
<1>7. On(w.d, job.src, job.was) /\ Key(job.dst) \in DOMAIN w.d
  BY <1>2, <1>6 DEF On, Copying
<1>8. View(w.d, job.in) = job.was
  BY <1>2, <1>7 DEF View, On, Copying
<1>9. ASSUME ~w.h.err
      PROVE  /\ w.h.wpos = r + 1 /\ r + 1 <= Len(job.was) /\ View(w.d, w.h) = SubSeq(job.was, 1, r + 1)
             /\ ~w.h.dirty => w.d[Key(job.dst)] = View(w.d, w.h)
  <2>1. w.h.wpos = r + 1 /\ View(w.d, w.h) = Overlay(SubSeq(job.was, 1, r), r, c)
    BY <1>2, <1>5, <1>9 DEF Wrote, Copying
  <2>2. SubSeq(job.was, 1, r) \in Seq(Chunks) /\ Len(SubSeq(job.was, 1, r)) = r
        /\ Append(SubSeq(job.was, 1, r), c) = SubSeq(job.was, 1, r + 1)
    BY <1>2, <1>3, OneMore
  <2>3. Overlay(SubSeq(job.was, 1, r), r, c) = Append(SubSeq(job.was, 1, r), c)
    <3>1. PICK p : p = SubSeq(job.was, 1, r)
      OBVIOUS
    <3>2. p \in Seq(Chunks) /\ r \in 0 .. Len(p) /\ r = Len(p)
      BY <1>3, <2>2, <3>1
    <3>3. QED BY <1>4, <3>1, <3>2, OverlayIs
  <2>4. r + 1 <= Len(job.was)
    BY <1>2, <1>3
  <2>5. ~w.h.dirty => w.d[Key(job.dst)] = View(w.d, w.h)
    <3>1. OnCard(job.dst) \/ w.h.dirty
      BY <1>2, <1>5, <1>9 DEF Wrote, Copying
    <3>2. QED BY <1>6, <3>1 DEF View
  <2>6. QED BY <2>1, <2>2, <2>3, <2>4, <2>5
<1>10. QED BY <1>6, <1>7, <1>8, <1>9

LEMMA TransferChunkKept ==
  ASSUME FileInv, KeptInv, Apart, TransferChunk, ~LateErrors
  PROVE  KeptInv'
<1>1. Running("copy") /\ said' = None /\ card' = card
  BY DEF TransferChunk, Running
<1>2. /\ IsTransfer(job) /\ Stored(disk) /\ Sound(job.in, disk, gen) /\ Sound(job.out, disk, gen)
  BY <1>1, RunningIs
<1>3. /\ job.op \in {"copy", "move"} /\ Key(job.src) # Key(job.dst)
      /\ On(disk, job.src, job.was) /\ job.was \in Seq(Chunks) /\ Copying
      /\ job.op = "move" => OnCard(job.src) # OnCard(job.dst)
  BY <1>1, RunIs
<1>4. CASE Onward("undo") /\ disk' = disk
  <2>1. /\ job'.op = job.op /\ job'.src = job.src /\ job'.dst = job.dst /\ job'.was = job.was /\ job'.at = "undo"
    BY <1>2, <1>4, OnwardIs, Zenon
  <2>2. QED BY <1>1, <1>3, <1>4, <2>1, OnwardKept
<1>5. ASSUME AtEnd(disk, job.in), NEW late \in Late, NEW f, f = Flush(disk, job.out, late), disk' = f.d,
             job' = [job EXCEPT !.out = f.h, !.at = "close"]
      PROVE  KeptInv'
  <2>1. /\ job'.op = job.op /\ job'.src = job.src /\ job'.dst = job.dst /\ job'.was = job.was
        /\ job'.at = "close" /\ job'.out = f.h
    BY <1>2, <1>5 DEF IsTransfer, JobFields
  <2>2. AtEnd(disk, job.in) /\ f = Flush(disk, job.out, TRUE) /\ disk' = f.d
    BY <1>5, Zenon DEF Late
  <2>3. job.in.rpos = Len(job.was)
    BY <1>2, <1>3, <2>2 DEF AtEnd, Copying, Sound
  <2>4. View(disk, job.out) = job.was
    BY <1>3, <2>3, SubSeqFull DEF Copying
  <2>5. /\ SameStream(job.out, f.h)
        /\ DOMAIN f.d = DOMAIN disk /\ \A k \in DOMAIN disk : k # Key(job.dst) => f.d[k] = disk[k]
        /\ OnCard(job.dst) => f.d = disk
        /\ ~OnCard(job.dst) => f.d[Key(job.dst)] = job.out.buf
    <3>1. Flushed(disk, job.out, TRUE, f)
      BY <1>2, <2>2, FlushIs
    <3>2. ~OnCard(job.dst) /\ ~job.out.dirty => f.d[Key(job.dst)] = job.out.buf
      BY <1>3, <3>1 DEF Flushed, Copying, View
    <3>3. QED BY <1>3, <3>1, <3>2 DEF Flushed, Copying
  <2>6. On(f.d, job.src, job.was)
    BY <1>3, <2>5 DEF On
  <2>7. On(f.d, job.dst, job.was) /\ f.h.name = job.dst /\ View(f.d, f.h) = job.was
    BY <1>3, <2>4, <2>5 DEF On, View, SameStream, Copying
  <2>8. QED BY <1>1, <1>3, <2>1, <2>2, <2>6, <2>7, OnwardKept
<1>6. ASSUME ~Stale(job.in), ~AtEnd(disk, job.in), NEW ok, NEW w,
             w = WriteBytes(disk, job.out, View(disk, job.in)[job.in.rpos + 1], ok), disk' = w.d,
             job' = [job EXCEPT !.out = w.h, !.in.rpos = @ + 1, !.at = AfterChunk(w.h)]
      PROVE  KeptInv'
  <2> DEFINE pos == job.in.rpos + 1
             j == [job.in EXCEPT !.rpos = pos]
  <2>1. /\ On(w.d, job.src, job.was) /\ View(w.d, job.in) = job.was
        /\ Key(job.dst) \in DOMAIN w.d /\ w.h.name = job.dst /\ ~w.h.lost
        /\ w.h.err \/ /\ w.h.wpos = pos /\ pos <= Len(job.was) /\ View(w.d, w.h) = SubSeq(job.was, 1, pos)
                      /\ ~w.h.dirty => w.d[Key(job.dst)] = View(w.d, w.h)
    BY <1>1, <1>6, ChunkKept, Zenon
  <2>2. job' = [job EXCEPT !.at = AfterChunk(w.h), !.in = j, !.out = w.h]
    BY <1>2, <1>6 DEF IsTransfer, JobFields
  <2>3. IsStream(job.in)
    BY <1>2 DEF Sound
  <2>4. j.name = job.in.name /\ j.buf = job.in.buf /\ j.rpos = pos
    BY <2>3 DEF IsStream, Fields
  <2> HIDE DEF pos, j
  <2>5. /\ job'.op = job.op /\ job'.src = job.src /\ job'.dst = job.dst
        /\ job'.was = job.was /\ job'.at = AfterChunk(w.h) /\ job'.in = j /\ job'.out = w.h
    <3>1. IsTransfer(job)
      BY <1>2
    <3>2. PICK at, o : at = AfterChunk(w.h) /\ o = w.h
      OBVIOUS
    <3>3. job' = [job EXCEPT !.at = at, !.in = j, !.out = o]
      BY <2>2, <3>2
    <3>4. /\ IsTransfer(job') /\ job'.op = job.op /\ job'.src = job.src /\ job'.dst = job.dst
          /\ job'.was = job.was /\ job'.at = at /\ job'.in = j /\ job'.out = o
      BY <3>1, <3>3, PassedOn, Zenon
    <3>5. QED BY <3>2, <3>4, Zenon
  <2>6. disk' = w.d
    BY <1>6, Zenon
  <2>7. View(w.d, j) = job.was /\ j.name = job.src
    BY <1>3, <2>1, <2>4 DEF View, Copying
  <2>8. CASE w.h.err
    BY <1>1, <1>3, <2>1, <2>5, <2>6, <2>8, OnwardKept DEF AfterChunk
  <2>9. CASE ~w.h.err
    BY <1>1, <1>3, <2>1, <2>4, <2>5, <2>6, <2>7, <2>9, OnwardKept DEF AfterChunk
  <2>10. QED BY <2>8, <2>9
<1>7. \/ Onward("undo") /\ disk' = disk
      \/ /\ AtEnd(disk, job.in)
         /\ \E late \in Late : \E f \in {Flush(disk, job.out, late)} :
             disk' = f.d /\ job' = [job EXCEPT !.out = f.h, !.at = "close"]
      \/ /\ ~Stale(job.in) /\ ~AtEnd(disk, job.in)
         /\ \E ok \in Outcomes(job.out) :
            \E w \in {WriteBytes(disk, job.out, View(disk, job.in)[job.in.rpos + 1], ok)} :
             disk' = w.d /\ job' = [job EXCEPT !.out = w.h, !.in.rpos = @ + 1, !.at = AfterChunk(w.h)]
  BY Zenon DEF TransferChunk
<1>8. QED BY <1>4, <1>5, <1>6, <1>7, Zenon

LEMMA TransferCloseKept ==
  ASSUME FileInv, KeptInv, Apart, TransferClose
  PROVE  KeptInv'
<1>1. Running("close") /\ card' = card
  BY DEF TransferClose, Running
<1>2. /\ IsTransfer(job) /\ Stored(disk) /\ Sound(job.out, disk, gen)
  BY <1>1, RunningIs
<1>3. /\ job.op \in {"copy", "move"} /\ Key(job.src) # Key(job.dst)
      /\ On(disk, job.src, job.was) /\ job.was \in Seq(Chunks)
      /\ On(disk, job.dst, job.was) /\ job.out.name = job.dst /\ View(disk, job.out) = job.was
      /\ job.op = "move" => OnCard(job.src) # OnCard(job.dst)
  BY <1>1, RunIs
<1>4. PICK ok \in Late : disk' = CloseStream(disk, job.out, ok)
  BY DEF TransferClose
<1>5. /\ DOMAIN disk' = DOMAIN disk /\ \A k \in DOMAIN disk : k # Key(job.dst) => disk'[k] = disk[k]
      /\ OnCard(job.dst) => disk' = disk
      /\ disk'[Key(job.dst)] \in {disk[Key(job.dst)], job.out.buf}
  BY <1>2, <1>3, <1>4, CloseIs DEF On
<1>6. On(disk', job.src, job.was) /\ On(disk', job.dst, job.was)
  BY <1>3, <1>5 DEF On, View
<1>7. CASE Report(TRUE)
  BY <1>6, <1>7, ReportIs
<1>8. CASE Onward("drop") /\ said' = None
  <2>1. /\ job'.op = job.op /\ job'.src = job.src /\ job'.dst = job.dst /\ job'.was = job.was /\ job'.at = "drop"
    BY <1>2, <1>8, OnwardIs, Zenon
  <2>2. QED BY <1>1, <1>3, <1>6, <1>8, <2>1, OnwardKept
<1>9. QED BY <1>7, <1>8 DEF TransferClose

\* What clearing one destination leaves of the other files.
LEMMA ClearKeeps ==
  ASSUME NEW m, ClearDestination(m)
  PROVE  /\ \A k \in DOMAIN disk : k # Key(m) => k \in DOMAIN disk' /\ disk'[k] = disk[k]
         /\ ~FileExists(m) => disk' = disk
         /\ FileExists(m) => Key(m) \notin DOMAIN disk'
         /\ Stored(disk) => Stored(disk')
<1>1. CASE FileExists(m)
  <2>1. disk' = Without(disk, Key(m))
    BY <1>1 DEF ClearDestination
  <2>2. QED BY <1>1, <2>1, WithoutIs
<1>2. CASE ~FileExists(m)
  BY <1>2 DEF ClearDestination
<1>3. QED BY <1>1, <1>2

LEMMA TransferEndKept ==
  ASSUME FileInv, KeptInv, Apart, TransferUndo \/ MoveDrop
  PROVE  KeptInv'
<1>1. CASE TransferUndo
  <2>1. Running("undo") /\ Report(FALSE) /\ ClearDestination(job.dst)
    BY <1>1 DEF TransferUndo
  <2>2. Key(job.src) # Key(job.dst) /\ On(disk, job.src, job.was)
    BY <2>1, RunIs
  <2>3. On(disk', job.src, job.was)
    BY <2>1, <2>2, ClearKeeps DEF On
  <2>4. QED BY <2>1, <2>3, ReportIs
<1>2. CASE MoveDrop
  <2>1. Running("drop") /\ Report(FileExists(job.src)) /\ ClearDestination(job.src)
    BY <1>2 DEF MoveDrop
  <2>2. Key(job.src) # Key(job.dst) /\ On(disk, job.src, job.was) /\ On(disk, job.dst, job.was)
    BY <2>1, RunIs
  <2>3. On(disk', job.dst, job.was)
    BY <2>1, <2>2, ClearKeeps DEF On
  <2>4. ~FileExists(job.src) => On(disk', job.src, job.was)
    BY <2>1, <2>2, ClearKeeps
  <2>5. job.op = "move"
    BY <2>1, RunningIs
  <2>6. QED BY <2>1, <2>3, <2>4, <2>5, ReportIs
<1>3. QED BY <1>1, <1>2

LEMMA StartKept ==
  ASSUME FileInv, NEW op \in {"copy", "move"}, NEW n, NEW m, Transfer(op, n, m), Apart',
         op = "move" => OnCard(n) # OnCard(m)
  PROVE  KeptInv'
<1>1. /\ said' = None /\ card' = card /\ FileExists(n) /\ ClearDestination(m)
      /\ job' = [op |-> op, src |-> n, dst |-> m, was |-> disk[Key(n)], at |-> "open", in |-> Free, out |-> Free]
  BY DEF Transfer, Ready, Quiet
<1>2. job'.op = op /\ job'.src = n /\ job'.dst = m /\ job'.was = disk[Key(n)] /\ job'.at = "open"
  BY <1>1
<1>3. Key(n) # Key(m)
  <2>1. CASE op = "copy"
    BY <1>2, <2>1 DEF Apart
  <2>2. CASE op = "move"
    BY <2>2, KeyVol DEF OnCard
  <2>3. QED BY <2>1, <2>2
<1>4. Key(n) \in DOMAIN disk /\ disk[Key(n)] \in Seq(Chunks)
  BY <1>1 DEF FileExists, FileInv, StreamsSound, Stored
<1>5. On(disk', n, disk[Key(n)])
  BY <1>1, <1>3, <1>4, ClearKeeps DEF On
<1>6. Reachable(m) => Key(m) \notin DOMAIN disk'
  BY <1>1, ClearKeeps DEF FileExists
<1>7. Reachable(m)' = Reachable(m)
  BY <1>1 DEF Reachable
<1>8. Told'
  BY <1>1 DEF Told, None
<1>9. Copied'
  BY <1>1, <1>2, <1>4, <1>5, <1>6, <1>7 DEF Copied, On, Holds, Reachable
<1>10. QED BY <1>8, <1>9 DEF KeptInv

\* The card is pulled while a transfer runs, or nothing runs.
LEMMA EjectKept ==
  ASSUME KeptInv, Eject
  PROVE  KeptInv'
<1>1. said' = None /\ card' = FALSE /\ disk' = disk /\ job' = job
  BY DEF Eject, Quiet
<1>2. Told'
  BY <1>1 DEF Told, None
<1>3. job.op \in {"copy", "move"} => Copied'
  BY <1>1 DEF KeptInv, Copied, Copying, Holds, View, Reachable
<1>4. QED BY <1>1, <1>2, <1>3 DEF KeptInv

LEMMA StepKept ==
  ASSUME FileInv, KeptInv, Apart, Apart', [Next]_vars, ~LateErrors
  PROVE  KeptInv'
<1>1. ASSUME Command, Quiet PROVE KeptInv'
  <2>1. job' = None /\ said' = None
    BY <1>1 DEF Command, Ready, Quiet
  <2>2. QED BY <2>1, QuietIdle
<1>2. ASSUME NEW c, PrimPrint(c) PROVE KeptInv'
  <2>1. job' = None /\ said'.op = "print"
    BY <1>2 DEF PrimPrint, Command, Ready
  <2>2. QED BY <2>1, Idle DEF None
<1>3. CASE Streams
  <2>1. ASSUME NEW w, Open(w) \/ Close(w) \/ Dribble(w) PROVE KeptInv'
    BY <1>1, <2>1 DEF Open, Close, Dribble
  <2>2. CASE CloseAll \/ SetRead \/ SetWrite \/ NoDribble
    BY <1>1, <2>2 DEF CloseAll, SetRead, SetWrite, NoDribble
  <2>3. ASSUME NEW pos, SetReadPos(pos) \/ SetWritePos(pos) \/ Read PROVE KeptInv'
    BY <1>1, <2>3, Zenon DEF SetReadPos, SetWritePos, Read
  <2>4. QED BY <1>2, <1>3, <2>1, <2>2, <2>3 DEF Streams
<1>4. CASE Names
  <2>1. ASSUME NEW w, SetPrefix(w) \/ EraseFile(w) PROVE KeptInv'
    BY <1>1, <2>1 DEF SetPrefix, EraseFile
  <2>2. ASSUME NEW w, NEW v, Rename(w, v) PROVE KeptInv'
    BY <1>1, <2>2 DEF Rename
  <2>3. ASSUME NEW w, NEW v, CopyFile(w, v) PROVE KeptInv'
    BY <2>3, StartKept DEF CopyFile
  <2>4. ASSUME NEW w, NEW v, Move(w, v) PROVE KeptInv'
    BY <2>4, StartKept DEF Move
  <2>5. QED BY <1>4, <2>1, <2>2, <2>3, <2>4 DEF Names
<1>5. CASE Jobs
  <2>1. CASE SaveChunk
    <3>1. job' = [job EXCEPT !.left = Tail(@)] /\ job.op = "save" /\ said' = None
      BY <2>1, Zenon DEF SaveChunk, Quiet
    <3>2. IsSave(job) /\ said' = None
      BY <3>1, SavingIs, Zenon
    <3>3. job'.op = "save"
      BY <3>1, <3>2 DEF IsSave, SaveFields
    <3>4. QED BY <3>2, <3>3, Idle DEF None
  <2>2. CASE SaveEnd
    BY <2>2, QuietIdle DEF SaveEnd, Quiet
  <2>3. ASSUME NEW w, Save(w) PROVE KeptInv'
    <3>1. job'.op = "save" /\ said' = None
      BY <2>3 DEF Save, Quiet
    <3>2. QED BY <3>1, Idle DEF None
  <2>4. ASSUME NEW w, Load(w) PROVE KeptInv'
    BY <2>4, QuietIdle DEF Load, Quiet
  <2>5. CASE LoadLine \/ LoadEnd
    <3>1. job' = None /\ said' = None
      BY <2>5, Zenon DEF LoadLine, LoadEnd, Quiet
    <3>2. QED BY <3>1, QuietIdle
  <2>6. QED BY <1>5, <2>1, <2>2, <2>3, <2>4, <2>5, TransferOpenKept, TransferChunkKept, TransferCloseKept,
               TransferEndKept DEF Jobs
<1>6. CASE Eject
  BY <1>6, EjectKept
<1>7. CASE Insert
  BY <1>7, QuietIdle DEF Insert, Quiet
<1>8. CASE UNCHANGED vars
  <2>1. disk' = disk /\ card' = card /\ job' = job /\ said' = said
    BY <1>8 DEF vars, volumes
  <2>2. QED BY <2>1 DEF KeptInv, Told, Copied, Copying, Holds, View, Reachable
<1>9. QED BY <1>3, <1>4, <1>5, <1>6, <1>7, <1>8 DEF Next

\* Neither copyfile nor a move between the volumes loses a file, wherever the
\* volume fills up and whenever the card is pulled: provided the root does not
\* find only at a flush that it is full, which logo_stream_copy does not ask
\* about, and a file is not copied onto itself under another spelling.
THEOREM TransfersKeepFiles == ~LateErrors => (Spec /\ []Apart => []FilesKept)
<1> SUFFICES ASSUME ~LateErrors PROVE Spec /\ []Apart => []FilesKept
  OBVIOUS
<1>1. Init => KeptInv
  BY DEF Init, KeptInv, Told, None
<1>2. FileInv /\ KeptInv /\ Apart /\ Apart' /\ [Next]_vars => KeptInv'
  BY StepKept
<1>3. Spec /\ []Apart => []KeptInv
  BY InitFileInv, StepFileInv, <1>1, <1>2, PTL DEF Spec
<1>4. QED BY <1>3, KeptIsKept, PTL

-----------------------------------------------------------------------------
(* What a print reports.                                                   *)

\* The file of a root stream that was not orphaned is there.
There(h, d) == ~OnCard(h.name) /\ ~h.lost => Key(h.name) \in DOMAIN d

Rooted ==
  /\ \A s \in SlotsUsed : There(table[s], disk)
  /\ dribble # Free => There(dribble, disk)

\* No file goes, and every stream that is not as before has its file.
LEMMA RootedStay ==
  ASSUME Rooted, DOMAIN disk \subseteq DOMAIN disk',
         \A s \in Slots : table'[s] \in {table[s], Free} \/ There(table'[s], disk'),
         dribble' \in {dribble, Free} \/ There(dribble', disk')
  PROVE  Rooted'
<1>1. ASSUME NEW s \in Slots, table'[s] # Free PROVE There(table'[s], disk')
  <2>1. table[s] # Free => There(table[s], disk)
    BY DEF Rooted, SlotsUsed
  <2>2. QED BY <1>1, <2>1 DEF There
<1>2. ASSUME dribble' # Free PROVE There(dribble', disk')
  <2>1. dribble # Free => There(dribble, disk)
    BY DEF Rooted
  <2>2. QED BY <1>2, <2>1 DEF There
<1>3. QED BY <1>1, <1>2 DEF Rooted, SlotsUsed

LEMMA SameRooted ==
  ASSUME Rooted, UNCHANGED <<table, dribble>>, DOMAIN disk \subseteq DOMAIN disk'
  PROVE  Rooted'
  BY RootedStay

LEMMA FreshThere ==
  ASSUME NEW d, NEW n, Stored(d), gen \in Nat
  PROVE  There(Fresh(d, n), Created(d, n)) /\ DOMAIN d \subseteq DOMAIN Created(d, n)
<1>1. Fresh(d, n).name = n
  BY FreshSound
<1>2. DOMAIN Created(d, n) = DOMAIN d \cup {Key(n)}
  BY CreatedIs
<1>3. QED BY <1>1, <1>2 DEF There

LEMMA EnterRooted ==
  ASSUME FileInv, Rooted, NEW n, NEW s, Enter(n, s), UNCHANGED dribble
  PROVE  Rooted'
<1>1. CASE UNCHANGED <<disk, table, count>>
  BY <1>1, SameRooted
<1>2. CASE /\ disk' = Created(disk, n)
           /\ table' = [table EXCEPT ![s] = Fresh(disk, n)]
  <2>1. Stored(disk) /\ gen \in Nat /\ table = [t \in Slots |-> table[t]]
    BY Numbers DEF FileInv, StreamsSound
  <2>2. There(Fresh(disk, n), disk') /\ DOMAIN disk \subseteq DOMAIN disk'
    BY <1>2, <2>1, FreshThere
  <2>3. \A t \in Slots : table'[t] \in {table[t], Fresh(disk, n)}
    BY <1>2, <2>1
  <2>4. QED BY <2>2, <2>3, RootedStay
<1>3. QED BY <1>1, <1>2 DEF Enter

\* What the slots of one name are: its stream's.
LEMMA LeaveRooted ==
  ASSUME FileInv, Rooted, NEW n, NEW w, Leave(n, w), UNCHANGED dribble
  PROVE  Rooted'
<1>1. CASE UNCHANGED <<disk, table, count, reader>>
  BY <1>1, SameRooted
<1>2. CASE \E s \in {SlotOf(n)}, ok \in Late :
             /\ disk' = CloseStream(disk, table[s], ok)
             /\ table' = [table EXCEPT ![s] = Free]
  <2>1. PICK s, ok : disk' = CloseStream(disk, table[s], ok) /\ table' = [table EXCEPT ![s] = Free]
    BY <1>2
  <2>2. table = [t \in Slots |-> table[t]]
    BY DEF FileInv, StreamsSound
  <2>3. \A t \in Slots : table'[t] \in {table[t], Free}
    BY <2>1, <2>2
  <2>4. DOMAIN disk' = DOMAIN disk
    BY <2>1 DEF CloseStream, Commit
  <2>5. QED BY <2>3, <2>4, RootedStay
<1>3. QED BY <1>1, <1>2 DEF Leave

\* A file that goes orphans the root streams it was open in.
LEMMA OrphanThere ==
  ASSUME NEW h, NEW ks, NEW d, NEW e, h # Free => IsStream(h) /\ There(h, d),
         \A k \in DOMAIN d : k \notin ks => k \in DOMAIN e
  PROVE  Orphan(h, ks) = Free \/ There(Orphan(h, ks), e)
<1>1. CASE h = Free
  BY <1>1 DEF Orphan
<1>2. CASE h # Free /\ ~OnCard(h.name) /\ Key(h.name) \in ks
  <2> DEFINE j == [h EXCEPT !.lost = TRUE]
  <2>1. j.lost
    BY <1>2 DEF IsStream, Fields
  <2>2. Orphan(h, ks) = j
    BY <1>2 DEF Orphan
  <2> HIDE DEF j
  <2>3. QED BY <2>1, <2>2 DEF There
<1>3. CASE h # Free /\ ~(~OnCard(h.name) /\ Key(h.name) \in ks)
  BY <1>3 DEF Orphan, There
<1>4. QED BY <1>1, <1>2, <1>3

LEMMA LoseRooted ==
  ASSUME FileInv, Rooted, NEW ks, Lose(ks), \A k \in DOMAIN disk : k \notin ks => k \in DOMAIN disk'
  PROVE  Rooted'
<1>1. table' = [s \in Slots |-> Orphan(table[s], ks)] /\ dribble' = Orphan(dribble, ks)
  BY DEF Lose
<1>2. ASSUME NEW s \in Slots PROVE table'[s] = Free \/ There(table'[s], disk')
  <2>1. table[s] # Free => IsStream(table[s]) /\ There(table[s], disk)
    BY DEF FileInv, StreamsSound, Sound, Rooted, SlotsUsed
  <2>2. QED BY <1>1, <2>1, OrphanThere
<1>3. dribble' = Free \/ There(dribble', disk')
  <2>1. dribble # Free => IsStream(dribble) /\ There(dribble, disk)
    BY DEF FileInv, StreamsSound, Sound, Rooted
  <2>2. QED BY <1>1, <2>1, OrphanThere
<1>4. QED BY <1>2, <1>3 DEF Rooted, SlotsUsed

LEMMA ClearRooted ==
  ASSUME FileInv, Rooted, NEW m, ClearDestination(m)
  PROVE  Rooted'
<1>1. CASE disk' = Without(disk, Key(m)) /\ Lose({Key(m)})
  BY <1>1, WithoutIs, LoseRooted
<1>2. CASE UNCHANGED <<disk, table, dribble>>
  BY <1>2, SameRooted
<1>3. QED BY <1>1, <1>2 DEF ClearDestination

\* Moving a cursor.
LEMMA CursorRooted ==
  ASSUME FileInv, Rooted, NEW s \in SlotsUsed, NEW pos, UNCHANGED <<disk, dribble>>,
         table' = [table EXCEPT ![s].rpos = pos] \/ table' = [table EXCEPT ![s].wpos = pos]
  PROVE  Rooted'
<1>1. table = [t \in Slots |-> table[t]] /\ IsStream(table[s]) /\ s \in Slots /\ There(table[s], disk)
  BY DEF FileInv, StreamsSound, Sound, SlotsUsed, Rooted
<1>2. \A t \in Slots : t # s => table'[t] = table[t]
  BY <1>1
<1>3. table'[s].name = table[s].name /\ table'[s].lost = table[s].lost
  BY <1>1 DEF IsStream, Fields
<1>4. There(table'[s], disk')
  BY <1>1, <1>3 DEF There
<1>5. QED BY <1>2, <1>4, RootedStay

\* Where one write puts its chunk, and that it leaves the others.
LEMMA OverlayAt ==
  ASSUME NEW s \in Seq(Chunks), NEW pos \in 0 .. Len(s), NEW c \in Chunks
  PROVE  /\ Overlay(s, pos, c)[pos + 1] = c
         /\ \A i \in 1 .. Len(s) : i # pos + 1 => Overlay(s, pos, c)[i] = s[i]
<1> DEFINE a == SubSeq(s, 1, pos)
           z == SubSeq(s, pos + 2, Len(s))
<1>1. pos \in Nat /\ Len(s) \in Nat /\ pos <= Len(s)
  OBVIOUS
<1>2. a \in Seq(Chunks) /\ Len(a) = pos /\ \A i \in 1 .. pos : a[i] = s[i]
  <2>1. \A i \in 1 .. pos : s[i] \in Chunks
    BY <1>1
  <2>2. /\ a \in Seq(Chunks) /\ Len(a) = IF 1 <= pos THEN pos - 1 + 1 ELSE 0
        /\ \A i \in 1 .. pos - 1 + 1 : a[i] = s[1 + i - 1]
    BY <1>1, <2>1, SubSeqProperties
  <2>3. QED BY <1>1, <2>2
<1>3. z \in Seq(Chunks) /\ Len(z) = (IF pos + 2 <= Len(s) THEN Len(s) - (pos + 2) + 1 ELSE 0)
      /\ \A i \in 1 .. Len(s) - (pos + 2) + 1 : z[i] = s[pos + 2 + i - 1]
  <2>1. \A i \in pos + 2 .. Len(s) : s[i] \in Chunks
    BY <1>1
  <2>2. QED BY <1>1, <2>1, SubSeqProperties
<1>4. <<c>> \in Seq(Chunks) /\ Len(<<c>>) = 1 /\ <<c>>[1] = c
  OBVIOUS
<1> HIDE DEF a, z
<1> DEFINE b == a \o <<c>>
<1>5. b \in Seq(Chunks) /\ Len(b) = pos + 1 /\ b[pos + 1] = c /\ \A i \in 1 .. pos : b[i] = s[i]
  BY <1>1, <1>2, <1>4
<1> HIDE DEF b
<1>6. Overlay(s, pos, c) = b \o z
  BY DEF Overlay, a, z, b
<1>7. (b \o z)[pos + 1] = c /\ \A i \in 1 .. pos : (b \o z)[i] = s[i]
  BY <1>1, <1>3, <1>5
<1>8. ASSUME NEW i \in 1 .. Len(s), i > pos + 1 PROVE (b \o z)[i] = s[i]
  <2>1. PICK k \in Nat : k = i - (pos + 1)
    BY <1>1, <1>8
  <2>2. k >= 1 /\ k <= Len(s) - (pos + 2) + 1 /\ Len(z) = Len(s) - (pos + 2) + 1
    BY <1>1, <1>3, <1>8, <2>1
  <2>3. (b \o z)[i] = z[k]
    BY <1>1, <1>3, <1>5, <1>8, <2>1, <2>2
  <2>4. k \in 1 .. Len(s) - (pos + 2) + 1
    BY <1>1, <2>2
  <2>5. z[k] = s[pos + 2 + k - 1]
    BY <1>3, <2>4
  <2>6. i \in Nat /\ pos + 2 + k - 1 = i
    BY <1>1, <2>1
  <2>7. QED BY <2>3, <2>5, <2>6
<1>9. ASSUME NEW i \in 1 .. Len(s), i # pos + 1 PROVE (b \o z)[i] = s[i]
  <2>1. i \in 1 .. pos \/ i > pos + 1
    BY <1>1, <1>9
  <2>2. QED BY <1>7, <1>8, <2>1
<1>10. QED BY <1>6, <1>7, <1>9

\* What a flush says of the stream's marks.
LEMMA FlushMarks ==
  ASSUME NEW d, NEW h, NEW ok, IsStream(h), NEW f, f = Flush(d, h, ok)
  PROVE  f.h.lost = h.lost /\ (~f.h.err => ~h.err /\ (OnCard(h.name) \/ ~h.dirty \/ ok))
<1>1. CASE OnCard(h.name)
  <2>1. f = [d |-> d, h |-> h]
    BY <1>1, Zenon DEF Flush
  <2>2. f.h = h
    BY <2>1
  <2>3. QED BY <1>1, <2>2, Zenon
<1>2. CASE ~OnCard(h.name) /\ (~h.dirty \/ ok)
  <2> DEFINE i == [h EXCEPT !.bad = FALSE]
             j == [h EXCEPT !.dirty = FALSE, !.bad = FALSE]
  <2>1. f = [d |-> d, h |-> i] \/ f = [d |-> Commit(d, h), h |-> j]
    BY <1>2, Zenon DEF Flush
  <2>2. i.lost = h.lost /\ i.err = h.err /\ j.lost = h.lost /\ j.err = h.err
    BY DEF IsStream, Fields
  <2> HIDE DEF i, j
  <2>3. f.h = i \/ f.h = j
    BY <2>1
  <2>4. QED BY <1>2, <2>2, <2>3, Zenon
<1>3. CASE ~OnCard(h.name) /\ h.dirty /\ ~ok
  <2>1. f = [d |-> d, h |-> Refused(h)]
    BY <1>3, Zenon DEF Flush
  <2>2. f.h = Refused(h)
    BY <2>1
  <2>3. QED BY <2>2, Marks
<1>4. QED BY <1>1, <1>2, <1>3

LEMMA ClearedMarks ==
  ASSUME NEW h, IsStream(h)
  PROVE  Cleared(h).lost = h.lost /\ Cleared(h).name = h.name /\ Cleared(h).wpos = h.wpos /\ Cleared(h) # Free
<1> DEFINE j == [h EXCEPT !.err = FALSE]
<1>1. j.lost = h.lost /\ j.name = h.name /\ j.wpos = h.wpos /\ IsStream(j)
  BY DEF IsStream, Fields
<1> HIDE DEF j
<1>2. Cleared(h) = j
  BY StreamNotFree DEF Cleared, j
<1>3. QED BY <1>1, <1>2, StreamNotFree

\* The chunk c is in the file d[k], right before position pos.
Kept(d, k, pos, c) == k \in DOMAIN d /\ pos \in DOMAIN d[k] /\ d[k][pos] = c

\* A print to one stream: its chunk is before its position, and the same chunk
\* elsewhere in a file on the card stays.
Printed(d, h, c, w) ==
  /\ w.h.lost = h.lost /\ w.h.name = h.name /\ IsStream(w.h)
  /\ DOMAIN w.d = DOMAIN d /\ \A k \in DOMAIN d : k # Key(h.name) => w.d[k] = d[k]
  /\ ~w.h.err /\ ~h.lost => Kept(w.d, Key(h.name), w.h.wpos, c)
  /\ ~w.h.err /\ OnCard(h.name) => \A i : Kept(d, Key(h.name), i, c) => Kept(w.d, Key(h.name), i, c)

LEMMA OverlayKeeps ==
  ASSUME NEW s \in Seq(Chunks), NEW pos \in 0 .. Len(s), NEW c \in Chunks, NEW t, t = Overlay(s, pos, c)
  PROVE  /\ pos + 1 \in DOMAIN t /\ t[pos + 1] = c
         /\ \A i \in DOMAIN s : s[i] = c => i \in DOMAIN t /\ t[i] = c
<1>1. t \in Seq(Chunks) /\ Len(t) >= Len(s) /\ Len(t) >= pos + 1
  BY OverlayIs
<1>2. t[pos + 1] = c /\ \A i \in 1 .. Len(s) : i # pos + 1 => t[i] = s[i]
  BY OverlayAt
<1>3. DOMAIN s = 1 .. Len(s) /\ DOMAIN t = 1 .. Len(t) /\ Len(s) \in Nat /\ Len(t) \in Nat
  BY <1>1
<1>4. pos \in Nat /\ pos + 1 \in DOMAIN t
  BY <1>1, <1>3
<1>5. ASSUME NEW i \in DOMAIN s, s[i] = c PROVE i \in DOMAIN t /\ t[i] = c
  BY <1>1, <1>2, <1>3, <1>5
<1>6. QED BY <1>2, <1>4, <1>5

LEMMA PrintedIs ==
  ASSUME NEW d, NEW h, NEW c \in Chunks, NEW ok, NEW late, Stored(d), gen \in Nat,
         h # Free, Sound(h, d, gen), There(h, d),
         NEW w, w = Written(d, h, c, ok, late)
  PROVE  Printed(d, h, c, w)
<1>0. PICK v : v = WriteBytes(d, h, c, ok)
  OBVIOUS
<1>1. w = Flush(v.d, v.h, late)
  BY <1>0, Zenon DEF Written
<1>2. Wrote(d, h, c, v)
  BY <1>0, WriteIs
<1>3. Flushed(v.d, v.h, late, w)
  BY <1>1, <1>2, FlushIs DEF Wrote
<1>4. IsStream(v.h)
  BY <1>2 DEF Wrote, Sound
<1>5. w.h.lost = v.h.lost /\ (~w.h.err => ~v.h.err /\ (OnCard(v.h.name) \/ ~v.h.dirty \/ late))
  BY <1>1, <1>4, FlushMarks
<1>6. w.h.lost = h.lost /\ w.h.name = h.name /\ IsStream(w.h) /\ w.h.wpos = v.h.wpos
  BY <1>2, <1>3, <1>5 DEF Wrote, Flushed, SameStream
<1>7. DOMAIN w.d = DOMAIN d /\ \A k \in DOMAIN d : k # Key(h.name) => w.d[k] = d[k]
  BY <1>2, <1>3 DEF Wrote, Flushed
<1>8. ASSUME ~w.h.err, OnCard(h.name) \/ ~h.lost
      PROVE  /\ ~h.lost => Kept(w.d, Key(h.name), w.h.wpos, c)
             /\ OnCard(h.name) => /\ Kept(w.d, Key(h.name), w.h.wpos, c)
                                  /\ \A i : Kept(d, Key(h.name), i, c) => Kept(w.d, Key(h.name), i, c)
  <2> DEFINE s == View(d, h)
             t == View(v.d, v.h)
  <2>0. ~Stale(h)
    <3>1. SUFFICES ASSUME Stale(h) PROVE FALSE
      OBVIOUS
    <3>2. v = [d |-> d, h |-> Refused(h)]
      BY <1>0, <3>1, Zenon DEF WriteBytes
    <3>3. v.h = Refused(h) /\ IsStream(h)
      BY <3>2 DEF Sound
    <3>4. v.h.err
      BY <3>3, Marks
    <3>5. QED BY <1>5, <1>8, <3>4
  <2>1. v.h.wpos = h.wpos + 1 /\ t = Overlay(s, h.wpos, c) /\ v.h.name = h.name /\ v.h.lost = h.lost
        /\ (OnCard(h.name) \/ v.h.dirty)
    BY <1>2, <1>5, <1>8 DEF Wrote
  <2>2. Key(h.name) \in DOMAIN d
    <3>1. CASE ~OnCard(h.name)
      BY <1>8, <3>1 DEF There
    <3>2. CASE OnCard(h.name)
      BY <2>0, <3>2 DEF Stale, Sound
    <3>3. QED BY <3>1, <3>2
  <2>3. s \in Seq(Chunks) /\ h.wpos \in 0 .. Len(s)
    <3>1. CASE OnCard(h.name)
      BY <2>0, <2>2, <3>1 DEF Stale, View, Sound, Within, Stored
    <3>2. CASE ~OnCard(h.name)
      BY <3>2 DEF View, Sound, Within
    <3>3. QED BY <3>1, <3>2
  <2>4. w.d[Key(h.name)] = t
    <3>1. CASE OnCard(h.name)
      BY <1>3, <2>1, <3>1 DEF Flushed, View
    <3>2. CASE ~OnCard(h.name)
      <4>1. late /\ ~h.lost /\ v.h.dirty
        BY <1>5, <1>8, <2>1, <3>2
      <4>2. Key(v.h.name) \in DOMAIN v.d
        BY <1>2, <2>1, <2>2 DEF Wrote
      <4>3. QED BY <1>3, <2>1, <3>2, <4>1, <4>2 DEF Flushed, View
    <3>3. QED BY <3>1, <3>2
  <2>5. OnCard(h.name) => s = d[Key(h.name)]
    BY DEF View
  <2> HIDE DEF s, t
  <2>6. /\ h.wpos + 1 \in DOMAIN t /\ t[h.wpos + 1] = c
        /\ \A i \in DOMAIN s : s[i] = c => i \in DOMAIN t /\ t[i] = c
    BY <2>1, <2>3, OverlayKeeps
  <2>7. Kept(w.d, Key(h.name), w.h.wpos, c)
    BY <1>6, <1>7, <2>1, <2>2, <2>4, <2>6 DEF Kept
  <2>8. OnCard(h.name) => \A i : Kept(d, Key(h.name), i, c) => Kept(w.d, Key(h.name), i, c)
    BY <1>7, <2>4, <2>5, <2>6 DEF Kept
  <2>9. QED BY <2>7, <2>8
<1>9. QED BY <1>6, <1>7, <1>8 DEF Printed

\* The program does not write one file of the root through the writer and the
\* dribble file: each has a copy, and the later flush decides.
OwnFile ==
  writer # Console /\ dribble # Free /\ ~OnCard(dribble.name) => Key(table[writer].name) # Key(dribble.name)

\* What a print does to its two streams.
Prints(c, w, b) ==
  /\ Handle(writer) = Free => w = [d |-> disk, h |-> Free]
  /\ Handle(writer) # Free => Printed(disk, Handle(writer), c, w)
  /\ dribble = Free => b = [d |-> w.d, h |-> Free]
  /\ dribble # Free => Printed(w.d, dribble, c, b)
  /\ disk' = b.d /\ dribble' = Cleared(b.h)
  /\ table' = [s \in Slots |-> IF s = writer THEN Cleared(w.h) ELSE table[s]]
  /\ said' = [op |-> "print", chunk |-> c, ok |-> ~Failed(w.h) /\ ~Failed(b.h)]
  /\ writer' = writer

LEMMA ThereStays == \A h, d, e : There(h, d) /\ DOMAIN d \subseteq DOMAIN e => There(h, e)
  BY DEF There

LEMMA PrintIs ==
  ASSUME FileInv, Rooted, NEW c \in Chunks, PrimPrint(c)
  PROVE  \E w, b : Prints(c, w, b)
<1>1. writer' = writer
  BY DEF PrimPrint
<1>2. PICK ok1 \in Outcomes(Handle(writer)), ok2 \in Outcomes(dribble), late1 \in Late, late2 \in Late :
      \E w \in {Written(disk, Handle(writer), c, ok1, late1)} :
      \E b \in {Written(w.d, dribble, c, ok2, late2)} :
        /\ disk' = b.d /\ dribble' = Cleared(b.h)
        /\ table' = [s \in Slots |-> IF s = writer THEN Cleared(w.h) ELSE table[s]]
        /\ said' = [op |-> "print", chunk |-> c, ok |-> ~Failed(w.h) /\ ~Failed(b.h)]
  BY DEF PrimPrint
<1>3. PICK w : /\ w = Written(disk, Handle(writer), c, ok1, late1)
               /\ \E b \in {Written(w.d, dribble, c, ok2, late2)} :
                    /\ disk' = b.d /\ dribble' = Cleared(b.h)
                    /\ table' = [s \in Slots |-> IF s = writer THEN Cleared(w.h) ELSE table[s]]
                    /\ said' = [op |-> "print", chunk |-> c, ok |-> ~Failed(w.h) /\ ~Failed(b.h)]
  BY <1>2
<1>4. PICK b : /\ b = Written(w.d, dribble, c, ok2, late2)
               /\ disk' = b.d /\ dribble' = Cleared(b.h)
               /\ table' = [s \in Slots |-> IF s = writer THEN Cleared(w.h) ELSE table[s]]
               /\ said' = [op |-> "print", chunk |-> c, ok |-> ~Failed(w.h) /\ ~Failed(b.h)]
  BY <1>3
<1>5. gen \in Nat /\ Stored(disk) /\ writer \in Selectable
  BY Numbers DEF FileInv, StreamsSound, Pointers
<1>6. Handle(writer) # Free => Sound(Handle(writer), disk, gen) /\ There(Handle(writer), disk)
  BY <1>5 DEF Selectable, Handle, SlotsUsed, FileInv, StreamsSound, Rooted
<1>7. PICK h, d : h = Handle(writer) /\ d = w.d
  OBVIOUS
<1>8. w = Written(disk, h, c, ok1, late1) /\ b = Written(d, dribble, c, ok2, late2)
  BY <1>3, <1>4, <1>7
<1>9. Stored(d) /\ Grows(disk, d) /\ DOMAIN disk \subseteq DOMAIN d
      /\ (h = Free => w = [d |-> disk, h |-> Free]) /\ (h # Free => Printed(disk, h, c, w))
  <2>1. CASE h = Free
    <3>1. w = [d |-> disk, h |-> Free]
      BY <1>8, <2>1, Zenon DEF Written
    <3>2. d = disk
      BY <1>7, <3>1
    <3>3. QED BY <1>5, <2>1, <3>1, <3>2, GrowsSame
  <2>2. CASE h # Free
    <3>1. Sound(h, disk, gen) /\ There(h, disk)
      BY <1>6, <1>7, <2>2
    <3>2. Printed(disk, h, c, w)
      BY <1>5, <1>8, <2>2, <3>1, PrintedIs
    <3>3. Stored(d) /\ Grows(disk, d)
      BY <1>5, <1>7, <1>8, <2>2, <3>1, WrittenIs
    <3>4. QED BY <1>7, <2>2, <3>2, <3>3 DEF Printed
  <2>3. QED BY <2>1, <2>2
<1>10. (dribble = Free => b = [d |-> d, h |-> Free]) /\ (dribble # Free => Printed(d, dribble, c, b))
  <2>1. CASE dribble = Free
    BY <1>8, <2>1, Zenon DEF Written
  <2>2. CASE dribble # Free
    <3>1. Sound(dribble, disk, gen) /\ There(dribble, disk)
      BY <2>2 DEF FileInv, StreamsSound, Rooted
    <3>2. Sound(dribble, d, gen)
      BY <1>5, <1>9, <3>1, SoundGrows
    <3>3. There(dribble, d)
      BY <1>9, <3>1, ThereStays
    <3>4. Printed(d, dribble, c, b)
      BY <1>5, <1>8, <1>9, <2>2, <3>2, <3>3, PrintedIs
    <3>5. QED BY <2>2, <3>4
  <2>3. QED BY <2>1, <2>2
<1>11. Prints(c, w, b)
  BY <1>1, <1>4, <1>7, <1>9, <1>10 DEF Prints
<1>12. QED BY <1>11

\* After a print the two streams have their marks, and no file is gone.
LEMMA PrintsMarks ==
  ASSUME FileInv, NEW c, NEW w, NEW b, Prints(c, w, b)
  PROVE  /\ DOMAIN w.d = DOMAIN disk /\ DOMAIN disk' = DOMAIN disk
         /\ writer \in Selectable
         /\ writer # Console => /\ Handle(writer) = table[writer] /\ table[writer] # Free /\ writer \in Slots
                                /\ Printed(disk, table[writer], c, w)
                                /\ table'[writer] = Cleared(w.h)
                                /\ Cleared(w.h).name = table[writer].name
                                /\ Cleared(w.h).lost = table[writer].lost
                                /\ Cleared(w.h).wpos = w.h.wpos
         /\ dribble = Free => dribble' = Free
         /\ dribble # Free => /\ dribble'.name = dribble.name /\ dribble'.lost = dribble.lost
                              /\ dribble'.wpos = b.h.wpos /\ dribble' # Free
<1>1. writer \in Selectable
  BY DEF FileInv, Pointers
<1>2. writer # Console => Handle(writer) = table[writer] /\ table[writer] # Free /\ writer \in Slots
  BY <1>1 DEF Handle, Selectable
<1>3. writer = Console => Handle(writer) = Free
  BY DEF Handle
<1>4. DOMAIN w.d = DOMAIN disk
  <2>1. CASE Handle(writer) = Free
    <3>1. w = [d |-> disk, h |-> Free]
      BY <2>1 DEF Prints
    <3>2. QED BY <3>1
  <2>2. CASE Handle(writer) # Free
    BY <2>2 DEF Prints, Printed
  <2>3. QED BY <2>1, <2>2
<1>5. DOMAIN disk' = DOMAIN disk
  <2>1. CASE dribble = Free
    <3>1. b = [d |-> w.d, h |-> Free] /\ disk' = b.d
      BY <2>1 DEF Prints
    <3>2. QED BY <1>4, <3>1
  <2>2. CASE dribble # Free
    BY <1>4, <2>2 DEF Prints, Printed
  <2>3. QED BY <2>1, <2>2
<1>6. writer # Console => Printed(disk, table[writer], c, w) /\ table'[writer] = Cleared(w.h)
  BY <1>2 DEF Prints
<1>7. writer # Console => /\ Cleared(w.h).name = table[writer].name
                          /\ Cleared(w.h).lost = table[writer].lost
                          /\ Cleared(w.h).wpos = w.h.wpos
  BY <1>6, ClearedMarks DEF Printed
<1>8. dribble = Free => dribble' = Free
  <2>1. SUFFICES ASSUME dribble = Free PROVE dribble' = Free
    OBVIOUS
  <2>2. b = [d |-> w.d, h |-> Free] /\ dribble' = Cleared(b.h)
    BY <2>1 DEF Prints
  <2>3. b.h = Free
    BY <2>2
  <2>4. QED BY <2>2, <2>3 DEF Cleared
<1>9. dribble # Free => /\ dribble'.name = dribble.name /\ dribble'.lost = dribble.lost
                        /\ dribble'.wpos = b.h.wpos /\ dribble' # Free
  BY ClearedMarks DEF Prints, Printed
<1>10. QED BY <1>1, <1>2, <1>4, <1>5, <1>6, <1>7, <1>8, <1>9

LEMMA PrintRooted ==
  ASSUME FileInv, Rooted, NEW c \in Chunks, PrimPrint(c)
  PROVE  Rooted'
<1>1. PICK w, b : Prints(c, w, b)
  BY PrintIs
<1>2. DOMAIN disk' = DOMAIN disk
  BY <1>1, PrintsMarks
<1>3. ASSUME NEW s \in Slots PROVE table'[s] = table[s] \/ There(table'[s], disk')
  <2>1. CASE s = writer
    <3>1. table'[s].name = table[s].name /\ table'[s].lost = table[s].lost /\ table[s] # Free
      BY <1>1, <2>1, PrintsMarks, Numbers
    <3>2. There(table[s], disk)
      BY <3>1 DEF Rooted, SlotsUsed
    <3>3. QED BY <1>2, <3>1, <3>2 DEF There
  <2>2. CASE s # writer
    BY <1>1, <2>2 DEF Prints
  <2>3. QED BY <2>1, <2>2
<1>4. dribble' = Free \/ There(dribble', disk')
  BY <1>1, <1>2, PrintsMarks DEF Rooted, There
<1>5. QED BY <1>2, <1>3, <1>4, RootedStay

\* What the print reports is so.
LEMMA PrintTrue ==
  ASSUME FileInv, Rooted, OwnFile, NEW c \in Chunks, PrimPrint(c)
  PROVE  PrintKept'
<1>1. PICK w, b : Prints(c, w, b)
  BY PrintIs
<1>2. SUFFICES ASSUME said'.ok
      PROVE \A h \in {Handle(writer)', dribble'} \ {Free} :
              ~h.lost => Kept(disk', Key(h.name), h.wpos, said'.chunk)
  BY DEF PrintKept, Kept
<1>3. said'.chunk = c /\ ~Failed(w.h) /\ ~Failed(b.h)
  BY <1>1, <1>2 DEF Prints
<1>4. ASSUME dribble' # Free, ~dribble'.lost
      PROVE  Kept(disk', Key(dribble'.name), dribble'.wpos, c)
  <2>1. dribble # Free /\ Printed(w.d, dribble, c, b) /\ disk' = b.d
    BY <1>1, <1>4, PrintsMarks DEF Prints
  <2>2. ~b.h.err
    BY <1>3, <2>1, StreamNotFree DEF Failed, Printed
  <2>3. dribble'.name = dribble.name /\ dribble'.lost = dribble.lost /\ dribble'.wpos = b.h.wpos
    BY <1>1, <2>1, PrintsMarks
  <2>4. QED BY <1>4, <2>1, <2>2, <2>3 DEF Printed
<1>5. ASSUME Handle(writer)' # Free, ~Handle(writer)'.lost
      PROVE  Kept(disk', Key(Handle(writer)'.name), Handle(writer)'.wpos, c)
  <2>1. writer # Console /\ writer' = writer
    BY <1>1, <1>5 DEF Handle, Prints
  <2>2. /\ Printed(disk, table[writer], c, w) /\ Handle(writer)' = table'[writer]
        /\ table'[writer].name = table[writer].name /\ table'[writer].lost = table[writer].lost
        /\ table'[writer].wpos = w.h.wpos
    BY <1>1, <2>1, PrintsMarks DEF Handle
  <2>3. ~w.h.err
    BY <1>3, <2>2, StreamNotFree DEF Failed, Printed
  <2> DEFINE k == Key(table[writer].name)
             p == w.h.wpos
  <2>4. Kept(w.d, k, p, c)
    BY <1>5, <2>2, <2>3 DEF Printed
  <2>5. CASE dribble = Free
    <3>1. b = [d |-> w.d, h |-> Free] /\ disk' = b.d
      BY <1>1, <2>5 DEF Prints
    <3>2. disk' = w.d
      BY <3>1
    <3>3. QED BY <2>2, <2>4, <3>2
  <2>6. CASE dribble # Free
    <3>1. Printed(w.d, dribble, c, b) /\ disk' = b.d
      BY <1>1, <2>6 DEF Prints
    <3>2. ~b.h.err
      BY <1>3, <3>1, StreamNotFree DEF Failed, Printed
    <3>3. CASE k # Key(dribble.name)
      <4>1. k \in DOMAIN w.d /\ disk'[k] = w.d[k] /\ DOMAIN disk' = DOMAIN w.d
        BY <2>4, <3>1, <3>3 DEF Printed, Kept
      <4>2. Kept(disk', k, p, c)
        BY <2>4, <4>1 DEF Kept
      <4>3. QED BY <2>2, <4>2
    <3>4. CASE k = Key(dribble.name)
      <4>1. OnCard(dribble.name)
        BY <2>1, <2>6, <3>4 DEF OwnFile
      <4>2. Kept(disk', k, p, c)
        BY <2>4, <3>1, <3>2, <3>4, <4>1 DEF Printed
      <4>3. QED BY <2>2, <4>2
    <3>5. QED BY <3>3, <3>4
  <2>7. QED BY <2>5, <2>6
<1>6. QED BY <1>3, <1>4, <1>5

LEMMA ChunkRooted ==
  ASSUME FileInv, Rooted, SaveChunk
  PROVE  Rooted'
<1>1. job.op = "save"
  BY DEF SaveChunk
<1>2. /\ job.left \in Seq(Chunks) /\ writer \in SlotsUsed /\ Sound(table[writer], disk, gen)
      /\ Stored(disk) /\ table = [s \in Slots |-> table[s]] /\ writer \in Slots
  BY <1>1, SavingIs DEF FileInv, StreamsSound, SlotsUsed
<1>3. PICK c : c = Head(job.left)
  OBVIOUS
<1>4. c \in Chunks
  BY <1>2, <1>3 DEF SaveChunk
<1>5. PICK ok1 \in Outcomes(table[writer]), ok2 \in Outcomes(dribble) :
      \E w \in {WriteBytes(disk, table[writer], c, ok1)} :
      \E b \in {IF dribble = Free THEN [d |-> w.d, h |-> Free] ELSE WriteBytes(w.d, dribble, c, ok2)} :
        disk' = b.d /\ table' = [table EXCEPT ![writer] = w.h] /\ dribble' = b.h
  BY <1>3 DEF SaveChunk
<1>6. PICK w : /\ w = WriteBytes(disk, table[writer], c, ok1)
               /\ \E b \in {IF dribble = Free THEN [d |-> w.d, h |-> Free] ELSE WriteBytes(w.d, dribble, c, ok2)} :
                    disk' = b.d /\ table' = [table EXCEPT ![writer] = w.h] /\ dribble' = b.h
  BY <1>5
<1>7. PICK b : /\ b = IF dribble = Free THEN [d |-> w.d, h |-> Free] ELSE WriteBytes(w.d, dribble, c, ok2)
               /\ disk' = b.d /\ table' = [table EXCEPT ![writer] = w.h] /\ dribble' = b.h
  BY <1>6
<1>8. Wrote(disk, table[writer], c, w)
  BY <1>2, <1>4, <1>6, WriteIs
<1>9. DOMAIN w.d = DOMAIN disk /\ There(w.h, w.d) /\ Stored(w.d) /\ Grows(disk, w.d)
  BY <1>2, <1>8 DEF Wrote, There, Rooted
<1>10. DOMAIN disk' = DOMAIN w.d /\ (dribble' = Free \/ There(dribble', disk'))
  <2>1. CASE dribble = Free
    <3>1. b = [d |-> w.d, h |-> Free]
      BY <1>7, <2>1
    <3>2. disk' = w.d /\ dribble' = Free
      BY <1>7, <3>1
    <3>3. QED BY <3>2
  <2>2. CASE dribble # Free
    <3>1. PICK d : d = w.d
      OBVIOUS
    <3>2. b = WriteBytes(d, dribble, c, ok2)
      BY <1>7, <2>2, <3>1
    <3>3. Sound(dribble, d, gen)
      BY <1>2, <1>9, <2>2, <3>1, SoundGrows DEF FileInv, StreamsSound
    <3>4. Stored(d)
      BY <1>9, <3>1
    <3>5. Wrote(d, dribble, c, b)
      BY <1>4, <3>2, <3>3, <3>4, WriteIs
    <3>6. There(dribble, disk)
      BY <2>2 DEF Rooted
    <3>7. QED BY <1>7, <1>9, <3>1, <3>5, <3>6 DEF Wrote, There
  <2>3. QED BY <2>1, <2>2
<1>11. \A s \in Slots : table'[s] \in {table[s], w.h}
  BY <1>2, <1>7
<1>12. There(w.h, disk')
  BY <1>9, <1>10 DEF There
<1>13. QED BY <1>9, <1>10, <1>11, <1>12, RootedStay

\* The steps of a transfer erase nothing until its end.
LEMMA TransferRooted ==
  ASSUME FileInv, Rooted, TransferOpen \/ TransferChunk \/ TransferClose
  PROVE  Rooted'
<1>1. UNCHANGED <<table, dribble>>
  BY Zenon DEF TransferOpen, TransferChunk, TransferClose
<1>2. CASE TransferOpen
  <2>1. Stored(disk)
    BY DEF FileInv, StreamsSound
  <2>2. PICK d : d = Created(disk, job.src)
    OBVIOUS
  <2>3. disk' \in {disk, d, Created(d, job.dst)}
    BY <1>2, <2>2, Zenon DEF TransferOpen
  <2>4. DOMAIN disk \subseteq DOMAIN d /\ Stored(d)
    <3>1. /\ Stored(Created(disk, job.src))
          /\ DOMAIN Created(disk, job.src) = DOMAIN disk \cup {Key(job.src)}
      BY <2>1, CreatedIs
    <3>2. QED BY <2>2, <3>1
  <2>5. DOMAIN d \subseteq DOMAIN Created(d, job.dst)
    <3>1. DOMAIN Created(d, job.dst) = DOMAIN d \cup {Key(job.dst)}
      BY <2>4, CreatedIs
    <3>2. QED BY <3>1
  <2>6. QED BY <1>1, <2>3, <2>4, <2>5, SameRooted
<1>3. CASE TransferChunk
  <2>1. Running("copy")
    BY <1>3, Zenon DEF TransferChunk
  <2>2. Stored(disk) /\ Sound(job.in, disk, gen) /\ Sound(job.out, disk, gen)
    BY <2>1, RunningIs
  <2>3. ASSUME NEW late, NEW f, f = Flush(disk, job.out, late), disk' = f.d PROVE Rooted'
    <3>1. Flushed(disk, job.out, late, f)
      BY <2>2, <2>3, FlushIs
    <3>2. QED BY <1>1, <2>3, <3>1, SameRooted DEF Flushed
  <2>4. ASSUME ~Stale(job.in), ~AtEnd(disk, job.in), NEW ok, NEW w,
               w = WriteBytes(disk, job.out, View(disk, job.in)[job.in.rpos + 1], ok), disk' = w.d
        PROVE  Rooted'
    <3>1. PICK c : c = View(disk, job.in)[job.in.rpos + 1]
      OBVIOUS
    <3>2. c \in Chunks
      BY <2>2, <2>4, <3>1, NextChunk
    <3>3. w = WriteBytes(disk, job.out, c, ok)
      BY <2>4, <3>1
    <3>4. Wrote(disk, job.out, c, w)
      BY <2>2, <3>2, <3>3, WriteIs
    <3>5. DOMAIN disk' = DOMAIN disk
      BY <2>4, <3>4, Zenon DEF Wrote
    <3>6. QED BY <1>1, <3>5, SameRooted
  <2>5. CASE UNCHANGED disk
    BY <1>1, <2>5, SameRooted
  <2>6. \/ UNCHANGED disk
        \/ \E late : \E f : f = Flush(disk, job.out, late) /\ disk' = f.d
        \/ /\ ~Stale(job.in) /\ ~AtEnd(disk, job.in)
           /\ \E ok : \E w : /\ w = WriteBytes(disk, job.out, View(disk, job.in)[job.in.rpos + 1], ok)
                             /\ disk' = w.d
    BY <1>3, Zenon DEF TransferChunk
  <2>7. QED BY <2>3, <2>4, <2>5, <2>6, Zenon
<1>4. CASE TransferClose
  <2>1. PICK ok : disk' = CloseStream(disk, job.out, ok)
    BY <1>4 DEF TransferClose
  <2>2. DOMAIN disk' = DOMAIN disk
    BY <2>1 DEF CloseStream, Commit
  <2>3. QED BY <1>1, <2>2, SameRooted
<1>5. QED BY <1>2, <1>3, <1>4

LEMMA StepRooted ==
  ASSUME FileInv, Rooted, [Next]_vars
  PROVE  Rooted'
<1>0. reader \in Selectable /\ writer \in Selectable
  BY DEF FileInv, Pointers
<1>1. CASE Streams
  <2>1. ASSUME NEW w, Open(w) PROVE Rooted'
    BY <2>1, EnterRooted DEF Open
  <2>2. ASSUME NEW w, Close(w) PROVE Rooted'
    BY <2>2, LeaveRooted DEF Close
  <2>3. CASE CloseAll
    <3>1. DOMAIN disk' = DOMAIN disk /\ dribble' = dribble
      BY <2>3 DEF CloseAll
    <3>2. \A s \in Slots : table'[s] = Free
      BY <2>3 DEF CloseAll
    <3>3. QED BY <3>1, <3>2, RootedStay
  <2>4. CASE SetRead \/ SetWrite
    BY <2>4, SameRooted DEF SetRead, SetWrite
  <2>5. CASE Read
    <3>1. /\ Live(reader) /\ table' = [table EXCEPT ![reader].rpos = @ + 1] /\ UNCHANGED <<disk, dribble>>
      BY <2>5, Zenon DEF Read
    <3>2. table' = [table EXCEPT ![reader].rpos = table[reader].rpos + 1]
      BY <3>1
    <3>3. QED BY <1>0, <3>1, <3>2, LiveIs, CursorRooted
  <2>6. ASSUME NEW c \in Chunks, PrimPrint(c) PROVE Rooted'
    BY <2>6, PrintRooted
  <2>7. ASSUME NEW pos, SetReadPos(pos) PROVE Rooted'
    <3>1. Live(reader) /\ table' = [table EXCEPT ![reader].rpos = pos] /\ UNCHANGED <<disk, dribble>>
      BY <2>7, Zenon DEF SetReadPos
    <3>2. QED BY <1>0, <3>1, LiveIs, CursorRooted
  <2>8. ASSUME NEW pos, SetWritePos(pos) PROVE Rooted'
    <3>1. Live(writer) /\ table' = [table EXCEPT ![writer].wpos = pos] /\ UNCHANGED <<disk, dribble>>
      BY <2>8, Zenon DEF SetWritePos
    <3>2. QED BY <1>0, <3>1, LiveIs, CursorRooted
  <2>9. CASE NoDribble
    <3>1. PICK ok : disk' = CloseStream(disk, dribble, ok) /\ dribble' = Free /\ table' = table
      BY <2>9 DEF NoDribble
    <3>2. DOMAIN disk' = DOMAIN disk
      BY <3>1 DEF CloseStream, Commit
    <3>3. QED BY <3>1, <3>2, RootedStay
  <2>10. ASSUME NEW w, Dribble(w) PROVE Rooted'
    <3>1. /\ disk' = Created(disk, Resolve(w)) /\ dribble' = Fresh(disk, Resolve(w)) /\ table' = table
      BY <2>10 DEF Dribble
    <3>2. Stored(disk) /\ gen \in Nat
      BY Numbers DEF FileInv, StreamsSound
    <3>3. There(dribble', disk') /\ DOMAIN disk \subseteq DOMAIN disk'
      BY <3>1, <3>2, FreshThere
    <3>4. QED BY <3>1, <3>3, RootedStay
  <2>11. QED BY <1>1, <2>1, <2>2, <2>3, <2>4, <2>5, <2>6, <2>7, <2>8, <2>9, <2>10 DEF Streams
<1>2. CASE Names
  <2>1. ASSUME NEW w, SetPrefix(w) PROVE Rooted'
    BY <2>1, SameRooted DEF SetPrefix, streams
  <2>2. ASSUME NEW w, EraseFile(w) PROVE Rooted'
    <3>1. PICK n : disk' = Without(disk, Key(n)) /\ Lose({Key(n)})
      BY <2>2 DEF EraseFile
    <3>2. QED BY <3>1, WithoutIs, LoseRooted
  <2>3. ASSUME NEW w, NEW v, Rename(w, v) PROVE Rooted'
    <3>1. PICK n, m :
            /\ disk' = [k \in (DOMAIN disk \cup {Key(m)}) \ {Key(n)} |-> IF k = Key(m) THEN disk[Key(n)] ELSE disk[k]]
            /\ Lose({Key(n), Key(m)})
      BY <2>3 DEF Rename
    <3>2. QED BY <3>1, LoseRooted
  <2>4. ASSUME NEW op, NEW n, NEW m, Transfer(op, n, m) PROVE Rooted'
    BY <2>4, ClearRooted DEF Transfer
  <2>5. QED BY <1>2, <2>1, <2>2, <2>3, <2>4 DEF Names, CopyFile, Move
<1>3. CASE Jobs
  <2>1. CASE TransferUndo \/ MoveDrop
    BY <2>1, ClearRooted DEF TransferUndo, MoveDrop
  <2>2. CASE SaveEnd \/ LoadEnd
    BY <2>2, LeaveRooted DEF SaveEnd, LoadEnd
  <2>3. ASSUME NEW w, Save(w) \/ Load(w) PROVE Rooted'
    BY <2>3, EnterRooted DEF Save, Load
  <2>4. CASE LoadLine
    <3>1. /\ loading # None /\ table[loading.slot] # Free
          /\ table' = [table EXCEPT ![loading.slot].rpos = @ + 1] /\ UNCHANGED <<volumes, dribble>>
      BY <2>4, Zenon DEF LoadLine
    <3>2. loading.slot \in SlotsUsed
      BY <3>1 DEF FileInv, World, SlotsUsed
    <3>3. table' = [table EXCEPT ![loading.slot].rpos = table[loading.slot].rpos + 1]
      BY <3>1
    <3>4. QED BY <3>1, <3>2, <3>3, CursorRooted DEF volumes
  <2>5. QED BY <1>3, <2>1, <2>2, <2>3, <2>4, TransferRooted, ChunkRooted DEF Jobs
<1>4. CASE Eject \/ Insert \/ UNCHANGED vars
  BY <1>4, SameRooted DEF Eject, Insert, vars, streams, volumes
<1>5. QED BY <1>1, <1>2, <1>3, <1>4 DEF Next

\* Only a print reports a print.
LEMMA OthersQuiet ==
  ASSUME FileInv, Next, \A c \in Chunks : ~PrimPrint(c)
  PROVE  said'.op # "print"
<1>1. Quiet => said'.op # "print"
  BY DEF Quiet, None
<1>2. ASSUME NEW at, Running(at), NEW ok, Report(ok) PROVE said'.op # "print"
  <2>1. job.op \in {"copy", "move"}
    BY <1>2 DEF Running
  <2>2. QED BY <1>2, <2>1 DEF Report
<1>3. CASE Streams
  BY <1>1, <1>3 DEF Streams, Open, Close, CloseAll, SetRead, SetWrite, Read, SetReadPos, SetWritePos, NoDribble, Dribble
<1>4. CASE Names
  BY <1>1, <1>4 DEF Names, SetPrefix, EraseFile, Rename, CopyFile, Move, Transfer
<1>5. CASE Jobs
  <2>1. TransferOpen => Quiet \/ \E at, ok : Running(at) /\ Report(ok)
    BY Zenon DEF TransferOpen, Quiet
  <2>2. TransferChunk => Quiet
    BY Zenon DEF TransferChunk, Quiet
  <2>3. TransferClose => Quiet \/ \E at, ok : Running(at) /\ Report(ok)
    BY DEF TransferClose, Quiet
  <2>4. TransferUndo \/ MoveDrop => \E at, ok : Running(at) /\ Report(ok)
    BY DEF TransferUndo, MoveDrop
  <2>5. SaveChunk \/ SaveEnd \/ LoadLine \/ LoadEnd => Quiet
    BY Zenon DEF SaveChunk, SaveEnd, LoadLine, LoadEnd
  <2>6. \A w : Save(w) \/ Load(w) => Quiet
    BY DEF Save, Load
  <2>7. QED BY <1>1, <1>2, <1>5, <2>1, <2>2, <2>3, <2>4, <2>5, <2>6 DEF Jobs
<1>6. CASE Eject \/ Insert
  BY <1>1, <1>6 DEF Eject, Insert
<1>7. QED BY <1>3, <1>4, <1>5, <1>6 DEF Next

LEMMA StepPrintKept ==
  ASSUME FileInv, Rooted, PrintKept, OwnFile, [Next]_vars
  PROVE  PrintKept'
<1>1. ASSUME NEW c \in Chunks, PrimPrint(c) PROVE PrintKept'
  BY <1>1, PrintTrue
<1>2. CASE Next /\ \A c \in Chunks : ~PrimPrint(c)
  BY <1>2, OthersQuiet DEF PrintKept
<1>3. CASE UNCHANGED vars
  BY <1>3 DEF PrintKept, Handle, vars, streams, volumes
<1>4. QED BY <1>1, <1>2, <1>3

\* What a print that reports no error printed is on the disk, before the
\* positions of the writer and of the dribble file, whichever volume each is
\* on, whenever the card was pulled and wherever a volume was full: provided
\* the two do not write one file of the root.
THEOREM PrintsAreKept == Spec /\ []OwnFile => []PrintKept
<1>1. Init => Rooted /\ PrintKept
  BY DEF Init, Rooted, SlotsUsed, PrintKept, None
<1>2. FileInv /\ Rooted /\ [Next]_vars => Rooted'
  BY StepRooted
<1>3. FileInv /\ Rooted /\ PrintKept /\ OwnFile /\ [Next]_vars => PrintKept'
  BY StepPrintKept
<1>4. QED BY InitFileInv, StepFileInv, <1>1, <1>2, <1>3, PTL DEF Spec
=============================================================================
