-------------------------------- MODULE Fat --------------------------------
(***************************************************************************)
(* The FAT32 driver (devices/picocalc/fat32.c) and the streams and file    *)
(* operations over it (devices/picocalc/picocalc_storage.c).               *)
(*                                                                         *)
(* One thread uses the driver, so an operation is computed at its start:   *)
(* the writes it makes, in order, become the script, and Advance carries   *)
(* out one of them.  Every state on the way is one that a power loss can   *)
(* leave on the card.                                                      *)
(*                                                                         *)
(* A cluster is one sector of S slots.  A slot of a directory is a 32-byte *)
(* entry; a slot of a file is 32 bytes of its contents, and sizes and      *)
(* positions count slots.  The checksum of a long-name entry is the 8.3    *)
(* name it is computed from.  Dates and times are left out.                *)
(***************************************************************************)
EXTENDS Integers, Sequences, FiniteSets, SequencesExt

CONSTANTS
  LastCluster,    \* cluster_count + 1
  S,              \* the slots of a cluster
  NumFats,        \* num_fats
  Names,          \* names up to case, as strcasecmp compares them
  Parts,          \* filename_to_lfn: the long-name entries a name takes
  ShortNames,     \* the names valid_shortname accepts
  Basis,          \* the first candidate of unique_shortname
  Tilde(_, _),    \* its n-th numeric tail
  MaxTail,        \* its last one
  Handles,        \* the streams the program can hold
  Depth,          \* bound of the model: how deep directories nest
  Paths, Moves,   \* bound of the model: the names and renames asked for
  Chunks,         \* bound of the model: what is written
  Positions,      \* bound of the model: where
  Cards,          \* bound of the model: the cards the program may find
  MaxOps, MaxGen  \* bounds of the model: operations, removals of the card

Clusters == 2 .. LastCluster
Root == 2
FREE == 0
EOC == 1
Unknown == -1

Zero == [kind |-> "zero"]          \* zeroed bytes, and the end of a directory
Deleted == [kind |-> "deleted"]    \* FAT32_DIR_ENTRY_FREE
Byte(v) == [kind |-> "byte", val |-> v]
Long(n, part, sum) == [kind |-> "long", name |-> n, part |-> part, sum |-> sum]
Short(alias, dir, start, size) ==
  [kind |-> "short", alias |-> alias, dir |-> dir, start |-> start, size |-> size]
Zeros == [i \in 1 .. S |-> Zero]

ASSUME FatAssumption ==
  /\ LastCluster \in Nat /\ LastCluster > Root
  /\ S \in Nat /\ NumFats \in {1, 2} /\ MaxTail \in Nat
  /\ Parts \in [Names -> Nat \ {0}] /\ \A n \in Names : Parts[n] < S
  /\ ShortNames \subseteq Names
  /\ DOMAIN Basis = Names \ ShortNames
  /\ Paths \subseteq Seq(Names) /\ Moves \subseteq Seq(Names) \X Seq(Names)
  /\ \A d \in Chunks : d # <<>> /\ \A i \in 1 .. Len(d) : d[i].kind = "byte"

VARIABLES
  fat,      \* the copies of the FAT
  sec,      \* the data clusters
  info,     \* the FSInfo sector on the card
  fsinfo,   \* its copy in memory
  handle,   \* the open streams
  gen,      \* fat32_generation_counter
  mounted,  \* fat32_mounted
  script,   \* the writes the operation has still to make
  request,  \* the last operation the program asked for
  answer,   \* what it reported
  full,     \* history: one of them has found no room
  ops       \* how many there were

disk == <<fat, sec, info>>
vars == <<disk, fsinfo, handle, gen, mounted, script, request, answer, full, ops>>

Closed == [path |-> <<>>]

\* Op(x), written so that TLC evaluates x once.
With(x, Op(_)) == CHOOSE y \in {Op(z) : z \in {x}} : TRUE

-----------------------------------------------------------------------------
(* Reading a card: t is its FAT, d its clusters *)

Follow(t, walk) ==
  IF t[Last(walk)] \in Clusters THEN Append(walk, t[Last(walk)]) ELSE walk

\* A chain, followed at most cluster_count links.
Chain(t, c) ==
  LET walk[n \in 0 .. Cardinality(Clusters)] ==
        IF n = 0 THEN <<c>> ELSE With(walk[n - 1], LAMBDA w : Follow(t, w))
  IN  IF c \in Clusters THEN walk[Cardinality(Clusters)] ELSE <<>>

Ceil(n) == (n + S - 1) \div S

\* The slots of a chain one after the other, and where the i-th of them is.
Slots(d, chain) ==
  With(chain, LAMBDA ch :
    [i \in 1 .. S * Len(ch) |-> d[ch[(i - 1) \div S + 1]][((i - 1) % S) + 1]])
Place(chain, i) == [at |-> chain[(i - 1) \div S + 1], slot |-> ((i - 1) % S) + 1]

\* The name of the entry in slot i: the long name written before it, if its
\* checksum fits, otherwise the 8.3 name.
NameAt(slots, i) ==
  IF i > 1 /\ slots[i - 1].kind = "long"
  THEN IF slots[i - 1].sum = slots[i].alias THEN slots[i - 1].name ELSE slots[i].alias
  ELSE slots[i].alias

EntryAt(slots, i, first) ==
  [name |-> NameAt(slots, i), dir |-> slots[i].dir, start |-> slots[i].start,
   size |-> slots[i].size, alias |-> slots[i].alias, in |-> first, pos |-> i]

\* What fat32_dir_read finds in the slots of the directory at cluster first,
\* which ends at its first zero.
Listing(slots, first) ==
  {EntryAt(slots, i, first) : i \in {j \in 1 .. Len(slots) :
      /\ slots[j].kind = "short" /\ slots[j].alias \notin {".", ".."}
      /\ \A k \in 1 .. j : slots[k] # Zero}}

Entries(t, d, first) == With(Slots(d, Chain(t, first)), LAMBDA slots : Listing(slots, first))

NoEntry == [name |-> "", start |-> FREE]
RootEntry == [name |-> "/", dir |-> TRUE, start |-> Root]

\* find_entry: a file is passed over where a directory is needed.
FindIn(t, d, e, n, more) ==
  IF e = NoEntry THEN NoEntry
  ELSE With({x \in Entries(t, d, e.start) : x.name = n /\ (more => x.dir)}, LAMBDA found :
         IF found = {} THEN NoEntry
         ELSE CHOOSE x \in found : \A y \in found : x.pos <= y.pos)

Find(t, d, p) ==
  LET find[k \in 0 .. Len(p)] ==
        IF k = 0 THEN RootEntry ELSE With(find[k - 1], LAMBDA e : FindIn(t, d, e, p[k], k < Len(p)))
  IN  find[Len(p)]

-----------------------------------------------------------------------------
(* The work of an operation: s carries its view of the card, the writes it *)
(* makes (log), the cluster it last got, and its first error.              *)

Start(h) == [t |-> fat[1], d |-> sec, fsinfo |-> fsinfo, h |-> h,
             log |-> <<>>, got |-> FREE, at |-> <<>>, err |-> "ok"]

\* RETURN_ON_ERROR, and a loop with it.
Then(s, Op(_)) == With(s, LAMBDA u : IF u.err = "ok" THEN Op(u) ELSE u)
Each(s, seq, Op(_, _)) == FoldLeft(LAMBDA u, x : Then(u, LAMBDA v : Op(v, x)), s, seq)
Fail(s, e) == [s EXCEPT !.err = e]

\* write_cluster_fat_entry: one write for each copy.
SetFat(s, c, v) ==
  [s EXCEPT !.t[c] = v,
            !.log = @ \o [k \in 1 .. NumFats |-> [do |-> "fat", copy |-> k, at |-> c, val |-> v]]]

SetSector(s, c, x) ==
  [s EXCEPT !.d[c] = x, !.log = Append(@, [do |-> "sector", at |-> c, val |-> x])]

SetSlot(s, place, x) ==
  With(place, LAMBDA pl : SetSector(s, pl.at, [s.d[pl.at] EXCEPT ![pl.slot] = x]))

ClearCluster(s, c) == SetSector(s, c, Zeros)

UpdateFsinfo(s) == [s EXCEPT !.log = Append(@, [do |-> "info", val |-> s.fsinfo])]

CountFree(s, n) ==
  IF s.fsinfo.free = Unknown THEN s ELSE [s EXCEPT !.fsinfo.free = @ + n]

\* From the hint to the end, then from the beginning.
GetNextFree(s) ==
  LET hint == IF s.fsinfo.next \in Clusters THEN s.fsinfo.next ELSE Root
      free == {c \in Clusters : s.t[c] = FREE}
      late == {c \in free : c >= hint}
  IN  IF free = {} THEN Fail(s, "full")
      ELSE [s EXCEPT !.got = IF late # {} THEN Min(late) ELSE Min(free)]

TakeFirst(s) == Then(GetNextFree(s), LAMBDA u : CountFree(SetFat(u, u.got, EOC), -1))

AllocateAndLink(s, last) ==
  Then(GetNextFree(s), LAMBDA u :
    UpdateFsinfo(CountFree(SetFat(SetFat(u, last, u.got), u.got, EOC), -1)))

\* Allocates n clusters after the one s last got.
Extend(s, n) ==
  Each(s, [i \in 1 .. n |-> i], LAMBDA u, i :
    Then(AllocateAndLink(u, u.got), LAMBDA v : ClearCluster(v, v.got)))

Hint(s, lowest) ==
  [s EXCEPT !.fsinfo.next = IF @ = Unknown \/ lowest < @ THEN lowest ELSE @]

\* Mutant: the clusters freed are not counted.
ReleaseUncounted(s, chain) ==
  Then(Each(s, chain, LAMBDA u, c : SetFat(u, c, FREE)), LAMBDA u :
    UpdateFsinfo(Hint(u, Min(ToSet(chain)))))

ReleaseAll(s, chain) ==
  Then(Each(s, chain, LAMBDA u, c : SetFat(u, c, FREE)), LAMBDA u :
    UpdateFsinfo(Hint(CountFree(u, Len(chain)), Min(ToSet(chain)))))

ReleaseChain(s, c) ==
  IF c \in Clusters THEN With(Chain(s.t, c), LAMBDA chain : ReleaseAll(s, chain)) ELSE s

-----------------------------------------------------------------------------
(* Directory entries *)

AliasTaken(s, dir, alias) == \E e \in Entries(s.t, s.d, dir) : e.alias = alias

UniqueAlias(s, dir, n) ==
  LET tails == {k \in 1 .. MaxTail : ~AliasTaken(s, dir, Tilde(n, k))}
  IN  IF ~AliasTaken(s, dir, Basis[n]) THEN Basis[n]
      ELSE IF tails = {} THEN "" ELSE Tilde(n, Min(tails))

Alias(s, dir, n) == IF n \in ShortNames THEN n ELSE UniqueAlias(s, dir, n)

\* The first of n slots in a row that are free, if there are as many.
Runs(slots, n) ==
  {i \in 1 .. Len(slots) - n + 1 : \A j \in i .. i + n - 1 : slots[j] \in {Zero, Deleted}}

\* The scan of link_entry: the directory grows until it has a run.
RunsIn(s, dir, n) == With(Slots(s.d, Chain(s.t, dir)), LAMBDA slots : Runs(slots, n))

MakeRoom(s, dir, n) ==
  Then(IF RunsIn(s, dir, n) # {} THEN s
       ELSE Extend([s EXCEPT !.got = Last(Chain(s.t, dir))], 1),
       LAMBDA u : [u EXCEPT !.at = <<dir, Min(RunsIn(u, dir, n))>>])

SetEntry(s, i, x) == SetSlot(s, Place(Chain(s.t, s.at[1]), s.at[2] + i), x)

WriteLongName(s, n, alias) ==
  Each(s, [i \in 1 .. Parts[n] |-> i], LAMBDA u, i :
    SetEntry(u, i - 1, Long(n, Parts[n] - i + 1, alias)))

\* A new directory gets its cluster between its long name and its entry.
NewDirCluster(s) ==
  Then(TakeFirst(s), LAMBDA u : IF u.fsinfo.free = Unknown THEN u ELSE UpdateFsinfo(u))

WriteEntry(s, n, alias, e) ==
  Then(WriteLongName(s, n, alias), LAMBDA u :
    Then(IF e.dir /\ e.start = FREE THEN NewDirCluster(u) ELSE [u EXCEPT !.got = e.start],
         LAMBDA v : SetEntry(v, Parts[n], Short(alias, e.dir, v.got, e.size))))

LinkIn(s, parent, n, e) ==
  With(Alias(s, parent.start, n), LAMBDA alias :
    IF alias = "" THEN Fail(s, "full")
    ELSE Then(MakeRoom(s, parent.start, Parts[n] + 1), LAMBDA u : WriteEntry(u, n, alias, e)))

CanLink(s, p) ==
  /\ p # <<>> /\ Find(s.t, s.d, p) = NoEntry
  /\ Find(s.t, s.d, Front(p)) # NoEntry /\ Find(s.t, s.d, Front(p)).dir

LinkEntry(s, p, e) ==
  IF CanLink(s, p) THEN LinkIn(s, Find(s.t, s.d, Front(p)), Last(p), e)
  ELSE Fail(s, "failed")

\* The long-name slots before slot i that carry its checksum, backwards.
LongRun(slots, i) ==
  LET own(j) == slots[j].kind = "long" /\ slots[j].sum = slots[i].alias
  IN  {j \in 1 .. i - 1 : \A k \in j .. i - 1 : own(k)}

Erase(s, chain, i) == SetSlot(s, Place(chain, i), Deleted)

UnlinkEntry(s, e) ==
  With(Chain(s.t, e.in), LAMBDA chain :
    With(Slots(s.d, chain), LAMBDA slots :
      Then(Each(s, [k \in 1 .. Cardinality(LongRun(slots, e.pos)) |-> e.pos - k],
                LAMBDA u, i : Erase(u, chain, i)),
           LAMBDA u : Erase(u, chain, e.pos))))

\* Mutant: the clusters are freed while the entry still names them.
DeleteClustersFirst(s, e) == Then(ReleaseChain(s, e.start), LAMBDA u : UnlinkEntry(u, e))

DeleteEntry(s, e) == Then(UnlinkEntry(s, e), LAMBDA u : ReleaseChain(u, e.start))

-----------------------------------------------------------------------------
(* Writing to a file *)

FirstCluster(s) ==
  Then(TakeFirst(s), LAMBDA u :
    [ClearCluster(UpdateFsinfo(u), u.got) EXCEPT !.h.start = u.got])

\* The chain goes on from the cluster that the recorded size makes the last.
GrowFrom(s, chain, current, needed) ==
  IF current > Len(chain) THEN Fail(s, "failed")
  ELSE Extend([s EXCEPT !.got = chain[Max({current, 1})]], needed - current)

Grow(s, current, needed) ==
  IF needed <= current THEN s
  ELSE IF s.h.start = FREE THEN Then(FirstCluster(s), LAMBDA u : Extend(u, needed - 1))
  ELSE With(Chain(s.t, s.h.start), LAMBDA chain : GrowFrom(s, chain, current, needed))

\* The k-th cluster of the file, with the part of data that falls in it.
Patched(x, k, pos, data) ==
  [i \in 1 .. S |-> IF k * S + i - pos \in 1 .. Len(data) THEN data[k * S + i - pos] ELSE x[i]]

PutData(s, chain, data) ==
  LET first == s.h.wpos \div S
      last == (s.h.wpos + Len(data) - 1) \div S
  IN  IF last >= Len(chain) THEN Fail(s, "failed")
      ELSE Each(s, [i \in 1 .. last - first + 1 |-> first + i - 1], LAMBDA u, k :
             SetSector(u, chain[k + 1], Patched(u.d[chain[k + 1]], k, s.h.wpos, data)))

Advanced(s, n) ==
  [s EXCEPT !.h.wpos = @ + n, !.h.size = Max({@, s.h.wpos + n}), !.h.dirty = TRUE]

\* The size and start of the file go to its directory entry.
FlushEntry(s) ==
  SetSlot(s, s.h.at, [s.d[s.h.at.at][s.h.at.slot] EXCEPT !.start = s.h.start, !.size = s.h.size])

Write(s, data) ==
  Then(Grow(s, Ceil(s.h.size), Ceil(s.h.wpos + Len(data))), LAMBDA u :
    Then(With(Chain(u.t, u.h.start), LAMBDA chain : PutData(u, chain, data)), LAMBDA v :
      Then(Advanced(v, Len(data)), FlushEntry)))

-----------------------------------------------------------------------------
(* The operations of picocalc_storage.c *)

Stale(h) == handle[h].gen # gen
Live(h) == handle[h] # Closed /\ ~Stale(h)

\* The program neither erases nor moves what it has open, nor opens it
\* twice.  Nothing in the driver keeps it from doing so.
InUse(p) == \E h \in Handles : Live(h) /\ IsPrefix(p, handle[h].path)
Opened(p) == \E h \in Handles : handle[h].path = p

\* The operations that look for a card mount it first.
Mounts == {"open", "delete", "rename", "mkdir", "rmdir"}

Ran(req, s) ==
  /\ script' = s.log /\ fsinfo' = s.fsinfo /\ mounted' = (mounted \/ req.op \in Mounts)
  /\ request' = req /\ answer' = s.err
  /\ full' = (full \/ s.err = "full") /\ ops' = ops + 1
  /\ UNCHANGED <<disk, gen>>

Ready == script = <<>> /\ ops < MaxOps

RunOn(h, req, work) ==
  Ready /\ \E s \in {work} : Ran(req, s) /\ handle' = [handle EXCEPT ![h] = s.h]

Run(req, work) == Ready /\ \E s \in {work} : Ran(req, s) /\ UNCHANGED handle

Idle == Start(Closed)
Refused == Fail(Idle, "failed")
Old(p) == Find(fat[1], sec, p)

OpenOld(p, e) ==
  IF e.dir THEN Refused
  ELSE [Idle EXCEPT !.h = [path |-> p, at |-> Place(Chain(fat[1], e.in), e.pos), start |-> e.start,
                           size |-> e.size, wpos |-> e.size, gen |-> gen, dirty |-> FALSE]]

OpenNew(p) ==
  Then(LinkEntry(Idle, p, [dir |-> FALSE, start |-> FREE, size |-> 0]), LAMBDA u :
    [u EXCEPT !.h = [path |-> p, at |-> Place(Chain(u.t, u.at[1]), u.at[2] + Parts[Last(p)]),
                     start |-> FREE, size |-> 0, wpos |-> 0, gen |-> gen, dirty |-> FALSE]])

FileOpen(h, p) ==
  /\ handle[h] = Closed /\ ~Opened(p)
  /\ RunOn(h, [op |-> "open", h |-> h, path |-> p], 
       With(Old(p), LAMBDA e : IF e = NoEntry THEN OpenNew(p) ELSE OpenOld(p, e)))

WriteBytes(h, data) ==
  /\ handle[h] # Closed
  /\ RunOn(h, [op |-> "write", h |-> h, data |-> data],
       IF Stale(h) THEN Fail(Start(handle[h]), "failed") ELSE Write(Start(handle[h]), data))

SetWritePos(h, i) ==
  /\ handle[h] # Closed /\ i <= handle[h].size
  /\ RunOn(h, [op |-> "setpos", h |-> h, pos |-> i], [Start(handle[h]) EXCEPT !.h.wpos = i])

\* A stale handle is forgotten without touching the card.
Flushed(h) == IF handle[h].dirty /\ ~Stale(h) THEN FlushEntry(Start(handle[h])) ELSE Idle

FileClose(h) ==
  /\ handle[h] # Closed
  /\ RunOn(h, [op |-> "close", h |-> h], [Flushed(h) EXCEPT !.h = Closed])

FileDelete(p) ==
  /\ ~InUse(p)
  /\ Run([op |-> "delete", path |-> p],
       With(Old(p), LAMBDA e : IF e = NoEntry \/ e.dir THEN Refused ELSE DeleteEntry(Idle, e)))

\* A directory that moves gets the cluster of its new parent in "..".
FixParent(s, e) ==
  LET parent == IF s.at[1] = Root THEN FREE ELSE s.at[1]
      dotdot == s.d[e.start][2]
  IN  IF e.dir /\ s.at[1] # e.in /\ dotdot.kind = "short" /\ dotdot.alias = ".."
      THEN SetSlot(s, [at |-> e.start, slot |-> 2], [dotdot EXCEPT !.start = parent])
      ELSE s

\* Mutant: the old name goes before the new one is there.
RenamedUnlinkFirst(e, q) ==
  Then(UnlinkEntry(Idle, e), LAMBDA u :
    Then(LinkEntry(u, q, e), LAMBDA v : FixParent(v, e)))

Renamed(e, q) ==
  Then(LinkEntry(Idle, q, e), LAMBDA u :
    Then(FixParent(u, e), LAMBDA v : UnlinkEntry(v, e)))

Rename(p, q) ==
  /\ ~InUse(p)
  /\ Run([op |-> "rename", path |-> p, to |-> q], 
       With(Old(p), LAMBDA e : IF e = NoEntry THEN Refused ELSE Renamed(e, q)))

Dots(c, parent) ==
  [Zeros EXCEPT ![1] = Short(".", TRUE, c, 0),
                ![2] = Short("..", TRUE, IF parent = Root THEN FREE ELSE parent, 0)]

DirCreate(p) ==
  /\ Run([op |-> "mkdir", path |-> p],
       Then(LinkEntry(Idle, p, [dir |-> TRUE, start |-> FREE, size |-> 0]), LAMBDA u :
         SetSector(ClearCluster(u, u.got), u.got, Dots(u.got, u.at[1]))))

DirDelete(p) ==
  /\ Run([op |-> "rmdir", path |-> p],
       With(Old(p), LAMBDA e :
         IF e # NoEntry /\ e.dir /\ Entries(fat[1], sec, e.start) = {}
         THEN DeleteEntry(Idle, e) ELSE Refused))

FreeClusters == Cardinality({c \in Clusters : fat[1][c] = FREE})

FreeBlocks ==
  /\ Run([op |-> "free"],
       IF ~mounted THEN Refused
       ELSE IF fsinfo.free \in 0 .. Cardinality(Clusters) THEN Idle
       ELSE UpdateFsinfo([Idle EXCEPT !.fsinfo.free = FreeClusters]))

\* The card is out long enough for on_sd_card_detect to unmount it, and
\* comes back.  (fsinfo is read again when it is mounted; nothing reads it
\* before.)
RemoveCard ==
  /\ script = <<>> /\ mounted /\ gen < MaxGen
  /\ gen' = gen + 1 /\ mounted' = FALSE /\ fsinfo' = info
  /\ request' = [op |-> "remove"] /\ answer' = "ok"
  /\ UNCHANGED <<disk, handle, script, full, ops>>

Applied(w) ==
  /\ fat' = IF w.do = "fat" THEN [fat EXCEPT ![w.copy][w.at] = w.val] ELSE fat
  /\ sec' = IF w.do = "sector" THEN [sec EXCEPT ![w.at] = w.val] ELSE sec
  /\ info' = IF w.do = "info" THEN w.val ELSE info

Advance ==
  /\ script # <<>>
  /\ Applied(Head(script)) /\ script' = Tail(script)
  /\ UNCHANGED <<fsinfo, handle, gen, mounted, request, answer, full, ops>>

Next ==
  \/ \E h \in Handles, p \in Paths : FileOpen(h, p)
  \/ \E h \in Handles, data \in Chunks : WriteBytes(h, data)
  \/ \E h \in Handles, i \in Positions : SetWritePos(h, i)
  \/ \E h \in Handles : FileClose(h)
  \/ \E p \in Paths : FileDelete(p)
  \/ \E m \in Moves : Rename(m[1], m[2])
  \/ \E p \in Paths : DirCreate(p)
  \/ \E p \in Paths : DirDelete(p)
  \/ FreeBlocks
  \/ RemoveCard
  \/ Advance

\* A card as it is formatted: the root is an empty directory.
Formatted(free) ==
  [t |-> [c \in Clusters |-> IF c = Root THEN EOC ELSE FREE], d |-> [c \in Clusters |-> Zeros],
   fsinfo |-> free, h |-> Closed, log |-> <<>>, got |-> FREE, at |-> <<>>, err |-> "ok"]

Init ==
  /\ \E c \in Cards :
       fat = [k \in 1 .. NumFats |-> c.t] /\ sec = c.d /\ info = c.fsinfo /\ fsinfo = c.fsinfo
  /\ handle = [h \in Handles |-> Closed]
  /\ gen = 0 /\ mounted = FALSE /\ script = <<>> /\ request = [op |-> "remove"] /\ answer = "ok"
  /\ full = FALSE /\ ops = 0

Spec == Init /\ [][Next]_vars

-----------------------------------------------------------------------------
(* What is on a card *)

\* A directory just made, or a cluster just added to one, is not read before
\* it is zeroed: what a power loss in between leaves there is not modelled.
Unformatted == {script[i].at : i \in {j \in DOMAIN script : script[j].do = "sector" /\ script[j].val = Zeros}}

DirSlots(t, d, first, skip) == Slots(d, SelectSeq(Chain(t, first), LAMBDA c : c \notin skip))

Below(t, d, x, skip) ==
  With(DirSlots(t, d, x.e.start, skip), LAMBDA slots :
    {[path |-> Append(x.path, e.name), e |-> e] : e \in Listing(slots, x.e.start)})

\* Every entry with its path.
Located(t, d, skip) ==
  LET to[k \in 0 .. Depth] ==
        IF k = 0 THEN Below(t, d, [path |-> <<>>, e |-> RootEntry], skip)
        ELSE With(to[k - 1], LAMBDA found : found \cup UNION {Below(t, d, x, skip) :
               x \in {y \in found : y.e.dir /\ Len(y.path) = k}})
  IN  to[Depth - 1]

Contents(slots, n) == [i \in 1 .. n |-> IF i <= Len(slots) THEN slots[i] ELSE Zero]

Node(t, d, e) == [dir |-> e.dir, data |-> With(Slots(d, Chain(t, e.start)), LAMBDA slots : Contents(slots, e.size))]

TreeOf(t, d, located) ==
  [p \in {x.path : x \in located} |-> Node(t, d, (CHOOSE x \in located : x.path = p).e)]

Tree(t, d, skip) == With(Located(t, d, skip), LAMBDA located : TreeOf(t, d, located))

\* The card after the rest of the script.
Later(c, w) ==
  CASE w.do = "fat" /\ w.copy = 1 -> [c EXCEPT !.t[w.at] = w.val]
    [] w.do = "sector" -> [c EXCEPT !.d[w.at] = w.val]
    [] OTHER -> c
TreeIn(c) == Tree(c.t, c.d, {})

tree == Tree(fat[1], sec, Unformatted)
goal ==
  With(FoldLeft(LAMBDA c, w : With(c, LAMBDA x : Later(x, w)), [t |-> fat[1], d |-> sec], script), TreeIn)
open == [h \in Handles |->
          IF handle[h] = Closed THEN Closed
          ELSE IF Stale(h) THEN [path |-> <<>>, pos |-> -1]
          ELSE [path |-> handle[h].path, pos |-> handle[h].wpos]]

Volume == INSTANCE Volume WITH Blank <- Zero

\* The driver implements the volume: each operation does to the tree what
\* its name says and nothing else, whatever clusters it takes, frees and
\* reuses, and at every write on the way each file is old or new.
ImplementsVolume == Volume!Spec

-----------------------------------------------------------------------------
(* Properties *)

TypeOK ==
  /\ fat \in [1 .. NumFats -> [Clusters -> {FREE, EOC} \cup Clusters]]
  /\ DOMAIN sec = Clusters /\ \A c \in Clusters : DOMAIN sec[c] = 1 .. S
  /\ info.free \in {Unknown} \cup 0 .. Cardinality(Clusters)
  /\ info.next \in {Unknown} \cup Clusters
  /\ fsinfo.free \in {Unknown} \cup 0 .. Cardinality(Clusters)
  /\ fsinfo.next \in {Unknown} \cup Clusters
  /\ mounted \in BOOLEAN
  /\ (\E h \in Handles : Live(h)) => mounted
  /\ gen \in 0 .. MaxGen /\ ops \in 0 .. MaxOps

\* The clusters of an entry that its recorded size covers; of a directory
\* all that are formatted.
Recorded(e) ==
  LET chain == Chain(fat[1], e.start)
  IN  IF e.dir THEN ToSet(chain) \ Unformatted
      ELSE {chain[i] : i \in 1 .. Min({Len(chain), Ceil(e.size)})}

Whole(e) == e.dir \/ Len(Chain(fat[1], e.start)) >= Ceil(e.size)

\* At every write of every operation the clusters of what is recorded are
\* there, marked as used, and no two files share one; for a moment of a
\* rename a file has two names.
RecordedIntactIn(located) ==
  /\ \A x \in located : Whole(x.e) /\ \A c \in Recorded(x.e) : fat[1][c] # FREE
  /\ \A x, y \in located : x # y =>
       \/ Recorded(x.e) \cap Recorded(y.e) = {}
       \/ x.e.start = y.e.start /\ script # <<>>
RecordedIntact ==
  TypeOK /\ With(Located(fat[1], sec, Unformatted), RecordedIntactIn)

\* Nothing is on the card that belongs to nobody.
Owned(located) ==
  ToSet(Chain(fat[1], Root)) \cup UNION {ToSet(Chain(fat[1], x.e.start)) : x \in located}
Used == {c \in Clusters : fat[1][c] # FREE}

Knows(h, located) ==
  \E x \in located : /\ x.path = handle[h].path
                     /\ x.e.start = handle[h].start /\ x.e.size = handle[h].size

AtRestIn(located) ==
  /\ \A k \in 1 .. NumFats : fat[k] = fat[1]
  /\ fsinfo = info /\ fsinfo.free \in {Unknown, FreeClusters}
  /\ ~full => Used = Owned(located) /\ \A h \in Handles : Live(h) => Knows(h, located)
  /\ \A c \in Clusters : fat[1][c] \in Clusters => fat[1][fat[1][c]] # FREE
  /\ \A x, y \in located : x # y /\ x.e.in = y.e.in =>
       x.e.name # y.e.name /\ x.e.alias # y.e.alias
AtRest == script = <<>> => With(Located(fat[1], sec, {}), AtRestIn)

=============================================================================
