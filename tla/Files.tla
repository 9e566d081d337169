------------------------------- MODULE Files -------------------------------
(***************************************************************************)
(* The files of a program: the stream table, reader, writer, dribble and   *)
(* prefix of devices/io.c, the router that joins the internal flash (the   *)
(* root) and the card (/sd), and the file primitives on top of them.       *)
(*                                                                         *)
(* A file is a sequence of chunks: what one read or write moves.  What is  *)
(* written to the card is there at once; what is written to the root is in *)
(* the stream until a flush or the close.  Any write may find the disk     *)
(* full, and the card may be pulled between any two calls of a back end.   *)
(* No directory is made or erased: files are at the top of each volume.    *)
(***************************************************************************)
EXTENDS Integers, Sequences, FiniteSets, SequencesExt

CONSTANTS
  Fold,          \* the lower case of each component: the card ignores case
  Words,         \* the path names the program uses: [abs, parts]
  DribbleWords, PrefixWords,
  Chunks,        \* what files are made of and print writes
  Workspace,     \* what save writes
  MaxOpen,       \* LOGO_MAX_OPEN_FILES
  LateErrors,    \* whether the root can find only at a flush that it is full
  Disks,         \* the contents to begin with
  MaxLen,        \* bound: chunks in a file that is written to
  MaxGen,        \* bound: times the card is pulled
  MaxOps         \* bound: commands

ASSUME FilesAssumption ==
  /\ MaxOpen \in Nat \ {0} /\ MaxLen \in Nat /\ MaxGen \in Nat /\ MaxOps \in Nat
  /\ LateErrors \in BOOLEAN /\ Workspace \in Seq(Chunks)
  /\ \A d \in Disks : \A k \in DOMAIN d : d[k] \in Seq(Chunks)

VARIABLES
  disk,          \* file |-> contents, on both volumes
  card,          \* whether the card is in
  gen,           \* fat32_generation_counter
  table,         \* open_streams
  count,         \* open_count
  reader, writer,\* the slot of the stream, 0 for the console
  dribble,
  prefix,
  loading,       \* the load in progress: its input and its stream's slot
  job,           \* the copy, move or save in progress
  said,          \* auxiliary: the copy, move or print that just ended
  ops            \* auxiliary: the commands so far

volumes == <<disk, card, gen>>
streams == <<table, count, reader, writer, dribble>>
vars == <<volumes, streams, prefix, loading, job, said, ops>>

Slots == 1 .. MaxOpen
Console == 0
None == [op |-> "none"]
Free == [name |-> <<>>]

-----------------------------------------------------------------------------
(* Names *)

\* ".." at the start stays in a relative name, and is gone in an absolute one.
Step(abs, parts, c) ==
  CASE c = "." -> parts
    [] c = ".." /\ parts # <<>> -> Front(parts)
    [] c = ".." /\ parts = <<>> -> IF abs THEN <<>> ELSE <<c>>
    [] OTHER -> Append(parts, c)
Normal(n) == [n EXCEPT !.parts = FoldLeft(LAMBDA parts, c : Step(n.abs, parts, c), <<>>, n.parts)]

\* The prefix is empty to begin with: then a relative name stays relative.
Resolve(w) == Normal(IF w.abs THEN w ELSE [abs |-> prefix.abs, parts |-> prefix.parts \o w.parts])

OnCard(n) == n.abs /\ n.parts # <<>> /\ Fold[Head(n.parts)] = "sd"
Key(n) == IF OnCard(n) THEN [vol |-> "card", parts |-> [i \in DOMAIN n.parts |-> Fold[n.parts[i]]]]
                       ELSE [vol |-> "root", parts |-> n.parts]
Reachable(n) == OnCard(n) => card

DirExists(n) == n.parts = <<>> \/ (OnCard(n) /\ Len(n.parts) = 1 /\ card)
FileExists(n) == Reachable(n) /\ Key(n) \in DOMAIN disk
CanOpen(n) == Reachable(n) /\ Len(n.parts) = (IF OnCard(n) THEN 2 ELSE 1)

-----------------------------------------------------------------------------
(* A stream and the file under it *)

Stale(h) == OnCard(h.name) /\ h.gen # gen

\* Opening a file that is not there makes it.
Created(d, n) == IF Key(n) \in DOMAIN d THEN d ELSE [k \in DOMAIN d \cup {Key(n)} |-> IF k = Key(n) THEN <<>> ELSE d[k]]
Fresh(d, n) ==
  LET data == Created(d, n)[Key(n)]
  IN  [name |-> n, gen |-> IF OnCard(n) THEN gen ELSE 0, rpos |-> 0, wpos |-> Len(data),
       buf |-> IF OnCard(n) THEN <<>> ELSE data,
       dirty |-> FALSE, err |-> FALSE, bad |-> FALSE, lost |-> FALSE]

View(d, h) == IF OnCard(h.name) THEN d[Key(h.name)] ELSE h.buf
AtEnd(d, h) == h.rpos >= Len(View(d, h))
Overlay(s, pos, c) == SubSeq(s, 1, pos) \o <<c>> \o SubSeq(s, pos + 2, Len(s))

Refused(h) == [h EXCEPT !.err = TRUE, !.bad = TRUE]

\* ok: the volume has room.  A root stream with an error (bad) is not written back
\* when it closes, nor one with nothing written since it was last (dirty).
WriteBytes(d, h, c, ok) ==
  IF Stale(h) \/ ~ok THEN [d |-> d, h |-> Refused(h)]
  ELSE LET after == Overlay(View(d, h), h.wpos, c)
       IN  IF OnCard(h.name)
           THEN [d |-> [d EXCEPT ![Key(h.name)] = after], h |-> [h EXCEPT !.wpos = @ + 1]]
           ELSE [d |-> d, h |-> [h EXCEPT !.wpos = @ + 1, !.buf = after, !.dirty = TRUE, !.bad = FALSE]]

\* A root stream whose file was erased or moved keeps its data to itself.
Commit(d, h) == IF h.lost THEN d ELSE [d EXCEPT ![Key(h.name)] = h.buf]

Late == IF LateErrors THEN BOOLEAN ELSE {TRUE}

\* Mutant: the root is not flushed.
FlushNothing(d, h, ok) == [d |-> d, h |-> h]

\* With nothing to write there is nothing to fail: an error before is forgotten.
Flush(d, h, ok) ==
  CASE OnCard(h.name) -> [d |-> d, h |-> h]
    [] ~OnCard(h.name) /\ ~h.dirty -> [d |-> d, h |-> [h EXCEPT !.bad = FALSE]]
    [] ~OnCard(h.name) /\ h.dirty /\ ok ->
         [d |-> Commit(d, h), h |-> [h EXCEPT !.dirty = FALSE, !.bad = FALSE]]
    [] OTHER -> [d |-> d, h |-> Refused(h)]

WritesBack(h, ok) == ~OnCard(h.name) /\ h.dirty /\ ~h.bad /\ ok
CloseStream(d, h, ok) == IF WritesBack(h, ok) THEN Commit(d, h) ELSE d

\* What erasing or replacing a root file does to the streams open on it.
Orphan(h, ks) == IF h # Free /\ ~OnCard(h.name) /\ Key(h.name) \in ks THEN [h EXCEPT !.lost = TRUE] ELSE h
Lose(ks) == table' = [s \in Slots |-> Orphan(table[s], ks)] /\ dribble' = Orphan(dribble, ks)

\* The program does not erase, move or copy over what it has open on the
\* card: fat32.c does not keep it from it, and the clusters would be shared.
InUse(n) == OnCard(n) /\ \E h \in {table[s] : s \in Slots} \cup {dribble} :
              h # Free /\ ~Stale(h) /\ Key(h.name) = Key(n)

-----------------------------------------------------------------------------
(* The stream table *)

SlotsOf(n) == {s \in Slots : table[s] # Free /\ table[s].name = n}
SlotOf(n) == CHOOSE s \in SlotsOf(n) : \A t \in SlotsOf(n) : s <= t
FirstFree == CHOOSE s \in Slots : table[s] = Free /\ \A t \in 1 .. s - 1 : table[t] # Free
Handle(s) == IF s = Console THEN Free ELSE table[s]

\* logo_io_open: s is the slot of the stream, the one it has or a new one.
Enter(n, s) ==
  /\ count < MaxOpen
  /\ \/ SlotsOf(n) # {} /\ s = SlotOf(n) /\ UNCHANGED <<disk, table, count>>
     \/ /\ SlotsOf(n) = {} /\ CanOpen(n) /\ s = FirstFree
        /\ disk' = Created(disk, n) /\ count' = count + 1
        /\ table' = [table EXCEPT ![s] = Fresh(disk, n)]

\* Mutant: the reader and the writer keep what was closed.
UnlessForgotten(s, gone) == s

Unless(s, gone) == IF s \in gone THEN Console ELSE s

\* logo_io_close, with w as the writer it finds.
Leave(n, w) ==
  IF SlotsOf(n) = {} THEN UNCHANGED <<disk, table, count, reader>> /\ writer' = w
  ELSE \E s \in {SlotOf(n)}, ok \in Late :
         /\ disk' = CloseStream(disk, table[s], ok)
         /\ table' = [table EXCEPT ![s] = Free] /\ count' = count - 1
         /\ reader' = Unless(reader, {s}) /\ writer' = Unless(w, {s})

-----------------------------------------------------------------------------
(* The primitives that are one call *)

Ready == job = None /\ ops < MaxOps /\ ops' = ops + 1 /\ UNCHANGED <<card, gen, loading>>
Command == Ready /\ UNCHANGED job
Quiet == said' = None

Open(w) ==
  /\ Command /\ Quiet /\ SlotsOf(Resolve(w)) = {}
  /\ \E s \in Slots : Enter(Resolve(w), s)
  /\ UNCHANGED <<reader, writer, dribble, prefix>>

Close(w) ==
  /\ Command /\ Quiet /\ SlotsOf(Resolve(w)) # {}
  /\ Leave(Resolve(w), writer) /\ UNCHANGED <<dribble, prefix>>

\* The slots are closed in order: of those that write a file back the last
\* decides what it holds.
Closes(k, ok) ==
  {s \in Slots : table[s] # Free /\ WritesBack(table[s], ok[s]) /\ ~table[s].lost /\ Key(table[s].name) = k}
LastOf(slots) == CHOOSE s \in slots : \A t \in slots : t <= s

CloseAll ==
  /\ Command /\ Quiet /\ count > 0
  /\ \E ok \in [Slots -> Late] :
       disk' = [k \in DOMAIN disk |-> IF Closes(k, ok) = {} THEN disk[k] ELSE table[LastOf(Closes(k, ok))].buf]
  /\ table' = [s \in Slots |-> Free] /\ count' = 0
  /\ reader' = Console /\ writer' = Console /\ UNCHANGED <<dribble, prefix>>

\* The slots that setread and setwrite can name: the console and what is open.
Selectable == {Console} \cup {s \in Slots : table[s] # Free}

SetRead ==
  /\ Command /\ Quiet /\ reader' \in Selectable
  /\ UNCHANGED <<disk, table, count, writer, dribble, prefix>>

SetWrite ==
  /\ Command /\ Quiet /\ writer' \in Selectable
  /\ UNCHANGED <<disk, table, count, reader, dribble, prefix>>

\* A stale stream only reports errors; what its positions are is no matter.
Live(s) == s # Console /\ ~Stale(table[s])

SetReadPos(pos) ==
  /\ Command /\ Quiet /\ Live(reader) /\ pos <= Len(View(disk, table[reader]))
  /\ table' = [table EXCEPT ![reader].rpos = pos]
  /\ UNCHANGED <<disk, count, reader, writer, dribble, prefix>>

SetWritePos(pos) ==
  /\ Command /\ Quiet /\ Live(writer) /\ pos <= Len(View(disk, table[writer]))
  /\ table' = [table EXCEPT ![writer].wpos = pos]
  /\ UNCHANGED <<disk, count, reader, writer, dribble, prefix>>

Read ==
  /\ Command /\ Quiet /\ Live(reader) /\ ~AtEnd(disk, table[reader])
  /\ table' = [table EXCEPT ![reader].rpos = @ + 1]
  /\ UNCHANGED <<disk, count, reader, writer, dribble, prefix>>

\* A write that is flushed at once, to the console or a stream.
Written(d, h, c, ok, late) ==
  IF h = Free THEN [d |-> d, h |-> h]
  ELSE LET w == WriteBytes(d, h, c, ok) IN Flush(w.d, w.h, late)

\* Whether there is room for a write: at the bound there is none.
Outcomes(h) ==
  CASE h = Free -> {TRUE}
    [] h # Free /\ h.wpos < MaxLen -> BOOLEAN
    [] OTHER -> {FALSE}
Failed(h) == h # Free /\ h.err
Cleared(h) == IF h = Free THEN h ELSE [h EXCEPT !.err = FALSE]

\* print: to the writer and to the dribble file, then a look at the error
\* flags of both.
PrimPrint(c) ==
  /\ Command /\ (writer # Console \/ dribble # Free)
  /\ \E ok1 \in Outcomes(Handle(writer)), ok2 \in Outcomes(dribble), late1, late2 \in Late :
     \E w \in {Written(disk, Handle(writer), c, ok1, late1)} :
     \E b \in {Written(w.d, dribble, c, ok2, late2)} :
       /\ disk' = b.d /\ dribble' = Cleared(b.h)
       /\ table' = [s \in Slots |-> IF s = writer THEN Cleared(w.h) ELSE table[s]]
       /\ said' = [op |-> "print", chunk |-> c, ok |-> ~Failed(w.h) /\ ~Failed(b.h)]
  /\ UNCHANGED <<count, reader, writer, prefix>>

Dribble(w) ==
  /\ Command /\ Quiet /\ dribble = Free /\ CanOpen(Resolve(w))
  /\ disk' = Created(disk, Resolve(w)) /\ dribble' = Fresh(disk, Resolve(w))
  /\ UNCHANGED <<table, count, reader, writer, prefix>>

NoDribble ==
  /\ Command /\ Quiet /\ dribble # Free /\ dribble' = Free
  /\ \E ok \in Late : disk' = CloseStream(disk, dribble, ok)
  /\ UNCHANGED <<table, count, reader, writer, prefix>>

SetPrefix(w) ==
  /\ Command /\ Quiet /\ DirExists(Resolve(w)) /\ prefix' = Resolve(w)
  /\ UNCHANGED <<disk, streams>>

Without(d, k) == [j \in DOMAIN d \ {k} |-> d[j]]

EraseFile(w) ==
  \E n \in {Resolve(w)} :
    /\ Command /\ Quiet /\ FileExists(n) /\ ~InUse(n)
    /\ disk' = Without(disk, Key(n)) /\ Lose({Key(n)})
    /\ UNCHANGED <<count, reader, writer, prefix>>

\* Within a volume: the root replaces what has the new name, the card refuses.
Rename(w, v) ==
  LET n == Resolve(w)  m == Resolve(v) IN
    /\ Command /\ Quiet /\ OnCard(n) = OnCard(m) /\ Key(n) # Key(m)
    /\ FileExists(n) /\ ~DirExists(m) /\ ~InUse(n)
    /\ OnCard(m) => ~FileExists(m)
    /\ disk' = [k \in (DOMAIN disk \cup {Key(m)}) \ {Key(n)} |-> IF k = Key(m) THEN disk[Key(n)] ELSE disk[k]]
    /\ Lose({Key(n), Key(m)}) /\ UNCHANGED <<count, reader, writer, prefix>>

-----------------------------------------------------------------------------
(* copyfile and a move between the volumes.  The two streams are the       *)
(* primitive's own and not in the table.                                   *)

Report(ok) == job' = None /\ said' = [op |-> job.op, src |-> job.src, dst |-> job.dst, was |-> job.was, ok |-> ok]
Onward(at) == job' = [job EXCEPT !.at = at]

ClearDestination(m) ==
  IF FileExists(m) THEN disk' = Without(disk, Key(m)) /\ Lose({Key(m)})
  ELSE UNCHANGED <<disk, table, dribble>>

Transfer(op, n, m) ==
  /\ Ready /\ Quiet /\ FileExists(n) /\ ~DirExists(m) /\ ~InUse(m)
  /\ ClearDestination(m)
  /\ job' = [op |-> op, src |-> n, dst |-> m, was |-> disk[Key(n)], at |-> "open", in |-> Free, out |-> Free]
  /\ UNCHANGED <<count, reader, writer, prefix>>

\* A copy onto the same name does nothing.
CopyFile(w, v) ==
  LET n == Resolve(w)  m == Resolve(v) IN n # m /\ Transfer("copy", n, m)

Move(w, v) ==
  LET n == Resolve(w)  m == Resolve(v) IN
    OnCard(n) # OnCard(m) /\ ~InUse(n) /\ Transfer("move", n, m)

Running(at) ==
  /\ job.op \in {"copy", "move"} /\ job.at = at
  /\ UNCHANGED <<card, gen, count, reader, writer, prefix, loading, ops>>

TransferOpen ==
  /\ Running("open") /\ UNCHANGED <<table, dribble>>
  /\ \/ ~CanOpen(job.src) /\ UNCHANGED disk /\ Report(FALSE)
     \/ /\ CanOpen(job.src)
        /\ \E d \in {Created(disk, job.src)} :
             \/ disk' = d /\ Report(FALSE)
             \/ /\ CanOpen(job.dst) /\ disk' = Created(d, job.dst) /\ said' = None
                /\ job' = [job EXCEPT !.at = "copy", !.in = Fresh(d, job.src), !.out = Fresh(d, job.dst)]

\* Mutant: logo_stream_copy does not look at the error flag.
AfterChunkBlind(h) == "copy"

AfterChunk(h) == IF h.err THEN "undo" ELSE "copy"

\* One turn of the loop of logo_stream_copy, or its end.
TransferChunk ==
  /\ Running("copy") /\ UNCHANGED <<table, dribble>> /\ said' = None
  /\ \/ Stale(job.in) /\ Onward("undo") /\ UNCHANGED disk
     \/ /\ ~Stale(job.in) /\ AtEnd(disk, job.in)
        /\ \E late \in Late : \E f \in {Flush(disk, job.out, late)} :
             disk' = f.d /\ job' = [job EXCEPT !.out = f.h, !.at = "close"]
     \/ /\ ~Stale(job.in) /\ ~AtEnd(disk, job.in)
        /\ \E ok \in Outcomes(job.out) :
           \E w \in {WriteBytes(disk, job.out, View(disk, job.in)[job.in.rpos + 1], ok)} :
             disk' = w.d /\ job' = [job EXCEPT !.out = w.h, !.in.rpos = @ + 1, !.at = AfterChunk(w.h)]

TransferClose ==
  /\ Running("close") /\ UNCHANGED <<table, dribble>>
  /\ \E ok \in Late : disk' = CloseStream(disk, job.out, ok)
  /\ IF job.op = "copy" THEN Report(TRUE) ELSE Onward("drop") /\ said' = None

\* The copy failed: what there is of the destination goes.
TransferUndo ==
  /\ Running("undo") /\ Report(FALSE)
  /\ ClearDestination(job.dst)

MoveDrop ==
  /\ Running("drop") /\ Report(FileExists(job.src))
  /\ ClearDestination(job.src)

-----------------------------------------------------------------------------
(* save and load *)

\* What is written while the file is made is not looked at until a print.
Save(w) ==
  \E n \in {Resolve(w)} : \E s \in Slots :
    /\ Ready /\ Quiet /\ ~FileExists(n) /\ Enter(n, s) /\ writer' = s
    /\ job' = [op |-> "save", name |-> n, old |-> writer, left |-> Workspace]
    /\ UNCHANGED <<reader, dribble, prefix>>

SaveChunk ==
  /\ job.op = "save" /\ job.left # <<>> /\ Quiet
  /\ \E ok1 \in Outcomes(table[writer]), ok2 \in Outcomes(dribble) :
     \E w \in {WriteBytes(disk, table[writer], Head(job.left), ok1)} :
     \E b \in {IF dribble = Free THEN [d |-> w.d, h |-> Free] ELSE WriteBytes(w.d, dribble, Head(job.left), ok2)} :
       disk' = b.d /\ table' = [table EXCEPT ![writer] = w.h] /\ dribble' = b.h
  /\ job' = [job EXCEPT !.left = Tail(@)]
  /\ UNCHANGED <<card, gen, count, reader, writer, prefix, loading, ops>>

SaveEnd ==
  /\ job.op = "save" /\ job.left = <<>> /\ Quiet
  /\ Leave(job.name, job.old) /\ job' = None
  /\ UNCHANGED <<card, gen, dribble, prefix, loading, ops>>

\* The lines of the file are commands: any of them may run while it loads,
\* but another load.
Load(w) ==
  \E n \in {Resolve(w)} : \E s \in Slots :
    /\ job = None /\ loading = None /\ ops < MaxOps /\ ops' = ops + 1 /\ Quiet
    /\ FileExists(n) /\ Enter(n, s) /\ loading' = [op |-> "load", word |-> w, slot |-> s]
    /\ UNCHANGED <<card, gen, reader, writer, dribble, prefix, job>>

\* The load keeps a pointer to its stream: once the program has closed that,
\* what the pointer finds is a stream opened since, or nothing.
LoadLine ==
  /\ job = None /\ loading # None /\ Quiet
  /\ table[loading.slot] # Free /\ Live(loading.slot) /\ ~AtEnd(disk, table[loading.slot])
  /\ table' = [table EXCEPT ![loading.slot].rpos = @ + 1]
  /\ UNCHANGED <<volumes, count, reader, writer, dribble, prefix, loading, job, ops>>

\* At the end, or at the first error: the name is resolved once more.
LoadEnd ==
  /\ job = None /\ loading # None /\ Quiet
  /\ Leave(Resolve(loading.word), writer) /\ loading' = None
  /\ UNCHANGED <<card, gen, dribble, prefix, job, ops>>

-----------------------------------------------------------------------------
(* The card: pulled at any time, put back between two commands *)

Eject ==
  /\ card /\ gen < MaxGen /\ card' = FALSE /\ gen' = gen + 1 /\ Quiet
  /\ UNCHANGED <<disk, streams, prefix, loading, job, ops>>

Insert ==
  /\ ~card /\ job = None /\ card' = TRUE /\ Quiet
  /\ UNCHANGED <<disk, gen, streams, prefix, loading, job, ops>>

-----------------------------------------------------------------------------
Init ==
  /\ disk \in Disks /\ card = TRUE /\ gen = 0
  /\ table = [s \in Slots |-> Free] /\ count = 0
  /\ reader = Console /\ writer = Console /\ dribble = Free
  /\ prefix = [abs |-> FALSE, parts |-> <<>>]
  /\ loading = None /\ job = None /\ said = None /\ ops = 0

Streams ==
  \/ \E w \in Words : Open(w) \/ Close(w)
  \/ CloseAll \/ SetRead \/ SetWrite \/ Read \/ \E c \in Chunks : PrimPrint(c)
  \/ \E pos \in 0 .. MaxLen : SetReadPos(pos) \/ SetWritePos(pos)
  \/ NoDribble \/ \E w \in DribbleWords : Dribble(w)

Names ==
  \/ \E w \in PrefixWords : SetPrefix(w)
  \/ \E w \in Words \cup DribbleWords : EraseFile(w)
  \/ \E w \in Words, v \in Words \cup DribbleWords : Rename(w, v)
  \/ \E w, v \in Words : CopyFile(w, v) \/ Move(w, v)

Jobs ==
  \/ TransferOpen \/ TransferChunk \/ TransferClose \/ TransferUndo \/ MoveDrop
  \/ SaveChunk \/ SaveEnd \/ \E w \in Words : Save(w)
  \/ LoadLine \/ LoadEnd \/ \E w \in Words : Load(w)

Next == Streams \/ Names \/ Jobs \/ Eject \/ Insert

Spec == Init /\ [][Next]_vars

-----------------------------------------------------------------------------
(* Properties *)

Handles == {h \in {table[s] : s \in Slots} \cup {dribble} : h # Free}

\* The state is well formed, and the cursors of a stream are within its file:
\* neither a failed write, nor a short file, nor another stream's write moves
\* one past the end.
TypeOK ==
  /\ \A k \in DOMAIN disk : disk[k] \in Seq(Chunks)
  /\ card \in BOOLEAN /\ gen \in 0 .. MaxGen /\ ops \in 0 .. MaxOps
  /\ table \in [Slots -> Handles \cup {Free}] /\ count \in 0 .. MaxOpen
  /\ reader \in {Console} \cup Slots /\ writer \in {Console} \cup Slots
  /\ \A h \in Handles : ~Stale(h) => h.rpos \in 0 .. Len(View(disk, h)) /\ h.wpos \in 0 .. Len(View(disk, h))

\* The reader, the writer and the writer that a save gives back are the
\* console or open streams, whatever is closed, by whom and in which order.
NoDangling ==
  /\ reader \in Selectable /\ writer \in Selectable
  /\ job.op = "save" => job.old \in Selectable

\* open_count counts the streams of the table, no file is in it twice under one
\* name, and nothing selected dangles, through open, save, load and closeall alike.
TableExact ==
  /\ TypeOK /\ NoDangling
  /\ count = Cardinality({s \in Slots : table[s] # Free})
  /\ \A s, t \in Slots : table[s] # Free /\ table[t] # Free /\ table[s].name = table[t].name => s = t

Holds(n, data) == Key(n) \in DOMAIN disk /\ disk[Key(n)] = data

\* storage_router.c, cross_fs_move: "On any failure the source is left intact
\* and a partial destination is removed, so the move is all-or-nothing": the
\* contents are never lost, wherever the copy fails and the card is pulled.
MoveKeeps ==
  /\ job.op = "move" => Holds(job.src, job.was)
  /\ said.op = "move" => Holds(IF said.ok THEN said.dst ELSE said.src, said.was)

\* The manual of copyfile: the original is left in place, and it is what the
\* copy holds when copyfile reports success.
CopyKeeps ==
  /\ job.op = "copy" => Holds(job.src, job.was)
  /\ said.op = "copy" => Holds(said.src, said.was) /\ (said.ok => Holds(said.dst, said.was))

\* Neither loses a file, whatever fails between its steps.
FilesKept == MoveKeeps /\ CopyKeeps

\* What a print that reports no error printed is on the disk, before the
\* position of the writer and of the dribble file.
PrintKept ==
  said.op = "print" /\ said.ok =>
    \A h \in {Handle(writer), dribble} \ {Free} :
      ~h.lost => h.wpos \in DOMAIN disk[Key(h.name)] /\ disk[Key(h.name)][h.wpos] = said.chunk
=============================================================================
