# A verification development of Pico Logo

Pico Logo is a Logo interpreter in C for the PicoCalc, a handheld with an
RP2350: one core, no operating system, one thread of Logo and a few interrupt
handlers. These modules model its core logic in TLA+: the memory, the tables and
the evaluator, the drivers, the files, the screen with its turtles and demons, the
console and the editor. TLC checks them on small instances, and for the memory manager,
the keyboard driver, the sound engine, the file table with its copies and moves, the
workspace, the text on the LCD, the history of lines, and the clocks and the addressing of the turtles
TLAPS proves what they promise for every value of the constants.

Run a model with `tlc -workers 2 -config MCMemory.cfg MCMemory`, check proofs
with `tlapm MemoryProofs.tla`. `PROJECT.json` maps the definitions to the lines
they model (a small helper is under the definition it serves) and lists the runs, the mutants (one for every property), the
hazards and the findings.

## 1. The system

| component | state it keeps | operations | what it talks to | what is hard |
|---|---|---|---|---|
| Memory (`core/memory.c`) | one block shared by the atom table (up from 0) and the cons cells (down from the top), hash buckets, free bins, a free list; a heap of long words apart | intern, cons, append, set first/rest, mark, sweep | everything that makes a value; `recycle` collects, nothing else does | long sequences of interning, collecting and reuse; two arenas meeting; roots that are missed |
| Evaluator (`core/eval*.c`) | an op stack, frames, one pending tail call, a token position per evaluator | parse and run instructions, defer user calls to a trampoline, tail calls | memory, frames, demons (polled between instructions), keyboard flags | deferral out of half-parsed expressions, tail position, unwinding after an error or throw |
| Frames and variables (`core/frame*.c`, `variables.c`) | a stack of frames in an arena of words, globals | push, reuse, add a local, pop, snapshot for pause | evaluator | an arena at its limit; pausing in the middle |
| Procedures, properties, workspace (`core/procedures.c`, `properties.c`, `primitives_workspace.c`) | tables of fixed size, bury flags | define, erase, print, `recycle` | memory (roots) | tables at their limit, redefinition of what is running |
| Demons (`core/demons.c`) | 8 slots of a condition, an action and its last truth value; frozen, polling and suspended flags | `when`, poll, freeze, suspend, reset | nested evaluators on the same stacks | actions that change the slots, pause, load or collect |
| REPL and control (`core/repl.c`, `primitives_control_reset.c`, `primitives_debug*.c`) | a line being collected, the pause depth | prompt, `to`, pause, `co`, stepping | evaluator, console | nesting: a pause in a demon in a load |
| Keyboard (`picocalc/keyboard.c`, `southbridge.c`) | a ring of characters, bitmaps of keys held and hit, flags for Brk, pause and freeze | drain the keyboard processor's FIFO from a timer or from the thread, `pollkeys`, `readchar` | the I2C bus, console, evaluator flags | two contexts that drain one FIFO |
| Sound (`picocalc/sound.c`, `primitives_sound.c`, `primitives_hardware.c`) | per voice an oscillator, an envelope and a queue of notes | `play`, `sound`, `toot`, `setenv`, `playing?`, `stopsound`; a DMA interrupt | evaluator (waits), demons | a queue filled by the thread and drained by an interrupt |
| FAT32 and SD card (`picocalc/fat32.c`, `sdcard.c`, `picocalc_storage.c`) | the mounted geometry, a free count, a sector buffer; file handles; the card itself | open, read, write, seek, delete, rename, mkdir, list | storage router; a timer that sees the card go | power or card lost between two sectors; errors half way |
| Storage router, streams, I/O (`devices/storage_router.c`, `stream.c`, `io.c`) | the table of open files, reader, writer, dribble, prefix | open, close, read, write, move between volumes | both volumes, the console, network connections | open-table identity, failure of a copy |
| littlefs volume (`devices/lfs_*.c`, `picocalc_flash.c`) | flash; the vendored littlefs holds the format | thin operations, image backup and restore | flash writes with interrupts masked | an image restore that fails |
| Words, lists, arithmetic, text, JSON (`core/primitives_*.c`, `format.c`) | none | pure functions of values; iterators that run templates | memory, evaluator | boundaries |
| Turtles, sprites, tile maps (`primitives_turtle.c`, `tilemap.c`) | turtle states | motion, collision, drawing | screen, demons (motion tick) | geometry in floats |
| Screen, LCD, dirty tiles (`picocalc/screen.c`, `lcd.c`, `dirty_tiles.c`) | frame buffer, text buffer, spans of dirty tiles, the LCD's open window | draw, mark, flush, scroll, mode changes | keyboard (mode keys), console | a tile left unmarked; a window shared |
| Editor, undo, vi (`picocalc/editor*.c`) | a flat buffer, cursor, undo log of bounded size, modes, registers | edit, undo, redo, search, vi commands | keyboard, files | a log at its limit; long sequences of edits |
| Line input and history (`picocalc/input.c`, `history.c`) | a line, a ring of lines | edit, recall | keyboard, screen | wrap-around |
| HTTP server (`core/httpd.c`) | one connection, its buffer, limits | poll, parse, answer | demons, Wi-Fi | limits and timeouts while a handler runs |
| HTTP client, Wi-Fi, TLS (`picocalc_hardware.c`, `primitives_http.c`, `wifi.c`, `tls_heap.c`) | lwIP connection state | blocking calls over callbacks | lwIP interrupts | a callback after a timeout |
| Errors, help, host devices, start-up | tables, wrappers | | | no state of their own worth a model |

Core 1 is not used. The only concurrency is that of interrupt handlers (keyboard
timer, sound DMA, card-detect timer, cursor timer, network callbacks) with the
one thread, plus evaluators nested on the C stack.

What makes each correct, in a sentence. *Memory*: a value stays what it was until
nothing can reach it, and the tables can be walked, indexed and counted in every
state. *Evaluator*: deferral, parking and reuse of frames cannot be told from
plain recursion. *Frames, variables, tables*: a failed operation changes nothing.
*Demons and nesting*: each condition fires once each time it becomes true;
every evaluation comes back to what it suspended, and everything suspended is a root. *Keyboard*: events take effect once, in order,
whoever reads them. *Sound*: each voice plays what it was told in order and waits
end. *FAT32*: no cluster has two owners, whatever was cut short. *I/O*: a file
handle means one open file until it is closed. *Editor*: the journal fits the text,
and what it remembers of the text is true. *Screen*: what differs from the panel is
marked. *Console*: the text on the LCD is the text in the buffer, a line typed is the
line entered. *HTTP server*: one
answer per request.

## 2. What is modelled, and where

### Memory: `HeapStore`, `Memory`, `MCMemory`, `MemoryProofs`

`HeapStore` is the promise: words are their spelling, pairs keep identity and
contents while reachable, a collection is invisible. `Memory` is the code. Its unit
is a word of four bytes; `entrySize`, `atomName`, `buckets`, `bins` and `atomNext`
are the atom table and its chains, `cells`, `nodeCount` and `freeCells` the cons
pool. `Intern`, `Cons`, `ListAppend`, `SetCar`, `SetCdr`, `Fetch` and `HoldBlob`
are the operations of `memory.h`; `Recycle` is a whole collection: marking
(`Marked` is the least closed set: the code follows cars by recursion and cdrs in a
loop, and stops at a mark bit that is set), the sweep of the cells with its trimming of the top,
the sweep of the atoms with its merging of neighbours and trimming of the end. LIFO
lists are sets: any suitable member may be taken, so the result does not depend on
their order.

`held` is the set of references the markers of `recycle` reach (variables,
procedures, property lists, frames, the op stack, the running evaluator).
What evaluators suspended on the C stack hold is *not* all in there; that is a hazard
of the caller (`primitives_workspace.c:759`) and a module of the plan.

Left out: the blob heap beyond the fact that a cell cannot store a blob word.

### Evaluator: `Meaning`, `Evaluator`, `MCEvaluator`

`Meaning` is the reference, after what both sides share (tokens, values, results, frames, the
inputs a primitive takes): a line means what plain
recursion over the manual's rules prints and how it ends. `Evaluator` is the code:
the Pratt parser (`Climb`, `EvalExpr`), calls deferred to the op stack, the
`expr`, `prim` and `group` operations that park a half-parsed expression, the steps of
the trampoline for `run`, `if`, `repeat`, `catch`, `runresult` and procedures, the tail
call with its reuse of the frame, and the unwinding. A machine state is a record
`m`; an action types one line at the prompt and evaluates it to its end, so what
is left on the shared stacks shows in the next state.

Left out: `while`, `until`, `for`, `forever`, labels and `go`, pause, stepping, the
limits of the op stack, and demons.

### Keyboard: `KeyView`, `Keyboard`, `MCKeyboard`, `KeyboardProofs`

`KeyView` is the driver its readers believe in: events are applied one at a time in
order, `pollkeys` and reads are single steps. `Keyboard` is the code at the
granularity at which an interrupt can split it: the thread's `pc` names the
function and place; `Irq` actions are the timer's handler, which is atomic to the
thread but not to the keyboard processor. `poll_busy`, `sb_i2c_in_use`, the ring with its
`rx_head` and `rx_tail`, the bitmaps split over words, the mode keys that redraw
the LCD, Brk and the pause key are all there. The keyboard processor
and its FIFO are external.

### Sound: `Score`, `Sound`, `MCSound`, `SoundProofs`

`Score` is the promise: each voice has a list of notes to come, what it plays now
and nothing else. `Sound` is the code: rings with one slot free, envelopes with
their segments and their rounding, the refill interrupt that moves time on by a
block, and the thread inside `play`, `toot`, `sound`, `setenv`, `playing?` and
`stopsound`, place by place. The amplitude is in units of `EnvOne`; samples,
waveforms, DMA are left out.

### FAT32: `Volume`, `Fat`, `MCFat`

`Volume` is the promise: a tree of directories and files that whole operations
change (`goal`), and what a power loss would leave at this moment (`tree`): no path
is lost that the operation does not remove, nothing goes before all that is new is
there, a file holds at each place its old or its new contents.

`Fat` is the code. A cluster is one sector of `S` slots of 32 bytes: entries of a
directory or contents of a file. Each function of `fat32.c` that writes is an operator on a
work record `s` (its view of the FAT `t` and of the clusters `d`, the FSInfo copy, the
handle `h`, the writes so far `log`, the first error `err`); `Then` is
`RETURN_ON_ERROR`, `Each` is a loop with it. The driver has one thread, so an action
computes its operation when it is called and leaves the writes in `script`;
`Advance` puts one of them on the card, each copy of the FAT by itself. The states on the way
are what a power loss leaves. `request` and `answer` are what the program asked and was
told, `full` remembers that some operation found no room.

What the model assumes or simplifies:

* The program neither erases nor moves a file it has open, nor opens it
  twice (`InUse`, `Opened`). The driver has no guard against it.
* A long name takes at least one slot and all its slots carry the 8.3 name itself
  in place of its checksum. While a name is being erased the file shows under its
  8.3 name, and `Volume` allows it (`Alias`).
* A cluster that a directory has just got is not looked at until it is zeroed
  (`Unformatted`): power lost in between shows what the cluster last held.
* After an operation that found no room, clusters may belong to nobody (a file's first
  cluster is only in its handle, a grown chain is not recorded): `AtRest` speaks of
  ownership while `full` is false. `RecordedIntact` and the refinement hold without exception.
* Sectors can be read and written, the card goes only between operations, and no directory
  is moved into itself (section 5).

### Files: `Files`, `MCFiles`, `FilesProofs`

`Files` is what lies between a file primitive and a volume: the table of open streams,
reader, writer, dribble and prefix of `io.c`, the router that joins the internal flash
(the root, littlefs) and the card (`/sd`), and the primitives. A name is `[abs, parts]`:
`Resolve` puts the prefix before a relative one and normalises, and leaves it relative as long
as no prefix is set; `Key` is the file it names: a volume and a path, whose case the card ignores. A stream
is a record with the two positions, the error flag, on the card the
generation it was opened under, and on the root its contents (`buf`), whether there is anything in them
to write (`dirty`), whether littlefs has given up on it (`bad`) and whether its file has gone (`lost`). A file is
a sequence of chunks, a chunk what one call writes; each write finds room or does not.

A primitive that is one call is one action. `copyfile`, a `rename` across the volumes and `save` are
a `job` whose back-end calls are actions, so that the disk can fill and the card can be
pulled between any two. `load` is open while other commands run: they are its lines, and `LoadEnd`
closes by name under the prefix of that moment. `closeall` flushes the streams in an order nobody sees:
where two have written one root file, the last to flush decides what it holds. `said` is what the last copy, move or
print reported.

What the model assumes or simplifies:

* No directory is made or erased; `backup`, `.restore`, `savel`, `pofile`, pictures, network
  streams and listings are left out.
* As in `Fat`, the program does not erase, move or copy over what it has open on the card
  (`InUse`). On the root it may: the stream keeps its data and writes to no file (`lost`).
* A pulled card is seen at once, and one that is put back is seen between two commands.
  (A card put in between the two looks of a copy at its destination makes it append.)
* In `files` each root file has one spelling, and the root meets a full disk at a write, never only at
  a flush (`LateErrors`). `FilesKept` does not hold otherwise: section 5 says how.

### Workspace: `Scopes`, `Workspace`, `MCWorkspace`, `WorkspaceProofs`, `ScopesProofs`

`Scopes` is the promise: a stack of scopes and four dictionaries (things, procedures,
primitives, property lists), names folded to one case. `Workspace` is the code: the
table of globals with its hash index and linear probing, the arena in which frames lie
end to end and grow in place, a tail call that reuses a frame if it fits, the table of
procedures with its tombstones, the class and index each atom remembers (`memo`), the
lists of cells behind a property list, and the frames that a pause keeps and gives
back. The refinement mapping reads a frame's first binding of a name and forgets slots and memos;
a procedure with an input named twice gives the name the first of the two arguments in `Scopes` too (`InputNamed`).
The library a program starts with was defined by `proc_define`, so it has no name twice (`WorkspaceAssumption`).

A call finds its procedure's slot first and evaluates the inputs then: it waits in `pending` with the slot and the depth
of the frames, other actions are what the inputs do, and `CallEnters` takes what the slot holds by
then. An erased procedure, or one whose number of inputs changed, fails it (`frame_push` counts the arguments);
a slot that another name took is that procedure's. `step_proc_call` reuses a frame only for the procedure
it is of; a frame of the model does not say which, and any call may take its caller's frame.
The count of a frame's locals has `LOCAL_COUNTS` values (256 in the code, a `uint8_t`). `local` adds one also for a name the
frame has, and from the largest the count goes to 0: all the locals of the frame are gone
(`NoRoomToCount`, `Grown`). `ImplementsScopes` names this one step as its exception (`ForgetsLocals`); before and after it, every step is one of `Scopes`.

Left out: the text of a body, printing, stepping and tracing. A word with two spellings is two
atoms and one name. `current` is the depth of `current_proc_stack` as the code counts it.
`PausedLocals` = FALSE keeps out a line at a pause prompt that itself says `local` in the paused frame
(what it calls may) and then ends in an error (section 5).

### Screen: `DirtyTiles`, `Canvas`, `Turtles`, `Demons`, `Tilemap`, `Screen`, `MCScreen`, `ScreenProofs`

One record `gfx` holds what the C files keep, and each module adds its fields and its
functions of the record: `DirtyTiles` the spans of tiles to send, `Canvas` the frame buffer,
the sprites composed over it, lines, arcs, fill, palette, modes and the two kinds of refresh,
`Turtles` what the console knows of each turtle (pen, shape, costume, cached raster), the active
set and the primitives that address it, `Demons` the poll, motion by elapsed time, sensing, freeze
and the cadence of `sync`, `Tilemap` the bank, the map and the baking. `Screen` runs a
program: what it issues becomes a list of console calls carried out one action at a time,
so that an error can fall between any two; `ask`, `each` and a load wrap a
call, the prompt polls; a demon's action is one of the lists in the program's `actions`, and
the frames of an animation that came due in a tick are taken one at a time, as in the code's loop. A pixel is a palette slot, a position a whole pixel, a heading a quarter turn.

Left out: floating-point geometry, other headings, actions of demons that pause, load or
recycle. Boundary modes are set only at the start of a program, and a picture loads whole. An error
at top level may come under any active set; the ghost field `astray` remembers that the reset left turtle 0 selected (section 5),
until a command addresses the set.

### Console: `TextScreen`, `LineInput`, `Console`, `MCConsole`, `ConsoleProofs`

`TextScreen` is the text half of `screen.c` over `lcd.c`: the buffer, the rows still dirty, wrapping,
scrolling by an offset into the LCD's memory, the split window and mode changes. `LineInput`
is the editor of one line and the ring of earlier lines. `Console` is a program that writes,
changes modes and reads lines, key by key. A cell is a character. `area` is what the controller was last told
to scroll: where it is not what `lcd.c` counts in and text has scrolled, what is on display is the controller's affair
(`ShowsAsMapped`), and the properties say nothing of it. Ghost fields (`slid`, `stray`,
`reach`, `ended`) remember when one of the defects of section 5 has struck; the properties make an
exception of exactly these.

### Editor: `EditorText`, `EditorUndo`, `EditorPattern`, `EditorRewrite`, `Vi`, `Editor`, `MCEditor`

`EditorText` is the text and the places in it: lines, words, brackets, paragraphs, definitions, motions
and objects. `EditorUndo` is the journal with its folding of keystrokes and its bounded store.
`EditorPattern` is the backtracking matcher with its budget and its stale groups, and plain search;
`EditorRewrite` the commands that rewrite by themselves (substitute, move, copy, global, the
number at the cursor). `Vi` maps state, text, cursor and a key to a new state and an action,
as `editor_vi.c` does; `Editor` carries actions out, and has the keys of its default mode and of the search.
A key is a step. A command line is one input, read already.

Left out: what is drawn, `:w` to a named file and `:e`, and the workspace that text comes from and goes to.

## 3. The runs

| run | module, cfg | shows |
|---|---|---|
| `memory` | `MCMemory`, `MCMemory.cfg` | the table stays walkable, indexed and counted; nothing dangles; `nodes` is honest; a collection is complete; `Memory` implements `HeapStore` |
| `keyboard` | `MCKeyboard`, `MCKeyboard.cfg` | no event lost, doubled or out of order (`TypingSound`); `Keyboard` implements `KeyView` |
| `keyboard_break` | `MCKeyboard`, `MCKeyboardBreak.cfg` | liveness (`CatchesUp`): the bitmap catches up, Break gets through |
| `evaluator` | `MCEvaluator`, `MCEvaluator.cfg` | every nest of a recursive call means what plain recursion means; tail recursion in constant frames; stacks empty at the prompt |
| `evaluator_tail` | `MCEvaluator`, `MCEvaluatorTail.cfg` | *violation*: a condition's call leaves its tail position behind |
| `sound` | `MCSound`, `MCSound.cfg` | `Sound` implements `Score`; toots wait for both voices; waits end and music fades (`Ends`) |
| `fat` | `MCFat`, `MCFat.cfg` | at every sector written each file is whole and has clusters of its own; between operations the FAT copies, the free count, the ownership of clusters and the names agree; `Fat` implements `Volume`. Type invariants are a part of the first property where they are not listed |
| `files` | `MCFiles`, `MCFiles.cfg` | reader and writer never dangle and the table is exact (`TableExact`); what was printed without an error is on the disk; a copy or move that fails, whenever it fails, has lost nothing (`FilesKept`) |
| `workspace` | `MCWorkspace`, `MCWorkspace.cfg` | hash index, arena and memos are true (`TablesAgree`); the tables implement the dictionaries of `Scopes` |
| `screen` | `MCScreen`, `MCScreen.cfg` | the LCD shows the canvas under the turtles outside the dirty tiles; manual refresh shows whole frames; fill and stamptile paint what they should; the lowest active turtle is selected between instructions (but for a time after an error at top level); touching is sharing a pixel; demons fire on edges; no time is made up for |
| `console` | `MCConsole`, `MCConsole.cfg` | the LCD's text is the buffer's through wraps, scrolls and mode changes; the line being typed stands where the cursor believes; history recalls only what was entered |
| `editor` | `MCEditor`, `MCEditor.cfg` | the undo journal fits the text; the line memo is true; `:q` discards no watched edit; `.` does what retyping would |

### Bounds

* `memory`: 14 words of block, of which the permanent words take 8; names of two
  and of three words, two of one bucket, three bins, two references held. Enough for
  both arenas to meet, entries to be split, merged, trimmed and reused, and
  cells to be trimmed. `Spoken` bounds the words the program interns, `Literal`
  the operands it need not hold, `MaxHeld` the references it holds: a guard on the
  actions that add one.
* `keyboard`: a FIFO of 1 (plus the one being queued), a ring of 2 slots, so that
  it is full after one character, a drain of 1 or 2 reads, five classes of keys.
* `evaluator`: one recursive procedure `f :n` with each of three base cases, each
  nest of eight expressions in three commands in seven control structures, with and
  without a line after, and a `g` that outputs, prints or throws; typed from
  five surroundings; recursion of depth one and two. The shape that
  loses lines has the run `evaluator_tail`.
* `sound`: two voices, queues of two, envelopes of two steps, eight commands that
  use every primitive.
* `fat`: nine clusters of four slots, two copies of the FAT; two names that fit 8.3 and two that do
  not and want the same alias, of which there are two (`MaxTail`); two streams; data of
  three and of five slots, so that a write ends inside a cluster or crosses into the next. `MaxOps`
  = 4 operations from either of two cards: one fresh whose free count is unknown, one that
  already holds a directory with a file in it and a file beside it, written by the driver's own
  operators and two clusters short of full. From these, four operations reach a
  full disk half way through a write, a directory that grows, an alias with a numeric tail, reuse of
  freed clusters and slots, moved files and directories, and a stale stream that
  writes and closes. `MaxGen` = 1 removal of the card. Deadlock is not checked: the
  program may stop asking.
* `files`: two slots, files of at most two chunks (the longest that print extends), `MaxOps` = 4 commands, one
  removal of the card. One name moves from the root to the card with the prefix, one is on
  the card, and the dribble file is on the root. Four commands are enough to close, erase or rename
  what is open, selected and being loaded or saved. Deadlock is not checked: the commands run out.
* `workspace`: four words of which two are one name, two globals in an index of three places (so
  that each collides), two procedures, an arena of five words with a header of one, a `current_proc_stack` of two, which
  calls exactly fill (that none goes deeper is `Shallow`, a condition of a theorem in section 4). `LOCAL_COUNTS` = 3 is small
  enough for the arena to hold one local too many, and `PendingCalls` = 1 call waits for inputs, which may call
  others without inputs, define and erase. Programs
  offer the verbs of one part each, so that every table reaches its limit and is emptied again.
* `screen`: twelve programs on a canvas of 6 by 6, tiles of 2, two turtles, sprites of up to 4, a pool of 8
  costume bytes, two demons, a poll every 2 ms; each sets up a scene and issues three steps (two for lines
  and arcs) from its own list in any order. A sprite covers several tiles and hangs over
  every edge, and a fill needs its stack (1,024 runs in the code: it is not full here).
* `console`: 3 columns, 4 rows, 2 when split, 6 rows of LCD memory, a history of 3
  lines of 4; at most 6 keys to a line. A line wraps twice, scrolls the screen it is
  typed on, outgrows the history's entry, and scrolling goes round the LCD's memory.
  All programs but one change the mode before they scroll.
* `editor`: three texts of six to nine characters, a buffer of 11, a journal of 12 words, five or six keys;
  the keys offered depend on the state, so that they complete commands. Thirteen command
  lines. The buffer and the journal fill, and steps are dropped. Deadlock is not checked: a sitting ends.

### Fairness

* Keyboard: `WF(Irq)`, a handler that has started ends; `SF(Tick)`, the timer and the
  thread are not locked to each other, so a tick does not fall inside a busy bus for
  ever; `SF(LogoThread)`, the handler is shorter than its period, so the thread
  gets on; `SF(IrqPollOnce)`, the bus does not fail every read. Both liveness
  properties ask only about a keyboard that is eventually left alone.
* Sound: `WF(Refill)`, DMA goes on; `WF(Run)`, the thread is not stopped.
* The other modules have no liveness: each is sequential and every operation
  ends by itself.

## 4. What is proved

Each of seven modules has a proof module that follows it (`Workspace` two, `WorkspaceProofs` and `ScopesProofs`), for every value of the constants
that the module's named assumption allows. TLC evaluates those assumptions on the runs.

**Memory.** `Spec => []IInv` with the inductive invariant
`IInv = TypeOK /\ TableSound /\ AtomsIndexed /\ NoDangling`, for every block size, set of words, hash and set of
bins; from it each of the four, and `FreeNodesHonest`. None of the four is inductive alone: that an allocation may
reuse a free entry needs the bins to hold free entries only (`AtomsIndexed`), that
the table stays tiled needs free entries to be disjoint (`TableSound`),
and that a collection leaves nothing dangling needs the marking to follow cells
that are still there (`NoDangling`). There is a lemma for each operation; the sweep is
split into the facts about one run of free entries (`RunEndFacts`), about the end of the
table (`SweptEndFacts`) and about the closure of marking (`MarkedClosed`).
`RecycleComplete` is an action property from the same invariant: after a collection no cell and no
atom stands that is not marked, no two free entries touch, and neither arena keeps a free block at its edge. `ImplementsHeapStore`: every operation is one of
`HeapStore`'s, with the invariant `IInv /\ BlobsKnown` (a blob word held is one of those handed out).
It is assumed that the program's references are those in `held`.
`FreeBytesAgree`, that the figure `atoms` answers is what a walk of the free entries adds up to, follows from `IInv` and how a sum over a set changes when
one entry comes or goes. The sum is a fold, that is a function chosen to satisfy a recursion on sets: that there is one
is shown by the least cardinality at which there would be none, and that any order of removal gives the same sum likewise.

**Keyboard.** `Spec => []TypingSound` and `Spec => ImplementsKeyView`, by
`KeyInv = TypeInv /\ Owned /\ Handover /\ HeldAgrees /\ InHand`. `Owned` is what makes the driver work without masking
interrupts: while the thread is in the driver it holds `poll_busy` and no handler is under way.
`Handover`: of the presses being copied, those of the words already handed over are gone from the
pending bitmap. `HeldAgrees` and `InHand` tie the bitmaps, the event in hand and the FIFO to what `KeyView` has
seen. Each action of thread and handler is then a step of `KeyView` or a stutter.

**Sound.** `Spec => []TypeOK`, where `TypeOK` includes that
each place the thread can be in finds its command's fields as it left them and that
rings and envelopes stay in their C ranges; `Spec => ImplementsScore`, step by step:
every action of the thread and the interrupt is a step of `Score` or a stutter; and
`Spec => []TootWaits`, by the invariant `TootInv` (no toot note is ever queued,
and the second voice's ends no earlier than the wait does).

**Files.** `Spec => []TableExact` without a condition, by
`FileInv = World /\ StreamsSound /\ CountExact /\ OncePerName /\ Pointers /\ JobSound`: what a slot, a reader, a writer
and a transfer in progress hold, at each place a job can be interrupted. `~LateErrors => (Spec /\ []Apart => []FilesKept)`,
by `KeptInv`: while the copy runs the source is what it was and the destination the part read so far, on the disk too
when its stream is not dirty.
The two conditions are the two defects of section 5 that break it, and nothing else: a root that is full
only at the last flush (`LateErrors`), and `copyfile` of a file onto itself under a second spelling (not `Apart`).
`Spec /\ []OwnFile => []PrintKept` by `FileInv` and `Rooted` (a root stream that was not orphaned has its file), for late
errors too: `OwnFile` is that the program does not write one root file through the writer and the dribble file at once.
The code does not keep it from that; each stream then has a copy of the file, and the later flush decides.
On the card what either writes is in the file at once, and no condition is needed.

**Workspace.** The four parts of `TablesAgree`, each by an invariant of its own.
`LookupExact` by `GlobalsInv` (`Shaped`, and `Indexed`: for each slot in use the probe for its name reaches it
through places that are all taken); the lemma about the rebuilt index looks at the first slot
at which the loop would go wrong. `BindingsCurrent` by `NamesInv`. `FramesTile` by `FramesInv`: the frames lie end to end
(`Tiles`), there are no more names than frames, and what a pause keeps is still below the frames in use
(`Held`); on condition that `PausedLocals` is FALSE, the defect of section 5. `TablesAgree` as a whole by `ToldInv`,
on condition besides that calls are no deeper than `current_proc_stack` (`[]Shallow`), section 5 again.

`ImplementsScopes` holds without either condition, for every number of values the count of locals can have, by
`ScopesInv = GlobalsInv /\ NamesInv /\ ViewsInv /\ PendingInv`. `PendingInv`: a call that waits has a slot of the table,
so that what it enters is a procedure. `ViewsInv` is
what makes each table a dictionary: no two slots of procedures and no two entries of property lists have one name
(`Unique`, `PropsOK`, which also keeps the pairs of a list in pairs), the primitives begin with the built-in ones (`PrimsInv`), frames and
what a pause keeps have their shape (`Framed`, `SnapOK`). Without `GlobalsInv` a `make` could miss a slot and use a second.
For each table one lemma says which dictionaries it can be read as, and that there is only one
(`Tells` and `GlobalsViewIs`, `Binds` and `BoundOfIs`, `PlistsAre` and `PlistsViewIs`); every operation then has a lemma that gives the dictionary
after it, and every action one that names the step of `Scopes` it is, or shows that the table was full and nothing changed.

**Console.** `Spec => []HistoryKept`, by `HistoryInv`: the slots from tail to head are the latest lines entered, as
many as fit (`Recorded`); while a line is read, the place in the history is the end or a slot in use,
what is shown begins with what was typed, and an edit has put the place back to the end
(`LineSound`). The reader's buffer is assumed longer than a slot of the history (256 and 120 in the code).
`Spec => []TextTrue`, by `TextInv`: in text mode every row of the buffer is in the LCD's memory at the place the scroll offset gives it; in the split mode the rows of
the window are, or are still blank and dirty, and those it has not reached yet are dirty (`Faces`, `Agrees`). Every operation of `TextScreen` keeps it (a character, a wrap, a scroll, a
flush, a change of mode, the redraw of the line being typed), and so do all the keys, which are made of these; a string is a fold over its characters,
with the same argument by least cardinality. `TextInv` is about the memory as `lcd.c` maps it, and `TextTrue` follows
where the controller shows that. It is assumed that no character is the one that stands for the picture.

**Screen.** `Spec => []TimeHonest` and `Spec => []AddressedFirst`, by `Inv = Held /\ Timed /\ Fits /\ Addressed`.
`Held`: the active set is never empty, and demons and map hold what their users expect. `Timed`: what has been credited to the turtles, with the
time since the last tick, is no more than the time they were neither frozen nor loading; without the second
term a tick after a thaw could credit too much. `Fits`: the calls still to come have inputs of their kind, and a tick is the next of them or there is
none: the poll that was due was not frozen, and nothing has come between. `Addressed`: if another turtle than the lowest of the set is
selected, or a call is to come that selects one, then a call that selects the lowest comes before any other command, and it is made whatever happens, or
nothing before it can fail. The bulk of the proof is that drawing leaves clocks, tables and addressing alone (`Calm`, `Still`,
`Steady`), through the folds of clear, fill, bake and their kin, which are told apart by name so that
one lemma serves them all. `ProgramAssumption` says that a program calls primitives with inputs they take; TLC evaluates it on the programs of the run.

`SpriteAlwaysMarked` is the step on which `PanelTrue` rests: setting a sprite marks every pixel it covers
now and every one it covered before, wrapped around the edges when the boundary wraps, for every size of canvas and
tile. It needs that the pieces of a wrapped rectangle cover it (`SegmentsHold`) and that the hull of the columns of a row of
tiles loses nothing (`RectMarked`).

Model-checked only:

* All of `Fat` (`RecordedIntact`, `AtRest`, `ImplementsVolume`): an invariant would say what the disk means after each of the sectors a
  script writes, for every interruption of every operation; no such invariant has been worked out.
* Of `Screen`, `PanelTrue`, `TouchTrue`, `EdgesTold`, `FrameWhole` and `DrawsTrue`: they compare pixel by pixel what is composed from
  cached rasters with what is worked out afresh. The first step of `PanelTrue` is proved, the
  validity of each cache through each operation is not; `FloodFill` compares a fill with a closure, an induction over data.
* `LineShown` of `Console`: the line on the screen is a nest of redraws through the wrap and the split window, each with the exceptions of section 5.
* Everything of `Evaluator` and `Editor`: their operators are `RECURSIVE`, which the prover does not take.
* All liveness (`CatchesUp`, `Ends`).

## 5. Where the code and its documents differ

`evaluator_tail` is a run of its own: the code loses the lines after an `if` whose
condition calls a procedure, against the manual (`PROJECT.json` quotes it). Each of the
following was met while modelling and is in the models, or kept out of a run's
inputs where section 2 says so.

In the evaluator:

* `(print 1 throw "foo)` swallows the throw and prints (`eval_expr.c:357`).
* `run` or `if` used as an operand while an operation is parked, or as the input of a user
  procedure inside a procedure, is "Not enough inputs".
* A missing output used as a primitive's input inside a procedure is silently ignored.
* A call that should report a missing output does not when the first hop of its
  tail calls was not an input (`eval_expr.c:830`).
* The reuse of a frame by a tail call drops locals that a callee saw by dynamic scope.
* `output` puts its input in tail position also inside a `catch` that is still running:
  `catch "foo [output f :n - 1]` leaves the catch before the call runs, and a `throw`
  from it is reported as uncaught (`eval_expr.c`, the setting of `in_tail_position`
  around `output`; the shape `OutputFromCatch` of `MCEvaluator`).

In the memory code: a word longer than 255 bytes lives in the blob heap and has no 16-bit
form. `mem_set_car` (`memory.c:1065`) stores NIL for it and answers true, so `.setfirst` loses
it without an error (`NodeToIndex`, and `Unstored` in `HeapStore`).

In the tables of names:

* A line at a pause prompt that says `local` and then ends in an error gives back the arena below a frame's
  recorded size (`repl.c:347`).
* An alias that `copydef` makes of a primitive is no root: after a `recycle` its name can be
  empty (`primitives.c:216`, `primitives_workspace.c:759`).
* `current_proc_stack` drops a push beyond its depth of 32 and pops it all the same. The comment at `limits.h:65`
  says that only the label of the prompt suffers; `pause` too refuses then ("Can't use at toplevel").
* `local` does not look for a binding its frame already has, and makes a second one. The count of locals is a
  `uint8_t` (`frame.h:119`) that `frame_add_local` increments without a check (`frame.c:447`), and the arena has room for 256
  locals of three words: the 256th `local` of a call makes the count 0, and every local of the frame disappears (`ForgetsLocals`).
* A call whose inputs erase or redefine its procedure reports "out of space", or runs the procedure that took its slot.
* `pons` prints outer locals that are shadowed; the prompt's `demons_reset` clears the polling flag inside an action.

In the keyboard code: F1, F2 and F3 are decoded by the timer handler too, and `screen_set_mode` redraws the LCD
through a window the thread may have open between `lcd_blit_begin` and `lcd_blit_end`
(`keyboard.c:183`, `window` in `Keyboard`), where `lcd.c:15` says "INVARIANT: the LCD is only ever touched from
thread context (never from an IRQ)." `keydown?` reads the live bitmap, which the timer goes on changing
between two `pollkeys`, while the manual (`reference/Pico_Logo_Reference.md:5318`)
speaks of the last `pollkeys`.

In the sound code: `docs/sound-design.md:346` says Break and an error that reaches
top level silence everything; only `stopsound` does. `sound_status` reads the stage of a voice
and then its queue, and the refill interrupt may start the last queued note in between: then
`playing?` says false in the middle of the music, where the manual
(`reference/Pico_Logo_Reference.md:5727`) wants true while a voice sounds or has notes
queued. The wait of `toot` takes a Brk and returns without an error
(`primitives_hardware.c:275`), so the program goes on with its next instruction, while the
manual (line 4917) says that Brk stops whatever is running.

In `fat32.c`: `fat32_rename` does not look whether the new path lies inside the directory it moves
(line 2065). `rename "d "d/a` reports success, and `d` can no longer be reached.
After a write that finds no room in an empty file, its first cluster may belong to nobody.

In the file code, part of `Files`:

* `logo_stream_copy` flushes after its loop and does not look at `write_error` (`stream.c:154`): a move to a root
  that is full only at the last flush deletes the source, where `storage_router.c:109` promises all or nothing.
* `copyfile` compares resolved names as strings (`io.c:1042`): `copyfile "a "/a` before the first `setprefix`
  empties the file and reports success, where the manual (line 6493) says it has no effect.
* `load` closes its file by name, resolved again (`primitives_files_load_save.c:191`): after a
  `setprefix` in the file its stream stays open, or another stream is closed. A `closeall`
  in the file frees the stream that the loop goes on reading.
* `save` and `savel` never look at write errors: on a full disk they report success.
* A move deletes an existing destination before it copies: if it fails, the old contents are gone.
* The manual says `setread` and `setwrite` cannot be used with the dribble file while dribbling; the
  dribble stream is not in the table and nothing keeps the file from being opened there too.

In the graphics:

* `setwrap` and its kin do not mark sprites: one that hangs over an edge leaves its other half, and only
  the current turtle goes home.
* `screen_txt_clear` in graphics mode wipes the LCD and marks no tile; `screen_gfx_load` that fails
  half way has changed palette and canvas and marks none either.
* `setpos` with `fence` asks about y as if it grew downwards (`picocalc_console.c:819`, after `new_y = 160 - y`): y = -160 is accepted
  and the turtle stands on row 320, below the canvas; y = 160, the top row, is refused. `forward` tests the row itself.
* `(int)(v + 0.5f)` rounds towards zero below zero; a fill whose stack of 1,024 runs is full drops runs; a
  fill by an eraser uses the background's slot, not the blank one.
* In automatic refresh what is drawn within 16 ms of the last transfer waits until something polls.
* An error at top level leaves turtle 0 selected when the active set is without it, against
  `primitives_turtle.c:65` and `docs/multi-sprite-design.md:443` (ghost `astray`; `AddressedFirst` makes an exception of exactly this).
* `costume_put` frees the old costume before it finds the pool full.
* `freeze` and `thaw` in a tight loop drop the time that was due; an action fired inside `ask` runs under its set.
* A demon that prints at the prompt moves the cursor under the line being typed.
* `stamptile` misses a copy that begins left of or above an unaligned scroll (no primitive sets one).

In the console:

* `lcd_init` gives the controller an area of 320 lines to scroll (`lcd.c:835`); `lcd_memory_scroll_height` begins as 480
  (`lcd.c:38`), and the first `screen_set_mode` returns at once, being in its mode already. Until the first change of mode
  text scrolls through 480 lines of a memory of which the controller was told 320 (`area`).
* In the split screen `screen_txt_putc` answers that it scrolled when only its window moved, against "Returns true
  if the screen scrolled up" (`screen.c`); `redraw_input_line` then redraws a row too high (ghost `slid`).
* There the window can move back up without a redraw, and text lands on the wrong lines of the LCD until
  a mode change or `cleartext` (ghost `stray`).
* End uses the end of the longest line so far, past its blanks (ghost `ended`).
* A line of more than 119 characters is shortened by the history; Up and Down restore it short.
* The cell after the last of the buffer is read when the last is written.

In the editor:

* Substitute counts and rewrites in two passes that disagree: `:s/^a//g` on `aaa` counts one and deletes three, and
  a replacement can outgrow the room the count was checked against, against "keeps the count and
  the rewrite from ever disagreeing" (`editor_vi.c`).
* Typing and then erasing all of it removes its record: one `u` then takes back two steps.
* `dd` on the line before the last of a text that ends in a newline also takes the newline before it;
  `cw` on a word of one letter changes the next one too; `J` on n selected lines joins n + 1.
* In insert mode ^V, ^X, ^P, ^T and the replace keys change text without `modified`: `:q` discards it (`unseen`).
* `dG` and `.`: the recorded count is 1, so `.` deletes to line 1, against `docs/vi-mode-design.md:515`.
* A full buffer with the cursor at 0: `[` moves the cursor to -1; Enter still takes blanks away.

## 6. Plan

Modelled and checked: Memory, Keyboard, Evaluator, Sound, Fat, Files, Workspace, Screen, Console, Editor.
The safety properties of Memory, Keyboard, Sound, Files and Workspace are proved, and of Console and Screen what
section 4 names. In this order:

1. Proofs of what is only model-checked: from `SpriteAlwaysMarked` on to `PanelTrue`, with the invariant that a raster that is
   not marked stale is the fresh one; `RecordedIntact` of `Fat`, by an invariant that each write of a script keeps; for
   `EditorUndo`, recursive functions in place of its operators, and then that redo undoes undo.
2. **Nesting** (`repl.c`, `primitives_workspace.c`, load, pause, actions): evaluators suspended on the C stack and what
   `recycle` marks of them. Composes with `Memory` through `held`.
3. **Fat** with sectors that cannot be read or written and a card lost in the middle of an operation, each
   followed by further operations.
4. **Httpd**: the connection's states, its limits and the handler's answer.
5. **Files**: directories, and the imaging of the root with a crash in a restore.
6. The pure functions of lists and words against reference definitions.

## 7. Not modelled, and why

Floating-point arithmetic and geometry (TLC has no reals), the wording of messages and
help, drawing of glyphs, vendored littlefs, TLS and lwIP, build tools and Logo
programs. Lexing, JSON and number formats are functions of text whose
TLA+ would be as long as the C. The HTTP server, the iterators over lists, and evaluators
nested on the C stack are left for the plan. `PROJECT.json` lists every component with
its status. Not among its hazards but known: `setenv` above 65,535 ms, a gate above 35 minutes, a long FAT name
that equals another's alias, Shift released before its letter.
