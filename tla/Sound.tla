------------------------------- MODULE Sound -------------------------------
(***************************************************************************)
(* The sound engine (devices/picocalc/sound.c) and the primitives that     *)
(* drive it: sound, play, playing?, stopsound and setenv of                *)
(* core/primitives_sound.c and toot of core/primitives_hardware.c.         *)
(*                                                                         *)
(* Two actors share the voices.  The refill interrupt steps all of them    *)
(* each time a half of the DMA ring has drained; it runs to its end before *)
(* the thread goes on.  The thread runs one command at a time; an action   *)
(* of the thread is what it does between two points where the interrupt    *)
(* can get in: a stretch with interrupts masked, or one access to what the *)
(* interrupt changes.                                                      *)
(*                                                                         *)
(* A note stands for the frequency, duration and volume of a SoundEvent.   *)
(* The oscillators, the mix and the waveforms are left out: they read this *)
(* state and change none of it.                                            *)
(***************************************************************************)
EXTENDS Integers, Sequences

CONSTANTS
  Voices,         \* 0 .. MAX_VOICES - 1
  Left, Right,    \* TOOT_LEFT_VOICE, TOOT_RIGHT_VOICE
  Notes,
  Dur,            \* hold_us_left of each note when it starts
  Silence,        \* the zeros sound_init leaves in a queue
  Bad,            \* what notation_parse_token rejects in a list of notes
  QueueLen,       \* SOUND_QUEUE_LEN
  EnvOne,         \* ENV_ONE
  SustainMax,     \* the highest sustain level, 15
  Block,          \* g_block_us
  TimeMod,        \* 2^16 milliseconds, in the unit of Dur
  InitTimbre,     \* the envelope sound_init gives a voice
  Commands        \* bound of the model: the commands the program runs

Timbre == [attack : Nat, decay : Nat, sustain : 0 .. SustainMax, release : Nat]

\* A command carries what its primitive has parsed: the voices in the order
\* of parse_voice_set, and the note, list of notes or envelope.
CommandOK(c) ==
  /\ c.op \in {"sound", "toot", "play", "setenv", "playing?", "stopsound"}
  /\ c.op # "stopsound" => c.voices \in Seq(Voices) \ {<<>>}
  /\ c.op \in {"sound", "toot"} => c.note \in Notes
  /\ c.op = "toot" => c.voices = <<Left, Right>>
  /\ c.op = "play" => c.notes \in Seq(Notes \cup {Bad})
  /\ c.op = "setenv" => c.env \in Timbre

ASSUME SoundAssumption ==
  /\ Left \in Voices /\ Right \in Voices /\ Left # Right
  /\ Dur \in [Notes -> Nat]
  /\ Silence \notin Notes /\ Bad \notin Notes
  /\ QueueLen \in Nat \ {0} /\ EnvOne \in Nat \ {0}
  /\ SustainMax \in Nat \ {0} /\ Block \in Nat \ {0} /\ TimeMod \in Nat \ {0}
  /\ InitTimbre \in Timbre
  /\ \A c \in Commands : CommandOK(c)

\* A note that is tooted is told apart from one that is queued.
ASSUME TootAssumption ==
  \A c, d \in Commands : c.op = "toot" /\ d.op = "play" =>
    \A i \in 1 .. Len(d.notes) : d.notes[i] # c.note

VARIABLES
  voice,      \* g_v
  brk,        \* user_interrupt, set by the keyboard and taken by whoever asks
  cmd,        \* the command the thread runs, or Idle
  pc,         \* where in it
  todo,       \* the voices it still has to see to
  items,      \* the notes, or the fields of an envelope, left for Head(todo)
  result      \* what the last command returned

thread == <<cmd, pc, todo, items>>
vars == <<voice, brk, thread, result>>

Idle == [op |-> "idle"]

-----------------------------------------------------------------------------
(* One voice *)

QRing == QueueLen + 1

QueueEmpty(x) == x.head = x.tail

QueueFree(x) == (x.head - x.tail - 1 + QRing) % QRing

\* Mutant: a flush forgets one end of the queue.
FlushHeadOnly(x) == [x EXCEPT !.head = 0]

Flushed(x) == [x EXCEPT !.head = 0, !.tail = 0]

\* The blocks a segment of the envelope spans, and its change in each.
StepsFor(time) == IF time \div Block < 1 THEN 1 ELSE time \div Block
\* Mutant: the step may be nothing.
StepUnclamped(range, time) == range \div StepsFor(time)

StepOf(range, time) ==
  IF range \div StepsFor(time) < 1 THEN 1 ELSE range \div StepsFor(time)

SustainLevel(t) == (t.sustain * EnvOne) \div SustainMax

\* start_note takes the shape of the note from the timbre it finds.
StartNote(x, n) ==
  [x EXCEPT !.note = n,
            !.shape = [attack  |-> StepOf(EnvOne, x.timbre.attack),
                       decay   |-> StepOf(EnvOne - SustainLevel(x.timbre), x.timbre.decay),
                       sustain |-> SustainLevel(x.timbre),
                       release |-> StepOf(EnvOne, x.timbre.release)],
            !.env = 0,
            !.stage = "attack",
            !.hold = Dur[n]]

\* The sequencer: an idle voice starts the next note of its queue.
NextNote(x) ==
  IF QueueEmpty(x) THEN x
  ELSE StartNote([x EXCEPT !.head = (x.head + 1) % QRing], x.q[x.head])

Attack(x) ==
  IF x.env + x.shape.attack >= EnvOne
  THEN [x EXCEPT !.env = EnvOne, !.stage = "decay"]
  ELSE [x EXCEPT !.env = x.env + x.shape.attack]

Decay(x) ==
  IF x.env - x.shape.decay <= x.shape.sustain
  THEN [x EXCEPT !.env = x.shape.sustain, !.stage = "sustain"]
  ELSE [x EXCEPT !.env = x.env - x.shape.decay]

Release(x) ==
  IF x.env - x.shape.release <= 0
  THEN [x EXCEPT !.env = 0, !.stage = "idle"]
  ELSE [x EXCEPT !.env = x.env - x.shape.release]

Envelope(x) ==
  CASE x.stage = "attack"  -> Attack(x)
    [] x.stage = "decay"   -> Decay(x)
    [] x.stage = "sustain" -> x
    [] x.stage = "release" -> Release(x)

\* The time a note is held runs out: it is released, whatever its stage.
Held(x) ==
  [x EXCEPT !.hold = x.hold - Block,
            !.stage = IF x.hold - Block <= 0 THEN "release" ELSE x.stage]

AdvanceBlock(x) == IF x.stage = "idle" THEN NextNote(x) ELSE Envelope(Held(x))

\* sound_stop, on one voice.
Stopped(x) ==
  IF x.stage \in {"idle", "release"} THEN Flushed(x)
  ELSE [Flushed(x) EXCEPT !.stage = "release", !.hold = 0]

Queued(x, n) ==
  [x EXCEPT !.q = [x.q EXCEPT ![x.tail] = n], !.tail = (x.tail + 1) % QRing]

InitVoice ==
  [stage |-> "idle", env |-> 0, hold |-> 0, note |-> Silence,
   shape |-> [attack |-> 0, decay |-> 0, sustain |-> 0, release |-> 0],
   timbre |-> InitTimbre,
   q |-> [i \in 0 .. QueueLen |-> Silence], head |-> 0, tail |-> 0]

Init ==
  /\ voice = [v \in Voices |-> InitVoice]
  /\ brk = FALSE
  /\ cmd = Idle /\ pc = "idle" /\ todo = <<>> /\ items = <<>>
  /\ result = "none"

-----------------------------------------------------------------------------
(* The interrupt, and the Brk key *)

\* mix_half: every voice advances by one block.
Refill ==
  /\ voice' = [v \in Voices |-> AdvanceBlock(voice[v])]
  /\ UNCHANGED <<brk, thread, result>>

PressBreak ==
  /\ ~brk
  /\ brk' = TRUE
  /\ UNCHANGED <<voice, thread, result>>

-----------------------------------------------------------------------------
(* The thread *)

This == Head(todo)

Return(r) ==
  /\ cmd' = Idle /\ pc' = "idle" /\ todo' = <<>> /\ items' = <<>>
  /\ result' = r

\* logo_io_check_user_interrupt finds the flag set and takes it.
TakeBreak == brk /\ brk' = FALSE

GoTo(label) ==
  /\ pc' = label
  /\ UNCHANGED <<cmd, todo, items, result>>

TimbreFields == <<"attack", "decay", "sustain", "release">>

\* The work of one command for one voice: the notes to queue, the fields to set.
ItemsOf(c) ==
  CASE c.op = "play"   -> c.notes
    [] c.op = "setenv" -> TimbreFields
    [] OTHER           -> <<>>

EntryOf(c) ==
  CASE c.op = "play"                -> "queue"
    [] c.op = "setenv"              -> "store"
    [] c.op \in {"toot", "playing?"} -> "stage"
    [] c.op = "sound"               -> "gate"
    [] c.op = "stopsound"           -> "stop"

\* eval_instruction asks for Brk, then calls the primitive.
Issue(c) ==
  /\ cmd = Idle /\ ~brk
  /\ cmd' = c /\ pc' = EntryOf(c) /\ items' = ItemsOf(c)
  /\ todo' = IF c.op = "stopsound" THEN <<>> ELSE c.voices
  /\ result' = "none"
  /\ UNCHANGED <<voice, brk>>

IssueBreak ==
  /\ cmd = Idle /\ TakeBreak
  /\ Return("stopped")
  /\ UNCHANGED voice

\* On to the next voice; after the last one the command is done.
NextVoice(label, r) ==
  IF Len(todo) = 1 THEN Return(r)
  ELSE /\ pc' = label /\ todo' = Tail(todo) /\ items' = ItemsOf(cmd)
       /\ UNCHANGED <<cmd, result>>

NextItem(label) ==
  IF Len(items) = 1 THEN NextVoice(label, "none")
  ELSE /\ pc' = label /\ items' = Tail(items)
       /\ UNCHANGED <<cmd, todo, result>>

\* sound_gate, with interrupts masked; toot gates its two voices one by one.
Gate ==
  /\ pc = "gate"
  /\ voice' = [voice EXCEPT ![This] = StartNote(Flushed(@), cmd.note)]
  /\ NextVoice("gate", "none")
  /\ UNCHANGED brk

\* sound_stop, with interrupts masked.
Stop ==
  /\ pc = "stop"
  /\ voice' = [v \in Voices |-> Stopped(voice[v])]
  /\ Return("none")
  /\ UNCHANGED brk

\* sound_env, one field at a time with interrupts enabled.
Store ==
  /\ pc = "store"
  /\ LET f == Head(items) IN
     voice' = [voice EXCEPT ![This].timbre[f] =
                 IF f = "sustain" THEN cmd.env[f] ELSE cmd.env[f] % TimeMod]
  /\ NextItem("store")
  /\ UNCHANGED brk

\* play_one_voice: an empty list, or a word that is not a note.
QueueNothing ==
  /\ pc = "queue" /\ items = <<>>
  /\ NextVoice("queue", "none")
  /\ UNCHANGED <<voice, brk>>

QueueBad ==
  /\ pc = "queue" /\ items # <<>> /\ Head(items) = Bad
  /\ Return("error")
  /\ UNCHANGED <<voice, brk>>

\* sound_queue of one event, with interrupts masked.
QueueNote ==
  /\ pc = "queue" /\ items # <<>> /\ Head(items) # Bad
  /\ IF QueueFree(voice[This]) = 0
     THEN GoTo("full") /\ UNCHANGED voice
     ELSE /\ voice' = [voice EXCEPT ![This] = Queued(@, Head(items))]
          /\ NextItem("queue")
  /\ UNCHANGED brk

\* queue_event_waiting: wait for a slot, unless Brk is pressed.
WaitBreak ==
  /\ pc = "full" /\ TakeBreak
  /\ Return("stopped")
  /\ UNCHANGED voice

WaitOn ==
  /\ pc = "full" /\ ~brk
  /\ GoTo("room")
  /\ UNCHANGED <<voice, brk>>

\* Mutant: the status is read once, before the wait, and found full.
WaitRoomStale ==
  /\ pc = "room"
  /\ GoTo("full")
  /\ UNCHANGED <<voice, brk>>

WaitRoom ==
  /\ pc = "room"
  /\ GoTo(IF QueueFree(voice[This]) = 0 THEN "full" ELSE "queue")
  /\ UNCHANGED <<voice, brk>>

\* sound_status reads the stage and then, if that is idle, the queue.  For
\* playing? a voice that sounds is the answer; toot waits for it.
Sounding == IF cmd.op = "toot" THEN GoTo("busy") ELSE Return("true")

\* Mutant: toot waits for its left voice only.
TootWatchesLeft ==
  IF cmd.op = "toot"
  THEN pc' = "gate" /\ todo' = cmd.voices /\ UNCHANGED <<cmd, items, result>>
  ELSE NextVoice("stage", "false")

NotSounding ==
  IF cmd.op = "toot" /\ Len(todo) = 1
  THEN pc' = "gate" /\ todo' = cmd.voices /\ UNCHANGED <<cmd, items, result>>
  ELSE NextVoice("stage", "false")

StatusStage ==
  /\ pc = "stage"
  /\ IF voice[This].stage # "idle" THEN Sounding ELSE GoTo("head")
  /\ UNCHANGED <<voice, brk>>

StatusQueue ==
  /\ pc = "head"
  /\ IF QueueEmpty(voice[This]) THEN NotSounding ELSE Sounding
  /\ UNCHANGED <<voice, brk>>

\* toot between two looks at its voices.
TootBreak ==
  /\ pc = "busy" /\ TakeBreak
  /\ Return("none")
  /\ UNCHANGED voice

TootWait ==
  /\ pc = "busy" /\ ~brk
  /\ pc' = "stage" /\ todo' = cmd.voices
  /\ UNCHANGED <<voice, brk, cmd, items, result>>

Status == StatusStage \/ StatusQueue \/ TootBreak \/ TootWait
Play == QueueNothing \/ QueueBad \/ QueueNote \/ WaitBreak \/ WaitOn \/ WaitRoom
Run == Gate \/ Stop \/ Store \/ Play \/ Status

Next ==
  \/ Refill
  \/ PressBreak
  \/ \E c \in Commands : Issue(c)
  \/ IssueBreak
  \/ Run

\* The DMA never stops, so the interrupt keeps coming; a command that has
\* begun goes on.  Nothing obliges the program to issue another.
Spec == Init /\ [][Next]_vars /\ WF_vars(Refill) /\ WF_vars(Run)

-----------------------------------------------------------------------------
(* Properties *)

Fields == {"attack", "decay", "sustain", "release"}
Stages == {"idle", "attack", "decay", "sustain", "release"}

Voice ==
  [stage : Stages, env : 0 .. EnvOne, hold : Int, note : Notes \cup {Silence},
   shape : [attack : Nat, decay : Nat, sustain : 0 .. EnvOne, release : Nat],
   timbre : Timbre,
   q : [0 .. QueueLen -> Notes \cup {Silence}], head : 0 .. QueueLen, tail : 0 .. QueueLen]

\* The ring of a voice holds, from head up to tail, the notes it has to play.
Used(x) == (x.tail - x.head + QRing) % QRing
Ring(x) == [i \in 1 .. Used(x) |-> x.q[(x.head + i - 1) % QRing]]

\* What start_note and the sequencer leave a voice in: only notes wait, and a
\* voice that sounds plays a note whose every step moves the envelope.
VoiceOK(x) ==
  /\ x \in Voice
  /\ Ring(x) \in Seq(Notes)
  /\ x.stage # "idle" =>
       x.note \in Notes /\ x.shape.attack >= 1 /\ x.shape.decay >= 1 /\ x.shape.release >= 1

VoicesOK == voice \in [Voices -> Voice] /\ \A v \in Voices : VoiceOK(voice[v])

\* Where the thread is fits its command and the work it has left.
PlaceOK ==
  \/ pc = "idle" /\ cmd = Idle
  \/ pc = "stop" /\ cmd.op = "stopsound"
  \/ /\ todo # <<>>
     /\ \/ pc = "gate" /\ cmd.op \in {"sound", "toot"}
        \/ pc \in {"stage", "head"} /\ cmd.op \in {"toot", "playing?"}
        \/ pc = "busy" /\ cmd.op = "toot"
        \/ pc = "store" /\ cmd.op = "setenv" /\ items \in Seq(Fields) \ {<<>>}
        \/ pc = "queue" /\ cmd.op = "play" /\ items \in Seq(Notes \cup {Bad})
        \/ /\ pc \in {"full", "room"} /\ cmd.op = "play"
           /\ items \in Seq(Notes \cup {Bad}) \ {<<>>} /\ Head(items) # Bad

ThreadOK ==
  /\ cmd \in Commands \cup {Idle}
  /\ todo \in Seq(Voices)
  /\ result \in {"none", "true", "false", "stopped", "error"}
  /\ PlaceOK

\* The envelope never leaves 0 .. EnvOne, whatever the times of setenv, and no
\* stage of it stands still; the thread is where its command has work left
\* (start_note, voice_advance_block, sound_queue, queue_event_waiting).
TypeOK == VoicesOK /\ brk \in BOOLEAN /\ ThreadOK

\* What each voice has to play and what it plays, without rings or envelopes.
Pending == [v \in Voices |-> Ring(voice[v])]
Playing == [v \in Voices |-> IF voice[v].stage = "idle" THEN Silence ELSE voice[v].note]

TheScore == INSTANCE Score WITH Depth <- QueueLen, pending <- Pending, playing <- Playing

\* The engine plays the score: each accepted note once, in the order it was
\* queued, and none dropped but by a flush (sound_queue, voice_advance_block,
\* sound_gate, sound_stop).
ImplementsScore == TheScore!Spec

\* A toot never cuts another toot short: when prim_toot gates a voice, what
\* that voice still plays, if anything, is not a toot.
TootNotes == {c.note : c \in {d \in Commands : d.op = "toot"}}
TootWaits ==
  pc = "gate" /\ cmd.op = "toot" =>
    voice[This].stage = "idle" \/ voice[This].note \notin TootNotes

\* Every command returns: the wait of play for a free slot and the wait of
\* toot for a silent voice end, because the interrupt drains the queues.
Returns == cmd # Idle ~> cmd = Idle

\* Left alone, the music ends: once the program issues nothing, every queue
\* runs empty and every envelope fades to nothing.
FadesOut == <>[](cmd = Idle) => <>[](\A v \in Voices : voice[v].stage = "idle" /\ QueueEmpty(voice[v]))

\* Nothing is waited for in vain, neither by the program nor by the listener: the
\* refill interrupt alone brings every command and every note to its end.
Ends == Returns /\ FadesOut
=============================================================================
