------------------------------ MODULE Keyboard -------------------------------
\* The PicoCalc keyboard driver (devices/picocalc/keyboard.c) and the chars
\* around it: input_read_char and input_can_read of picocalc_console.c, the
\* pollkeys primitive, the flag checks of eval_instruction, and a drawing
\* operation that holds an LCD window open.
\*
\* Three actors share the state. The keyboard processor (external) queues
\* events in its own FIFO. A repeating timer interrupts the thread, and runs to
\* its end before the thread goes on. The thread runs Logo code; its pc names
\* the function it is in:
\*   eval    before an instruction         ready  inside an instruction
\*   drain   keyboard_drain, FIFO read     decode keyboard_poll_once, after it
\*   copy, clear, flush                    keyboard_poll_keys, after the drain
\*   wait, check, take, handle             keyboard_get_key and its reader
\*   peek    input_can_read                bus    another southbridge transfer
\*   blit    between lcd_blit_begin and lcd_blit_end
EXTENDS Sequences, Integers
CONSTANTS Codes,        \* the key codes the keyboard can send
          Break, Ctrl, Enter, Return,
          ModeKeys,     \* F1, F2 and F3: the key is also the screen mode it asks for
          RequestKeys,  \* F4 and F9
          Silent,       \* caps lock and the other modifiers
          Foldable,     \* the keys Ctrl turns into another character
          Watched,      \* the keys whose bits are followed: the bitmaps treat all alike
          NumWords, WordOf,        \* the bitmaps are NumWords words of bits
          FifoSize, RingSize, DrainMax
ASSUME KeyboardAssumption ==
    /\ ModeKeys \cup RequestKeys \cup Silent \cup Foldable \subseteq Codes
    /\ FifoSize \in Nat \ {0} /\ RingSize \in Nat \ {0, 1}
    /\ DrainMax \in Nat \ {0} /\ NumWords \in Nat \ {0}
    /\ WordOf \in [Watched -> 1 .. NumWords]
VARIABLES told,        \* auxiliary: the keys held according to the events queued
          fifo,        \* external: the keyboard processor's event queue
          down,        \* key_down
          pending,     \* key_hit_pending
          latched,     \* key_hit_latched
          control,     \* key_control
          ring, head, tail,             \* rx_buffer, rx_head, rx_tail
          interrupt,   \* user_interrupt
          requests,    \* pause_requested, freeze_requested
          inputActive, \* input_active
          pollBusy,    \* poll_busy
          busInUse,    \* sb_i2c_in_use
          irqLeft,     \* reads left to the timer handler, 0 when it is not running
          pc,
          left,        \* reads left to the thread's drain
          event,       \* the event the thread has read and not decoded, if any
          after,       \* the pc that follows the thread's drain
          word,        \* keyboard_poll_keys' loop index
          char,        \* the character keyboard_get_key has in hand, if any
          mode,        \* screen_mode
          window       \* who holds the LCD window open
external == <<told, fifo>>
bitmaps == <<down, pending, latched>>
buffer == <<ring, head, tail>>
flags == <<interrupt, requests, inputActive>>
locks == <<pollBusy, busInUse, irqLeft>>
loop == <<left, event, after, word>>
screen == <<mode, window>>
vars == <<external, bitmaps, control, buffer, flags, locks, pc, loop, char, screen>>

States == {"pressed", "hold", "released"}
Events == [code : Codes, state : States]
StateCode(code) == IF code = Enter THEN Return ELSE code
Presses(e) == IF e.state = "released" THEN {} ELSE {StateCode(e.code)} \cap Watched
Releases(e) == IF e.state = "released" THEN {StateCode(e.code)} \cap Watched ELSE {}
Shifts(e, ctl) == IF e.code = Ctrl /\ e.state # "hold" THEN e.state = "pressed" ELSE ctl
\* The characters an event adds to the ring, one or none. A character is the
\* code with a flag for the control character or word move it was folded into.
Types(e, ctl) ==
    IF e.state = "pressed" /\ e.code \notin {Ctrl, Break} \cup Silent \cup RequestKeys
    THEN <<<<StateCode(e.code), ctl /\ e.code \in Foldable>>>>
    ELSE <<>>
Word(i) == {code \in Watched : WordOf[code] = i}

Step(i) == (i + 1) % RingSize
\* The characters from tail up to head, oldest first.
Buffered ==
    [i \in 1 .. (head - tail + RingSize) % RingSize |-> ring[(tail + i - 1) % RingSize]]

Init ==
    /\ told = {} /\ fifo = <<>>
    /\ down = {} /\ pending = {} /\ latched = {} /\ control = FALSE
    /\ ring = [i \in 0 .. RingSize - 1 |-> <<>>] /\ head = 0 /\ tail = 0
    /\ interrupt = FALSE /\ requests = {} /\ inputActive = FALSE
    /\ pollBusy = FALSE /\ busInUse = FALSE /\ irqLeft = 0
    /\ pc = "eval" /\ left = 0 /\ event = <<>> /\ after = "eval" /\ word = 1
    /\ char = <<>> /\ mode = "none" /\ window = "none"

-----------------------------------------------------------------------------
\* The keyboard processor. A key held down repeats as fresh presses, a function
\* key and Break as holds. A full FIFO drops the newest event, so that the event
\* after a lost one may be any other.

Sendable ==
    {e \in Events : e.state = "hold" => e.code \in ModeKeys \cup RequestKeys \cup {Break}}

Finger ==
    /\ Len(fifo) < FifoSize
    /\ \E e \in Sendable :
           /\ fifo' = Append(fifo, e)
           /\ told' = (told \cup Presses(e)) \ Releases(e)
    /\ UNCHANGED <<bitmaps, control, buffer, flags, locks, pc, loop, char, screen>>

-----------------------------------------------------------------------------
\* keyboard_poll_once, below the FIFO read: what decoding an event does.

\* screen_set_mode redraws through a window of its own, which it opens and
\* closes: a window that was open is closed under its owner.
HandleModeKey(code) ==
    /\ mode' = code
    /\ window' = IF code = mode THEN window ELSE "none"

Push(ch) ==
    IF Step(head) = tail
    THEN UNCHANGED <<ring, head>>
    ELSE /\ ring' = [ring EXCEPT ![head] = ch]
         /\ head' = Step(head)

TakeInterrupt(e) == interrupt' = (interrupt \/ (e.code = Break /\ e.state = "pressed"))
TakeRequest(e) ==
    requests' = IF e.code \in RequestKeys /\ e.state = "pressed" /\ ~inputActive
                THEN requests \cup {e.code} ELSE requests
TakeModeKey(e) ==
    IF e.code \in ModeKeys /\ e.state = "pressed" /\ ~inputActive
    THEN HandleModeKey(e.code) ELSE UNCHANGED screen
TakeCharacters(e) ==
    IF Types(e, control) = <<>> THEN UNCHANGED <<ring, head>> ELSE Push(Types(e, control)[1])

Decode(e) ==
    /\ pending' = pending \cup (Presses(e) \ down)
    /\ down' = (down \cup Presses(e)) \ Releases(e)
    /\ control' = Shifts(e, control)
    /\ TakeInterrupt(e)
    /\ TakeRequest(e)
    /\ TakeModeKey(e)
    /\ TakeCharacters(e)
    /\ UNCHANGED <<latched, tail, inputActive>>

-----------------------------------------------------------------------------
\* The timer handler: a tick that finds the bus or the driver busy does nothing.

\* Mutant: keyboard_poll does not look at poll_busy.
TickReentered ==
    /\ irqLeft = 0 /\ ~busInUse
    /\ irqLeft' = DrainMax
    /\ pollBusy' = TRUE
    /\ UNCHANGED <<external, bitmaps, control, buffer, flags, busInUse, pc, loop, char, screen>>

Tick ==
    /\ irqLeft = 0 /\ ~busInUse /\ ~pollBusy
    /\ irqLeft' = DrainMax
    /\ pollBusy' = TRUE
    /\ UNCHANGED <<external, bitmaps, control, buffer, flags, busInUse, pc, loop, char,
                   screen>>

IrqPollOnce ==
    /\ irqLeft > 0 /\ fifo # <<>>
    /\ Decode(Head(fifo))
    /\ fifo' = Tail(fifo)
    /\ irqLeft' = irqLeft - 1
    /\ pollBusy' = (irqLeft > 1)
    /\ UNCHANGED <<told, busInUse, pc, loop, char>>

\* Mutant: the early way out of the drain leaves poll_busy set.
IrqPollEndsBusy ==
    /\ irqLeft > 0
    /\ irqLeft' = 0
    /\ UNCHANGED <<external, bitmaps, control, buffer, flags, pollBusy, busInUse, pc, loop, char,
                   screen>>

\* An empty FIFO ends the drain, and so does a read the bus fails.
IrqPollEnds ==
    /\ irqLeft > 0
    /\ irqLeft' = 0
    /\ pollBusy' = FALSE
    /\ UNCHANGED <<external, bitmaps, control, buffer, flags, busInUse, pc, loop, char,
                   screen>>

Irq == Tick \/ IrqPollOnce \/ IrqPollEnds

-----------------------------------------------------------------------------
\* The thread. A running handler keeps it from stepping.

Thread(from, to) == irqLeft = 0 /\ pc = from /\ pc' = to

\* eval_instruction looks at the flags before every instruction.
CheckFlags ==
    /\ \/ interrupt /\ interrupt' = FALSE /\ Thread("eval", "eval") /\ UNCHANGED requests
       \/ ~interrupt /\ Thread("eval", "ready") /\ UNCHANGED <<interrupt, requests>>
       \/ /\ ~interrupt /\ Thread("eval", "ready") /\ UNCHANGED interrupt
          /\ \E r \in requests : requests' = requests \ {r}
    /\ UNCHANGED <<external, bitmaps, control, buffer, inputActive, locks, loop, char,
                   screen>>

NextInstruction ==
    /\ Thread("ready", "eval")
    /\ UNCHANGED <<external, bitmaps, control, buffer, flags, locks, loop, char, screen>>

\* Battery and backlight readings hold the bus.
UseBus ==
    /\ \/ Thread("ready", "bus") /\ busInUse' = TRUE
       \/ Thread("bus", "eval") /\ busInUse' = FALSE
    /\ UNCHANGED <<external, bitmaps, control, buffer, flags, pollBusy, irqLeft, loop, char,
                   screen>>

Draw ==
    /\ \/ Thread("ready", "blit") /\ window' = "thread"
       \/ Thread("blit", "eval") /\ window' = "none"
    /\ UNCHANGED <<external, bitmaps, control, buffer, flags, locks, loop, char, mode>>

\* keyboard_poll and keyboard_poll_keys begin the same drain.
StartDrain(from, next) ==
    /\ Thread(from, "drain")
    /\ pollBusy' = TRUE
    /\ left' = DrainMax
    /\ after' = next

PollKeys ==
    /\ StartDrain("ready", "copy")
    /\ UNCHANGED <<external, bitmaps, control, buffer, flags, busInUse, irqLeft, event, word,
                   char, screen>>

\* Where the thread goes from its drain: keyboard_poll gives the driver back.
EndDrain ==
    /\ pc' = after
    /\ pollBusy' = (after = "copy")
    /\ left' = 0
    /\ after' = "eval"

ThreadPollOnce ==
    /\ fifo # <<>> /\ Thread("drain", "decode")
    /\ fifo' = Tail(fifo)
    /\ event' = <<Head(fifo)>>
    /\ UNCHANGED <<told, bitmaps, control, buffer, flags, locks, left, after, word,
                   char, screen>>

ThreadPollEnds ==
    /\ irqLeft = 0 /\ pc = "drain"
    /\ EndDrain
    /\ UNCHANGED <<external, bitmaps, control, buffer, flags, busInUse, irqLeft, event,
                   word, char, screen>>

ThreadDecode ==
    /\ irqLeft = 0 /\ pc = "decode"
    /\ Decode(event[1])
    /\ event' = <<>>
    /\ IF left > 1
       THEN pc' = "drain" /\ left' = left - 1 /\ UNCHANGED <<pollBusy, after>>
       ELSE EndDrain
    /\ UNCHANGED <<external, busInUse, irqLeft, word, char>>

CopyWord ==
    /\ Thread("copy", "clear")
    /\ latched' = (latched \ Word(word)) \cup (pending \cap Word(word))
    /\ UNCHANGED <<external, down, pending, control, buffer, flags, locks, loop, char,
                   screen>>

\* Mutant: the first word's clear takes the presses of every word with it.
ClearAllWords ==
    /\ Thread("clear", IF word < NumWords THEN "copy" ELSE "flush")
    /\ pending' = {}
    /\ word' = IF word < NumWords THEN word + 1 ELSE 1
    /\ UNCHANGED <<external, down, latched, control, buffer, flags, locks, left, event, after,
                   char, screen>>

ClearWord ==
    /\ Thread("clear", IF word < NumWords THEN "copy" ELSE "flush")
    /\ pending' = pending \ Word(word)
    /\ word' = IF word < NumWords THEN word + 1 ELSE 1
    /\ UNCHANGED <<external, down, latched, control, buffer, flags, locks, left, event, after,
                   char, screen>>

FlushCharacters ==
    /\ Thread("flush", "eval")
    /\ tail' = head
    /\ pollBusy' = FALSE
    /\ UNCHANGED <<external, bitmaps, control, ring, head, flags, busInUse, irqLeft, loop, char,
                   screen>>

-----------------------------------------------------------------------------
\* readchar: input_read_char around keyboard_get_key.

StartReadChar ==
    /\ Thread("ready", "wait")
    /\ inputActive' = TRUE
    /\ UNCHANGED <<external, bitmaps, control, buffer, interrupt, requests, locks, loop, char,
                   screen>>

\* The wait loop polls when its own period has passed, and goes on otherwise.
WaitPoll ==
    /\ head = tail
    /\ StartDrain("wait", "check")
    /\ UNCHANGED <<external, bitmaps, control, buffer, flags, busInUse, irqLeft, event, word,
                   char, screen>>

WaitOn ==
    /\ head = tail /\ Thread("wait", "check")
    /\ UNCHANGED <<external, bitmaps, control, buffer, flags, locks, loop, char, screen>>

\* Break ends the read; the flag is looked at only while no character waits.
WaitCheck ==
    /\ IF interrupt
       THEN Thread("check", "eval") /\ interrupt' = FALSE /\ inputActive' = FALSE
       ELSE Thread("check", "wait") /\ UNCHANGED <<interrupt, inputActive>>
    /\ UNCHANGED <<external, bitmaps, control, buffer, requests, locks, loop, char, screen>>

TakeChar ==
    /\ head # tail /\ Thread("wait", "take")
    /\ char' = ring[tail]
    /\ UNCHANGED <<external, bitmaps, control, buffer, flags, locks, loop, screen>>

\* A mode key switches the screen and the read goes on.
HandleChar ==
    /\ \/ /\ Thread("take", "wait") /\ char[1] \in ModeKeys
          /\ HandleModeKey(char[1]) /\ UNCHANGED inputActive
       \/ /\ Thread("take", "eval") /\ char[1] \notin ModeKeys
          /\ inputActive' = FALSE /\ UNCHANGED screen
    /\ tail' = Step(tail)
    /\ char' = <<>>
    /\ UNCHANGED <<external, bitmaps, control, ring, head, interrupt, requests, locks, loop>>

\* key?: input_can_read eats the mode keys before the first other character.
StartPeek ==
    /\ Thread("ready", "peek")
    /\ inputActive' = TRUE
    /\ UNCHANGED <<external, bitmaps, control, buffer, interrupt, requests, locks, loop, char,
                   screen>>

Peek ==
    /\ IF head # tail /\ ring[tail][1] \in ModeKeys
       THEN /\ Thread("peek", "peek")
            /\ HandleModeKey(ring[tail][1])
            /\ tail' = Step(tail)
            /\ UNCHANGED inputActive
       ELSE /\ Thread("peek", "eval")
            /\ inputActive' = FALSE
            /\ UNCHANGED <<screen, tail>>
    /\ UNCHANGED <<external, bitmaps, control, ring, head, interrupt, requests, locks, loop, char>>

-----------------------------------------------------------------------------
Polling == ThreadPollOnce \/ ThreadPollEnds \/ ThreadDecode
LatchKeys == CopyWord \/ ClearWord \/ FlushCharacters
Reading ==
    \/ WaitPoll \/ WaitOn \/ WaitCheck \/ TakeChar \/ HandleChar \/ Peek
Operation ==
    NextInstruction \/ UseBus \/ Draw \/ PollKeys \/ StartReadChar \/ StartPeek
LogoThread == CheckFlags \/ Operation \/ Polling \/ LatchKeys \/ Reading

Next == Finger \/ Irq \/ LogoThread

\* The timer's period is longer than its handler, so the thread runs between two
\* ticks; the two are not locked to each other, so a tick is not for ever inside
\* a busy bus or a busy driver; and the bus does not fail every read.
Fairness == SF_vars(LogoThread) /\ WF_vars(Irq) /\ SF_vars(Tick) /\ SF_vars(IrqPollOnce)
Spec == Init /\ [][Next]_vars /\ Fairness

-----------------------------------------------------------------------------
\* Every variable stays in the range its C type and its use give it.
TypeOK ==
    /\ told \subseteq Watched
    /\ fifo \in Seq(Events) /\ Len(fifo) <= FifoSize
    /\ down \subseteq Watched /\ pending \subseteq Watched
    /\ latched \subseteq Watched
    /\ head \in 0 .. RingSize - 1 /\ tail \in 0 .. RingSize - 1
    /\ control \in BOOLEAN /\ interrupt \in BOOLEAN /\ inputActive \in BOOLEAN
    /\ requests \subseteq RequestKeys
    /\ pollBusy \in BOOLEAN /\ busInUse \in BOOLEAN /\ irqLeft \in 0 .. DrainMax
    /\ left \in 0 .. DrainMax /\ Len(event) <= 1 /\ word \in 1 .. NumWords
    /\ pc \in {"eval", "ready", "drain", "decode", "copy", "clear", "flush", "wait", "check",
               "take", "peek", "bus", "blit"}
    /\ mode \in ModeKeys \cup {"none"} /\ window \in {"none", "thread"}

\* The events on their way to the bitmap, oldest first.
InFlight == event \o fifo

\* No event is lost, applied twice or applied after a later one: whatever the
\* thread and the timer have each read, replaying the events still on their way
\* over key_down gives the keys the keyboard last reported held
\* (keyboard_poll_once under poll_busy).
HeldAgrees ==
    \A code \in Watched :
        LET about == {i \in 1 .. Len(InFlight) : StateCode(InFlight[i].code) = code}
        IN IF about = {}
           THEN code \in told <=> code \in down
           ELSE code \in told
                  <=> InFlight[CHOOSE i \in about : \A j \in about : j <= i].state # "released"

\* The character keyboard_get_key has in hand is still the oldest one waiting:
\* nothing typed meanwhile has taken its slot (kbd_push stops one short of rx_tail).
InHand == pc = "take" => Buffered # <<>> /\ char = Head(Buffered)

\* Typing is never lost or mixed up on its way, in either context: the bitmap agrees
\* with the keyboard and the events not yet decoded, the character in hand is the
\* oldest, and ring, FIFO and counters keep their bounds.
TypingSound == TypeOK /\ HeldAgrees /\ InHand

\* The driver as its readers see it: a pollkeys takes effect when it hands over
\* its first word, and a read when it frees the character's slot.
Latching == pc \in {"clear", "flush"} \/ (pc = "copy" /\ word > 1)
Copied == UNION {Word(i) : i \in {i \in 1 .. NumWords :
                \/ pc = "flush" \/ i < word \/ (i = word /\ pc = "clear")}}
View == INSTANCE KeyView WITH
    QueueSize <- FifoSize, BufferSize <- RingSize - 1,
    line <- InFlight, modifier <- control,
    hits <- IF Latching THEN {} ELSE pending,
    latched <- IF Latching THEN (latched \cap Copied) \cup (pending \ Copied) ELSE latched,
    typed <- IF Latching THEN <<>> ELSE Buffered

\* The bitmaps and the ring, filled from two contexts and swapped word by word,
\* implement a driver in which events, reads and pollkeys are single steps.
ImplementsKeyView == View!Spec

Quiet == <>[][~Finger]_vars

\* When the player's hands come to rest, the driver comes to agree with the
\* keyboard: no key stays down that the keyboard has reported up
\* (keyboard_drain, on_keyboard_timer).
SettlesDown == Quiet => <>[](down = told)

\* Break gets through: however the thread waits, reads or polls, a raised
\* user_interrupt is taken (eval_instruction, keyboard_get_key).
BreakGetsThrough == Quiet => []<>~interrupt

\* Both, whatever the thread does meanwhile and however often a tick finds the bus
\* taken: every report of the keyboard arrives in the end.
CatchesUp == SettlesDown /\ BreakGetsThrough
=============================================================================
