------------------------------- MODULE KeyView -------------------------------
\* What the keyboard driver promises its readers: the events of the keyboard
\* processor are applied one at a time, in the order they were queued, to two
\* views of the keyboard, the characters waiting for readchar and the set of
\* keys that are down with the presses a game has not been told of; pollkeys
\* hands over those presses and empties the characters in a single step.
EXTENDS Sequences, Naturals
CONSTANTS Events,       \* the events the keyboard processor can queue
          QueueSize,    \* its queue drops the newest event beyond this length
          BufferSize,   \* so does the character buffer
          Presses(_),   \* the key an event reports held, as a set
          Releases(_),  \* the key an event reports released, as a set
          Types(_, _),  \* the characters an event types under a modifier state
          Shifts(_, _)  \* the modifier state an event leaves
VARIABLES line,      \* queued events, not applied yet
          modifier,  \* the modifier keys, as the applied events left them
          down,      \* the keys that are down
          hits,      \* the presses since the last Poll
          latched,   \* the presses Poll handed over
          typed      \* characters typed and not read
vars == <<line, modifier, down, hits, latched, typed>>

Init ==
    /\ line = <<>> /\ modifier = FALSE /\ down = {} /\ hits = {}
    /\ latched = {} /\ typed = <<>>

Arrive(e) ==
    /\ Len(line) <= QueueSize
    /\ line' = Append(line, e)
    /\ UNCHANGED <<modifier, down, hits, latched, typed>>

Apply ==
    LET e == Head(line)
        chars == Types(e, modifier)
    IN /\ line # <<>>
       /\ line' = Tail(line)
       /\ modifier' = Shifts(e, modifier)
       /\ down' = (down \cup Presses(e)) \ Releases(e)
       /\ hits' = hits \cup (Presses(e) \ down)
       /\ typed' = IF Len(typed) < BufferSize THEN typed \o chars ELSE typed
       /\ UNCHANGED <<latched>>

Poll ==
    /\ latched' = hits
    /\ hits' = {}
    /\ typed' = <<>>
    /\ UNCHANGED <<line, modifier, down>>

Read ==
    /\ typed # <<>>
    /\ typed' = Tail(typed)
    /\ UNCHANGED <<line, modifier, down, hits, latched>>

Next == Apply \/ Poll \/ Read \/ \E e \in Events : Arrive(e)
Spec == Init /\ [][Next]_vars
=============================================================================
