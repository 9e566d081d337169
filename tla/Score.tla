------------------------------- MODULE Score -------------------------------
(***************************************************************************)
(* What the sound engine promises of each voice, without envelopes, rings  *)
(* or interrupts: a first-in first-out score of at most Depth notes, and   *)
(* one note playing.  A note begins when the voice is silent, and is lost  *)
(* only to a flush: a note played at once (`sound`, `toot`) or `stopsound`.*)
(* Module Sound implements this module.                                    *)
(***************************************************************************)
EXTENDS Naturals, Sequences

CONSTANTS
  Voices,     \* the voices of the engine
  Notes,      \* the notes that can be asked for
  Silence,    \* what a voice plays when it plays nothing, not a note
  Depth       \* how many notes may wait on a voice

VARIABLES
  pending,    \* the notes waiting on each voice, first to play first
  playing     \* the note each voice is playing, or Silence

svars == <<pending, playing>>

Init ==
  /\ pending = [v \in Voices |-> <<>>]
  /\ playing = [v \in Voices |-> Silence]

\* `play` adds a note behind those already waiting, when there is room.
Add(v, n) ==
  /\ Len(pending[v]) < Depth
  /\ pending' = [pending EXCEPT ![v] = Append(@, n)]
  /\ UNCHANGED playing

\* `sound` and `toot` play at once, in place of all the voice had to play.
Gate(v, n) ==
  /\ pending' = [pending EXCEPT ![v] = <<>>]
  /\ playing' = [playing EXCEPT ![v] = n]

\* `stopsound` leaves no note waiting; the notes that play fade on their own.
Stop ==
  /\ pending' = [v \in Voices |-> <<>>]
  /\ UNCHANGED playing

\* The voices that have a note to begin.
Due == {v \in Voices : playing[v] = Silence /\ pending[v] # <<>>}

\* Time passes: the notes of E end, and every silent voice with a note
\* waiting begins it.
Pass(E) ==
  /\ pending' = [v \in Voices |-> IF v \in Due THEN Tail(pending[v]) ELSE pending[v]]
  /\ playing' = [v \in Voices |-> IF v \in Due THEN Head(pending[v])
                                  ELSE IF v \in E THEN Silence ELSE playing[v]]

Next ==
  \/ \E v \in Voices, n \in Notes : Add(v, n) \/ Gate(v, n)
  \/ Stop
  \/ \E E \in SUBSET Voices : Pass(E)

Spec == Init /\ [][Next]_svars
=============================================================================
