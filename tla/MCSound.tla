------------------------------ MODULE MCSound ------------------------------
(* Values for module Sound: two voices with a queue of two, an envelope of *)
(* two steps, and commands that use every primitive.                       *)
EXTENDS Sound

MCNotes == {"do", "re", "beep"}
MCDur == [do |-> 0, re |-> 5, beep |-> 0]
MCTimbre == [attack |-> 0, decay |-> 0, sustain |-> 15, release |-> 4]
Plucked == [attack |-> 0, decay |-> 0, sustain |-> 0, release |-> 4]
MCCommands ==
  {[op |-> "play", voices |-> <<0>>, notes |-> <<"do", "re", "do">>],
   [op |-> "play", voices |-> <<0, 4>>, notes |-> <<>>],
   [op |-> "play", voices |-> <<0>>, notes |-> <<"re", Bad>>],
   [op |-> "sound", voices |-> <<0>>, note |-> "do"],
   [op |-> "toot", voices |-> <<0, 4>>, note |-> "beep"],
   [op |-> "setenv", voices |-> <<4>>, env |-> Plucked],
   [op |-> "playing?", voices |-> <<0, 4>>],
   [op |-> "stopsound"]}
=============================================================================
