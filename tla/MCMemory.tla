------------------------------ MODULE MCMemory ------------------------------
(* The small store TLC explores: sizes are those of the real entries, and  *)
(* the block is cut so that atoms and cells compete for its middle.        *)
EXTENDS Memory, TLC

CONSTANTS nl, t, f, a, b, long

MCSize == nl :> 2 @@ t :> 3 @@ f :> 3 @@ a :> 2 @@ b :> 2 @@ long :> 3
MCLiteral == {Nil}
MCHash == nl :> 0 @@ t :> 1 @@ f :> 0 @@ a :> 1 @@ b :> 1 @@ long :> 0
=============================================================================
