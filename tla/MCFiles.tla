------------------------------ MODULE MCFiles ------------------------------
(* Instances of Files: one name on the root that the prefix moves to the    *)
(* card, one on the card, and a dribble file on the root.                   *)
EXTENDS Files, TLC

MCFold == [c \in {"a", "A", "b", "d", "sd", "SD", ".", ".."} |->
             CASE c = "A" -> "a" [] c = "SD" -> "sd" [] OTHER -> c]
Rel(parts) == [abs |-> FALSE, parts |-> parts]
Abs(parts) == [abs |-> TRUE, parts |-> parts]

MCWords == {Rel(<<"a">>), Abs(<<"sd", "b">>)}
MCDribbleWords == {Abs(<<"d">>)}
MCPrefixWords == {Abs(<<"sd">>)}
MCWorkspace == <<"x">>
MCDisks == {([vol |-> "root", parts |-> <<"a">>] :> <<"y">>)
            @@ ([vol |-> "card", parts |-> <<"sd", "b">>] :> <<"y", "x">>)}
=============================================================================
