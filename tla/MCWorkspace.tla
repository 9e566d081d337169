---------------------------- MODULE MCWorkspace ----------------------------
(* Instances of Workspace.  Six kinds of program keep its parts apart: they  *)
(* fill the table of globals with colliding names; call and pause; test;    *)
(* redefine and erase what they call; define, erase and alias; have         *)
(* property lists.                                                          *)
EXTENDS Workspace

MCFold == [w \in Words |-> IF w = "X" THEN "x" ELSE w]
MCHome == [n \in {"x", "y", "z"} |-> IF n = "z" THEN 2 ELSE 1]
MCInputs == [t \in Texts |-> IF t = "one" THEN <<"x">> ELSE << >>]
MCBuiltins == <<"z">>

Pairs2(a, b) == << <<"x", a>>, <<"y", b>> >>
MCPrograms ==
  {[verbs |-> {"make", "local", "ern", "buryname", "erall"}, words |-> Words, things |-> Things,
    library |-> << >>],
   [verbs |-> {"make", "local", "localmake", "call", "pause"}, words |-> {"x", "y"},
    things |-> {1}, library |-> Pairs2("none", "one")],
   [verbs |-> {"call", "test", "pause"}, words |-> {"x", "y"}, things |-> {1},
    library |-> Pairs2("none", "one")],
   [verbs |-> {"call", "define"}, words |-> {"x", "y"}, things |-> {1}, library |-> Pairs2("one", "one")],
   [verbs |-> {"define", "copydef", "mark", "erall"}, words |-> Words, things |-> {1},
    library |-> << >>],
   [verbs |-> {"pprop", "erall"}, words |-> {"x", "X", "y"}, things |-> {1}, library |-> << >>]}
=============================================================================
