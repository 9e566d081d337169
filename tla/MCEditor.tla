------------------------------ MODULE MCEditor ------------------------------
(* The editor on texts of a few characters: the keys offered in a state are  *)
(* those that mean something there, so that a handful of keys reaches the    *)
(* end of long commands.                                                     *)
EXTENDS Editor

MCSittings ==
    {[text |-> <<"a", "b", SP, "1", NL, SP, "a">>, vi |-> TRUE, saves |-> TRUE, keys |-> 6],
     [text |-> <<"a", NL, "(", "b", ")", NL>>, vi |-> TRUE, saves |-> FALSE, keys |-> 5],
     [text |-> <<SP, "a", NL, SP, SP, "b", SP, SP, SP>>, vi |-> FALSE, saves |-> FALSE, keys |-> 5]}

Operand == {"w", "j", "G", "i", "f"}
Plain == {"b", "[", "Enter", "Tab", "Backspace", "Del", "Left", "Down", "^B", "^V", "^X",
          "^C", "^,", "^.", "^F", "End", "Esc", "Brk"}
Changing == {"d", "c", ">", "x", "i", "A", "u", "^R", ".", "2", "w", "G", "j", "^A", ":"}
Moving == {"V", "v", "p", "y", "J", "~", "o", "O", "%", "/", "n", "r", "goto", "u", "."}

MCOffered(e) ==
    CASE e.find.replacing -> {"b", "Enter", "Esc", "Left", "Backspace"}
      [] e.find.on -> {"a", "Down", "Up", "^R", "Esc", "Backspace"}
      [] ~e.vi -> Plain
      [] e.st.mode = "INSERT" -> {"b", "Esc", "Backspace", "Enter", "^V", "Left", "^F"}
      [] e.st.prefix # "" -> CASE e.st.prefix = "r" -> {"b", "Enter"}
                               [] e.st.prefix \in {"i", "a"} -> {"w", "("}
                               [] OTHER -> {"a", "g", "d"}
      [] e.st.op # "" -> Operand \union {e.st.op}
      [] Visual(e.st) -> {"j", "d", "~", ">", "J", "p", "y", "c", "o", "w"}
      [] OTHER -> IF e.saves THEN Changing ELSE Moving

Ex(range, cmd, pat, rep, flag, dest, sub) ==
    [range |-> range, cmd |-> cmd, pat |-> pat, rep |-> rep, flag |-> flag, dest |-> dest,
     sub |-> sub]
Line(n) == [base |-> "n", off |-> n]
LastLine == [base |-> "$", off |-> 0]
All == <<Line(1), LastLine>>
NoSub == [cmd |-> ""]
Sub(pat, rep) == [cmd |-> "s", pat |-> pat, rep |-> rep, flag |-> ""]
A == <<Star(Lit("a"))>>
MCLines ==
    {Ex(<<>>, "Esc", <<>>, <<>>, "", Line(0), NoSub),
     Ex(<<>>, "w", <<>>, <<>>, "", Line(0), NoSub),
     Ex(<<>>, "q", <<>>, <<>>, "", Line(0), NoSub),
     Ex(<<>>, "", <<Lit("b")>>, <<>>, "", Line(0), NoSub),
     Ex(<<LastLine>>, "", <<Lit("a"), Eol>>, <<>>, "", Line(0), NoSub),
     Ex(All, "s", <<Open(1), Lit("a"), Close(1)>>, <<"g1", "b">>, "g", Line(0), NoSub),
     Ex(<<>>, "s", A, <<"b">>, "g", Line(0), NoSub),
     Ex(<<>>, "s", <<Lit("a")>>, <<>>, "", Line(0), NoSub),
     Ex(All, "g", <<Lit("a")>>, <<>>, "", Line(0), [cmd |-> "d"]),
     Ex(<<>>, "v", <<Lit("b")>>, <<>>, "", Line(0), Sub(<<Bol>>, <<"b">>)),
     Ex(<<Line(1)>>, "m", <<>>, <<>>, "", LastLine, NoSub),
     Ex(<<LastLine>>, "t", <<>>, <<>>, "", Line(0), NoSub),
     Ex(<<LastLine>>, "m", <<>>, <<>>, "", Line(0), NoSub)}
=============================================================================
