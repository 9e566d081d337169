----------------------------- MODULE MCEvaluator ----------------------------
(* Small programs for Evaluator: f :n tests for its base case, then calls   *)
(* itself with :n - 1 from inside every nest of an expression in a command  *)
(* in a control structure; g takes no inputs.                               *)
EXTENDS Evaluator

W(w) == Word(w)
Self == <<W("f"), Var, Infix("-"), Num(1)>>
True == <<Num(1), Infix("="), Num(1)>>
In(s) == <<Open>> \o s \o <<Close>>
If(s) == <<W("if")>> \o True \o <<Lst(s)>>
Catch(s) == <<W("catch"), Lst(s \o <<W("print"), Num(5)>>)>>

Exprs ==
  { Self, <<Num(1), Infix("+")>> \o Self, In(Self) \o <<Infix("+"), Num(1)>>,
    <<W("sum"), W("g")>> \o Self, In(<<W("sum")>> \o Self \o <<W("g")>>),
    <<W("run"), Lst(Self)>>, If(Self), <<W("f")>> \o Self }
Commands == UNION { {e, <<W("output")>> \o e, <<W("print")>> \o e} : e \in Exprs }
Controls(c) ==
  { c, If(c), <<W("run"), Lst(c)>>,
    <<W("repeat"), Num(2), Lst(<<W("print"), W("repcount")>> \o c)>>,
    Catch(c), <<W("print"), W("runresult"), Lst(c)>>,
    <<W("if"), W("g"), Infix("="), Num(1), Lst(c)>> }
Steps == UNION { Controls(c) : c \in Commands }

(* Two shapes in which the evaluator departs from the manual; the run       *)
(* evaluator_tail shows the first.                                          *)
Transparent == {Self, <<W("run"), Lst(Self)>>, If(Self)}
TestedByCall == { <<W("if"), W("g"), Infix("="), Num(1), Lst(e)>> : e \in Transparent }
OutputFromCatch == { Catch(<<W("output")>> \o e) : e \in Transparent }

Bases == {<<W("stop")>>, <<W("output"), Num(0)>>, <<W("throw")>>}
Def(b, s, after) ==
  [params |-> 1,
   body |-> <<<<W("if"), Var, Infix("="), Num(0), Lst(b)>>, s, after>>]
After == {<<>>, <<W("print"), Var>>}

GBodies ==
  { [params |-> 0, body |-> <<l>>] :
    l \in {<<W("output"), Num(1)>>, <<W("print"), Num(3)>>, If(<<W("throw")>>)} }
With(steps) ==
  {("f" :> f) @@ ("g" :> g) :
     f \in {Def(b, s, a) : b \in Bases, s \in steps, a \in After}, g \in GBodies}
Programs == With(Steps \ (TestedByCall \cup OutputFromCatch))
TailPrograms == With(TestedByCall)

TailSteps == {Self, <<W("output")>> \o Self, If(Self), If(<<W("output")>> \o Self)}
TailRecursive == {Def(b, s, <<>>) : b \in Bases, s \in TailSteps} \cup GBodies

F(n) == <<W("f"), Num(n)>>
Typed ==
  { F(2), <<W("print")>> \o F(1) \o <<W("print"), Num(9)>>,
    <<W("print"), Num(5), Infix("-"), Num(1), Infix("+")>> \o F(1),
    <<W("repeat"), Num(2), Lst(<<W("catch"), Lst(F(1))>>)>>,
    <<W("run"), Lst(F(1)), W("print"), Num(8)>> }
=============================================================================
