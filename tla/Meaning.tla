------------------------------ MODULE Meaning -------------------------------
(***************************************************************************)
(* What an instruction line means, by the reference manual: every call is  *)
(* completed where it is met, by plain recursion, with no operation stack, *)
(* no deferral and no reuse of frames.  The evaluator is compared to this. *)
(*                                                                         *)
(* First what a Logo program is made of, as both see it: the tokens of a   *)
(* token source, values, results and procedure frames (core/value.h,       *)
(* core/token_source.c, core/primitives_*.c).  A token source is the       *)
(* sequence of tokens left to read.  The tag of catch and throw is left    *)
(* out, there is one; the only parameter is :n.                            *)
(*                                                                         *)
(* A configuration c is [src, frames, rep, printed, r]: what is left to    *)
(* read, the frames, repcount, what was printed, the last result.          *)
(***************************************************************************)
EXTENDS Integers, Sequences, SequencesExt

VARIABLE defs     \* procedures: name -> [params |-> 0 or 1, body |-> lines]

Num(n) == [k |-> "num", n |-> n]
Bool(b) == [k |-> "bool", b |-> b]
Lst(s) == [k |-> "list", s |-> s]
Word(w) == [k |-> "word", w |-> w]
Infix(o) == [k |-> "infix", o |-> o]
Var == [k |-> "var"]
Open == [k |-> "("]
Close == [k |-> ")"]
Eof == [k |-> "eof"]

(* The inputs a primitive takes outside parentheses (default_args).        *)
Arity == [print |-> 1, output |-> 1, stop |-> 0, run |-> 1, runresult |-> 1,
          if |-> 2, repeat |-> 2, catch |-> 1, throw |-> 0, sum |-> 2,
          repcount |-> 0]

IsPrim(t) == t.k = "word" /\ t.w \in DOMAIN Arity
IsProc(t) == t.k = "word" /\ t.w \in DOMAIN defs

NextToken(src) == IF src = <<>> THEN Eof ELSE Head(src)
AtEnd(src) == src = <<>>

(* Binding powers of the Pratt parser; 0 is BP_NONE.                       *)
Power(t) == IF t.k # "infix" THEN 0 ELSE IF t.o = "=" THEN 10 ELSE 20

Nothing == [k |-> "nothing"]
Result(s, v) == [s |-> s, v |-> v]
None == Result("none", Nothing)
Ok(v) == Result("ok", v)
Stop == Result("stop", Nothing)
Output(v) == Result("output", v)
Throw == Result("throw", Nothing)
Error == Result("error", Nothing)

Leaves(r) == r.s \in {"stop", "output", "throw", "error"}

Apply(o, a, b) ==
  IF o = "=" THEN Ok(Bool(a = b))
  ELSE IF a.k # "num" \/ b.k # "num" THEN Error
  ELSE Ok(Num(IF o = "+" THEN a.n + b.n ELSE a.n - b.n))

Sums(args) ==
  IF \E i \in DOMAIN args : args[i].k # "num" THEN Error
  ELSE Ok(Num(FoldSeq(LAMBDA a, s : a.n + s, 0, args)))

(* A frame binds :n when its procedure has a parameter; a name is looked   *)
(* up through the frames of all the callers.                               *)
Frame(p, args) ==
  [proc |-> p, bound |-> args # <<>>,
   n |-> IF args = <<>> THEN Nothing ELSE args[1]]
Lookup(frames) ==
  LET binds == {i \in DOMAIN frames : frames[i].bound}
  IN  IF binds = {} THEN Error
      ELSE Ok(frames[CHOOSE i \in binds : \A j \in binds : j <= i].n)

Runnable(v) == v.k = "list"

(* What `if` decides from its inputs: the list to run, or why not.         *)
Branch(args) ==
  IF Len(args) < 2 \/ args[1].k # "bool" \/ ~Runnable(args[2]) THEN Error
  ELSE IF args[1].b THEN Ok(args[2])
  ELSE IF Len(args) >= 3 THEN Ok(args[3]) ELSE None

-----------------------------------------------------------------------------
(* The meaning.                                                              *)

Returns(c, r) == [c EXCEPT !.r = r]
Skip(c) == [c EXCEPT !.src = Tail(@)]

RECURSIVE MExpr(_, _), MInstructions(_, _), MRepeat(_, _, _, _), MLines(_, _),
          MInputs(_, _, _), MClimb(_, _)

(* Instructions of c.src up to its end; a value is wanted only from the    *)
(* last one of an expression list.                                         *)
MNext(d, wantsValue) ==
  CASE d.r.s = "none" -> MInstructions(d, wantsValue)
    [] d.r.s = "ok" -> IF wantsValue /\ AtEnd(d.src) THEN d ELSE Returns(d, Error)
    [] OTHER -> d
MInstructions(c, wantsValue) ==
  IF AtEnd(c.src) THEN Returns(c, None) ELSE MNext(MExpr(c, 0), wantsValue)

Resume(d, c) == [d EXCEPT !.src = c.src]
MRun(c, list, wantsValue) ==
  Resume(MInstructions([c EXCEPT !.src = list], wantsValue), c)

MTurn(d, list, i, count) == IF Leaves(d.r) THEN d ELSE MRepeat(d, list, i + 1, count)
MRepeat(c, list, i, count) ==
  IF i > count THEN Returns(c, None)
  ELSE MTurn(MRun([c EXCEPT !.rep = i], list, FALSE), list, i, count)

MNextLine(d, lines) == IF Leaves(d.r) THEN d ELSE MLines(d, lines)
MLines(c, lines) ==
  IF lines = <<>> THEN Returns(c, None)
  ELSE MNextLine(MRun(c, Head(lines), FALSE), Tail(lines))

(* A procedure: its lines in a frame of their own.                         *)
MLeave(d, c) ==
  [d EXCEPT !.frames = c.frames,
            !.r = CASE @.s = "stop" -> None [] @.s = "output" -> Ok(@.v) [] OTHER -> @]
MCall(c, p, args) ==
  MLeave(MLines([c EXCEPT !.frames = Append(@, Frame(p, args))], defs[p].body), c)

(* The control structures, with the list they run.                         *)
MCaught(d, c) ==
  IF d.r.s = "throw" THEN Returns([d EXCEPT !.rep = c.rep], None) ELSE d
MAsList(d) ==
  [d EXCEPT !.r = CASE @.s = "ok" -> Ok(Lst(<<@.v>>)) [] @.s = "none" -> Ok(Lst(<<>>))
                    [] OTHER -> @]
MControl(c, w, body, first) ==
  CASE ~Runnable(body) -> Returns(c, Error)
    [] w = "repeat" -> [MRepeat(c, body.s, 1, first.n) EXCEPT !.rep = c.rep]
    [] w = "catch" -> MCaught(MRun(c, body.s, FALSE), c)
    [] w = "runresult" -> MAsList(MRun(c, body.s, TRUE))
    [] OTHER -> MRun(c, body.s, TRUE)

MPerform(c, w, args) ==
  CASE w = "print" -> Returns([c EXCEPT !.printed = Append(@, args)], None)
    [] w = "sum" -> Returns(c, Sums(args))
    [] w = "repcount" -> Returns(c, Ok(Num(c.rep)))
    [] w = "throw" -> Returns(c, Throw)
    [] w \in {"stop", "output"} /\ c.frames = <<>> -> Returns(c, Error)
    [] w = "stop" -> Returns(c, Stop)
    [] w = "output" -> Returns(c, Output(args[1]))
    [] w = "if" /\ Branch(args).s # "ok" -> Returns(c, Branch(args))
    [] w = "repeat" /\ args[1].k # "num" -> Returns(c, Error)
    [] OTHER ->
         MControl(c, w, CASE w = "if" -> Branch(args).v [] w = "repeat" -> args[2]
                          [] OTHER -> args[1],
                  args[1])

(* The inputs of a call, `want` of them or (-1) all there are: each must   *)
(* output, and there must be enough.                                       *)
MInput(d, want, args) ==
  CASE d.r.s = "ok" -> MInputs(d, want, Append(args, d.r.v))
    [] d.r.s = "none" -> [c |-> Returns(d, Error), args |-> args]
    [] OTHER -> [c |-> d, args |-> args]
MInputs(c, want, args) ==
  IF Len(args) = want THEN [c |-> Returns(c, None), args |-> args]
  ELSE IF NextToken(c.src).k \in {"eof", ")"}
  THEN [c |-> Returns(c, IF want = -1 THEN None ELSE Error), args |-> args]
  ELSE MInput(MExpr(c, 0), want, args)

Closed(c) == IF NextToken(c.src).k = ")" THEN Skip(c) ELSE c
MGroup(d) == IF Leaves(d.r) THEN d ELSE Closed(d)
MParenthesised(g, w) ==
  IF g.c.r # None THEN g.c ELSE MPerform(Closed(g.c), w, g.args)
MPlain(g, w) == IF g.c.r # None THEN g.c ELSE MPerform(g.c, w, g.args)
MUser(g, p) == IF g.c.r # None THEN g.c ELSE MCall(g.c, p, g.args)

(* (w input ...) calls w; (w + ...) for a w without inputs is a group.     *)
Calls(src) ==
  /\ IsPrim(NextToken(src))
  /\ Arity[Head(src).w] = 0 => Power(NextToken(Tail(src))) = 0

MPrimary(c) ==
  LET t == NextToken(c.src) IN
  CASE t.k \in {"num", "bool", "list"} -> Returns(Skip(c), Ok(t))
    [] t.k = "var" -> Returns(Skip(c), Lookup(c.frames))
    [] t.k = "(" /\ Calls(Tail(c.src)) ->
         MParenthesised(MInputs(Skip(Skip(c)), -1, <<>>), c.src[2].w)
    [] t.k = "(" -> MGroup(MExpr(Skip(c), 0))
    [] IsPrim(t) -> MPlain(MInputs(Skip(c), Arity[t.w], <<>>), t.w)
    [] IsProc(t) -> MUser(MInputs(Skip(c), defs[t.w].params, <<>>), t.w)
    [] OTHER -> Returns(c, Error)

(* Infix operators, by their binding powers, to the left.                  *)
MOperate(d, t, left, power) ==
  CASE d.r.s = "ok" -> MClimb(Returns(d, Apply(t.o, left, d.r.v)), power)
    [] d.r.s = "none" -> Returns(d, Error)
    [] OTHER -> d
MClimb(c, power) ==
  LET t == NextToken(c.src) IN
  IF c.r.s # "ok" \/ Power(t) = 0 \/ Power(t) < power THEN c
  ELSE MOperate(MExpr(Skip(c), Power(t) + 1), t, c.r.v, power)
MExpr(c, power) == MClimb(MPrimary(c), power)

(* A line typed at top level: what it prints and how it ends.              *)
MShown(c) ==
  [printed |-> c.printed,
   ends |-> CASE c.r = None -> "done" [] c.r = Throw -> "throw" [] OTHER -> "error"]
Meant(line) ==
  MShown(MInstructions([src |-> line, frames |-> <<>>, rep |-> -1,
                        printed |-> <<>>, r |-> None], FALSE))
=============================================================================
