----------------------------- MODULE Evaluator ------------------------------
(***************************************************************************)
(* The trampolined evaluator (core/eval.c, eval_expr.c, eval_steps.c,      *)
(* eval_ops.c).  Control flow lives on an explicit operation stack: a call *)
(* met inside a procedure is deferred, what surrounds it is parked in      *)
(* operations below it, and the trampoline runs the top operation until    *)
(* the stack is back at its base.  A procedure that calls itself in tail   *)
(* position reuses its frame.                                              *)
(*                                                                         *)
(* A machine m holds what the C code mutates: the fields of Evaluator, the *)
(* shared operation stack, the frames, the pending tail call, what was     *)
(* printed, and in r the Result of the last C function to return.  The     *)
(* limits on the depth of the stacks are left out.                         *)
(***************************************************************************)
EXTENDS Meaning, TLC

CONSTANTS
  Workspaces,  \* the procedures that may be defined: functions on names
  Loops,       \* definitions whose only call of themselves comes last
  Lines        \* the instruction lines typed at top level

VARIABLES
  ops,       \* global_op_stack
  frames,    \* global_frame_stack
  tailCall,  \* tail_call_state
  line,      \* the last line typed, <<>> before the first
  shown      \* what it printed, how it ended, how deep the frames went

vars == <<defs, ops, frames, tailCall, line, shown>>

-----------------------------------------------------------------------------
(* The operation stack.                                                    *)

NewOp(kind) == [kind |-> kind, result |-> None]
Push(m, op) == [m EXCEPT !.ops = Append(@, op)]
Pop(m) == [m EXCEPT !.ops = Front(@)]
PopTo(m, n) == [m EXCEPT !.ops = SubSeq(@, 1, n)]
Insert(m, n, op) == [m EXCEPT !.ops = InsertAt(@, n + 1, op)]
Depth(m) == Len(m.ops)
Top(m) == Last(m.ops)

Gives(m, r) == [m EXCEPT !.r = r]
Advance(m) == [m EXCEPT !.src = Tail(@)]
Peek(m) == NextToken(m.src)
Consume(m) == [m EXCEPT !.ops[Depth(m)].result = None]

RunOp(m, wantsValue, tco) ==
  NewOp(IF wantsValue THEN "run_expr" ELSE "run")
    @@ [tco |-> tco, saved |-> m.src]
PushRun(m, list, wantsValue, tco) ==
  Gives([Push(m, RunOp(m, wantsValue, tco)) EXCEPT !.src = list], None)

NoTailCall == [is |-> FALSE, proc |-> "", output |-> FALSE, args |-> <<>>]
PushProc(m, p, args) ==
  LET op == NewOp("proc") @@ [proc |-> p, lines |-> defs[p].body, started |-> FALSE,
                              mode |-> "none"]
      fs == Append(m.frames, Frame(p, args))
  IN  [Push(m, op) EXCEPT !.frames = fs, !.depth = @ + 1, !.tailCall = NoTailCall,
                          !.peak = IF Len(fs) > @ THEN Len(fs) ELSE @,
                          !.r = None]

-----------------------------------------------------------------------------
(* Tail-call lookahead: skip an instruction without running it.  A result  *)
(* is the tokens left, or Stuck.                                           *)

Stuck == <<Eof>>

RECURSIVE SkipExpr(_, _), SkipInfix(_, _), SkipInputs(_, _), SkipParen(_)

SkipInputs(src, n) ==
  IF n = 0 \/ src = Stuck \/ AtEnd(src) \/ Head(src).k = ")" THEN src
  ELSE SkipInputs(SkipExpr(src, 0), n - 1)

SkipParen(src) ==
  IF src = Stuck \/ AtEnd(src) THEN Stuck
  ELSE IF Head(src).k = ")" THEN Tail(src)
  ELSE SkipParen(SkipExpr(src, 0))

SkipPrimary(src) ==
  LET t == NextToken(src) IN
  CASE t.k \in {"num", "bool", "var", "list"} -> Tail(src)
    [] IsPrim(t) -> SkipInputs(Tail(src), Arity[t.w])
    [] IsProc(t) -> SkipInputs(Tail(src), defs[t.w].params)
    [] t.k = "word" -> Tail(src)
    [] t.k = "(" -> SkipParen(Tail(src))
    [] OTHER -> Stuck

SkipInfix(src, power) ==
  LET p == Power(NextToken(src)) IN
  IF src = Stuck \/ p = 0 \/ p < power THEN src
  ELSE SkipInfix(SkipExpr(Tail(src), p + 1), power)

SkipExpr(src, power) == SkipInfix(SkipPrimary(src), power)

IsLastInstruction(src) == AtEnd(SkipExpr(src, 0))

-----------------------------------------------------------------------------
RECURSIVE EvalExpr(_, _), Climb(_), Trampoline(_, _), PrimInputs(_, _, _, _),
          ParenInputs(_, _, _, _), ProcInputs(_, _, _), ParenInfix(_),
          MoreInputs(_, _)

(* eval_push_if and its siblings: below base 0 the operation waits for the *)
(* trampoline that is running; catch and runresult always run their own.   *)
PushControl(m, op, always) ==
  IF Depth(m) > 0 /\ ~always THEN Gives(Push(m, op), None)
  ELSE Trampoline(Push(m, op), Depth(m))

IfOp(m) == NewOp("if") @@ [started |-> FALSE, tco |-> m.tail /\ m.depth > 0]
ControlOp(m, w, args) ==
  CASE w \in {"run", "if"} -> IfOp(m)
    [] w = "repeat" ->
         NewOp("repeat") @@ [count |-> args[1].n, i |-> 0, before |-> m.rep]
    [] OTHER -> NewOp(w) @@ [started |-> FALSE]

Control(m, w, body, args) ==
  IF ~Runnable(body) THEN Gives(m, Error)
  ELSE PushControl(m, ControlOp(m, w, args) @@ [body |-> body.s],
                   w \in {"catch", "runresult"})

CallPrimitive(m, w, args) ==
  CASE w = "print" -> Gives([m EXCEPT !.printed = Append(@, args)], None)
    [] w = "sum" -> Gives(m, Sums(args))
    [] w = "repcount" -> Gives(m, Ok(Num(m.rep)))
    [] w = "throw" -> Gives(m, Throw)
    [] w \in {"stop", "output"} /\ m.depth = 0 -> Gives(m, Error)
    [] w = "stop" -> Gives(m, Stop)
    [] w = "output" -> Gives(m, Output(args[1]))
    [] w = "if" /\ Branch(args).s # "ok" -> Gives(m, Branch(args))
    [] w = "repeat" /\ args[1].k # "num" -> Gives(m, Error)
    [] OTHER ->
         Control(m, w, CASE w = "if" -> Branch(args).v [] w = "repeat" -> args[2]
                         [] OTHER -> args[1],
                 args)

-----------------------------------------------------------------------------
(* The inputs of a call.  The operation at index `staged` (0 for none) is  *)
(* ready to take over when an input is deferred.  g.ok says the call may   *)
(* go ahead; otherwise g.m.r is what to return.                            *)

Deferred(m, depth) == m.r.s = "none" /\ Depth(m) > depth
Ready(m, args) == [m |-> m, args |-> args, ok |-> TRUE]
Away(m, args) == [m |-> m, args |-> args, ok |-> FALSE]
Unstage(m, staged) == IF staged # 0 THEN Pop(m) ELSE m
NoMoreInputs(m) == Peek(m).k \in {"eof", ")"}
InTail(m, tail) == [m EXCEPT !.tail = tail]

PrimOp(w, total) ==
  NewOp("prim") @@ [w |-> w, total |-> total, args |-> <<>>, tail |-> FALSE]

(* Only the input of output is in tail position.                           *)
InputInTail(m, w) == w = "output" /\ m.depth > 0

PrimInput(x, m, w, staged, args) ==
  CASE staged # 0 /\ Deferred(x, staged) ->
         Away([x EXCEPT !.primArgs = @ - 1, !.ops[staged].args = args,
                        !.ops[staged].tail = InputInTail(m, w)], args)
    [] Leaves(x.r) -> Away([Unstage(x, staged) EXCEPT !.primArgs = @ - 1], args)
    [] x.r.s = "none" ->
         Away([Unstage(x, staged) EXCEPT !.primArgs = @ - 1, !.r = Error], args)
    [] OTHER -> PrimInputs(x, w, staged, Append(args, x.r.v))
PrimInputs(m, w, staged, args) ==
  IF Len(args) = Arity[w] \/ NoMoreInputs(m) THEN Ready(m, args)
  ELSE PrimInput(InTail(EvalExpr(InTail(m, InputInTail(m, w)), 0), m.tail),
                 m, w, staged, args)

(* A call of a primitive outside parentheses.                              *)
PerformPrim(g, w, staging) ==
  IF ~g.ok THEN g.m
  ELSE LET y == [IF staging THEN Pop(g.m) ELSE g.m EXCEPT !.primArgs = @ - 1]
       IN  IF Len(g.args) < Arity[w] THEN Gives(y, Error)
           ELSE CallPrimitive(y, w, g.args)
EvalPrim(m, w) ==
  IF m.depth > 0 /\ Arity[w] > 0
  THEN PerformPrim(PrimInputs([Push(m, PrimOp(w, Arity[w])) EXCEPT !.primArgs = @ + 1],
                              w, Depth(m) + 1, <<>>), w, TRUE)
  ELSE PerformPrim(PrimInputs([m EXCEPT !.primArgs = @ + 1], w, 0, <<>>), w, FALSE)

(* (w input input ...): every input up to the closing parenthesis.         *)
Closing(m) == IF Peek(m).k = ")" THEN Advance(m) ELSE m

ParenInput(x, w, staged, args) ==
  CASE staged # 0 /\ Deferred(x, staged) ->
         Away([x EXCEPT !.primArgs = @ - 1, !.ops[staged].args = args], args)
    [] x.r.s = "error" -> Away([Unstage(x, staged) EXCEPT !.primArgs = @ - 1], args)
    [] x.r.s = "ok" -> ParenInputs(x, w, staged, Append(args, x.r.v))
    [] OTHER -> Ready(x, args)
ParenInputs(m, w, staged, args) ==
  IF NoMoreInputs(m) THEN Ready(m, args)
  ELSE ParenInput(InTail(EvalExpr(InTail(m, FALSE), 0), m.tail), w, staged, args)

PerformParen(g, w, staging) ==
  IF ~g.ok THEN g.m
  ELSE CallPrimitive(Closing([IF staging THEN Pop(g.m) ELSE g.m EXCEPT !.primArgs = @ - 1]),
                     w, g.args)
EvalParenPrim(m, w) ==
  IF m.depth > 0
  THEN PerformParen(ParenInputs([Push(m, PrimOp(w, -1)) EXCEPT !.primArgs = @ + 1],
                                w, Depth(m) + 1, <<>>), w, TRUE)
  ELSE PerformParen(ParenInputs([m EXCEPT !.primArgs = @ + 1], w, 0, <<>>), w, FALSE)

(* (w + ...) for a primitive of no inputs.                                 *)
ParenOperate(x, t, left) ==
  IF x.r.s # "ok" THEN x ELSE ParenInfix(Gives(x, Apply(t.o, left, x.r.v)))
ParenInfix(m) ==
  IF m.r.s # "ok" THEN m
  ELSE IF Power(Peek(m)) = 0 THEN Closing(m)
  ELSE ParenOperate(EvalExpr(Advance(m), Power(Peek(m)) + 1), Peek(m), m.r.v)

(* A parenthesis that only groups: never in tail position; one whose body  *)
(* was deferred parks its closing parenthesis below what was pushed.       *)
Grouped(x, depth) ==
  IF Deferred(x, depth) THEN Insert(x, depth, NewOp("group") @@ [saved |-> x.src])
  ELSE IF x.r.s = "error" THEN x ELSE Closing(x)

\* Mutant: a call in parentheses keeps the tail position of what surrounds it.
EvalGroupInTail(m) == Grouped(EvalExpr(m, 0), Depth(m))

EvalGroup(m) == Grouped(InTail(EvalExpr(InTail(m, FALSE), 0), m.tail), Depth(m))

-----------------------------------------------------------------------------
(* A call of a user procedure: a tail call of the procedure that is        *)
(* running, a deferred call inside a procedure, or a call run at once.     *)

ProcInput(x, p, args) ==
  CASE Leaves(x.r) -> Away([x EXCEPT !.procArgs = @ - 1], args)
    [] x.r.s = "none" -> Away([x EXCEPT !.procArgs = @ - 1, !.r = Error], args)
    [] OTHER -> ProcInputs(x, p, Append(args, x.r.v))
ProcInputs(m, p, args) ==
  IF Len(args) = defs[p].params \/ NoMoreInputs(m) THEN Ready(m, args)
  ELSE ProcInput(InTail(EvalExpr(InTail(m, FALSE), 0), m.tail), p, args)

IsTailCall(m, p) ==
  m.tail /\ m.depth > 0 /\ m.frames # <<>> /\ Last(m.frames).proc = p
CallProc(m, p, args) ==
  CASE Len(args) < defs[p].params -> Gives(m, Error)
    [] Len(args) = defs[p].params /\ IsTailCall(m, p) ->
         Gives([m EXCEPT !.tailCall = [is |-> TRUE, proc |-> p, args |-> args,
                                       output |-> m.primArgs > 0]], Stop)
    [] OTHER ->
         IF m.depth > 0 /\ m.procArgs = 0 THEN PushProc(m, p, args)
         ELSE Trampoline(PushProc(m, p, args), Depth(m))
PerformProc(g, p) ==
  IF g.ok THEN CallProc([g.m EXCEPT !.procArgs = @ - 1], p, g.args) ELSE g.m
EvalProc(m, p) == PerformProc(ProcInputs([m EXCEPT !.procArgs = @ + 1], p, <<>>), p)

EvalPrimary(m) ==
  LET t == Peek(m) IN
  CASE t.k \in {"num", "bool", "list"} -> Gives(Advance(m), Ok(t))
    [] t.k = "var" -> Gives(Advance(m), Lookup(m.frames))
    [] t.k = "(" /\ Calls(Tail(m.src)) -> EvalParenPrim(Advance(Advance(m)), m.src[2].w)
    [] t.k = "(" /\ IsPrim(NextToken(Tail(m.src))) ->
         ParenInfix(CallPrimitive(Advance(Advance(m)), m.src[2].w, <<>>))
    [] t.k = "(" -> EvalGroup(Advance(m))
    [] IsPrim(t) -> EvalPrim(Advance(m), t.w)
    [] IsProc(t) -> EvalProc(Advance(m), t.w)
    [] OTHER -> Gives(m, Error)

-----------------------------------------------------------------------------
(* Expressions.  Climb is the loop of eval_expr_bp over c = [m, pend, bp,  *)
(* fresh]: m.r holds the left operand, pend the operators still waiting.   *)
(* It ends with c.ends = "value", "left" (m.r is what to return) or        *)
(* "deferred" (at depth c.at).                                             *)

Ends(c, how, at) == c @@ [ends |-> how, at |-> at]
Reduced(c, v) ==
  IF v.s # "ok" THEN Ends([c EXCEPT !.m.r = v], "left", 0)
  ELSE Climb([c EXCEPT !.m.r = v, !.pend = Front(@), !.bp = Last(c.pend).bp])
Reduce(c) ==
  IF c.pend = <<>> THEN Ends(c, "value", 0)
  ELSE Reduced(c, Apply(Last(c.pend).o, Last(c.pend).left, c.m.r.v))
Shifted(c, depth) ==
  CASE Deferred(c.m, depth) -> Ends(c, "deferred", depth)
    [] c.m.r.s # "ok" -> Ends(c, "left", 0)
    [] OTHER -> Climb(c)
(* The right operand; it is not in tail position.                          *)
Shift(c, t) ==
  Shifted([c EXCEPT
             !.m = EvalPrimary(InTail(Advance(@), @.tail /\ ~c.fresh)),
             !.pend = Append(@, [o |-> t.o, left |-> c.m.r.v, bp |-> c.bp]),
             !.bp = Power(t) + 1],
          Depth(c.m))
Climb(c) ==
  LET t == Peek(c.m)
  IN  IF Power(t) = 0 \/ Power(t) < c.bp THEN Reduce(c) ELSE Shift(c, t)

ExprOp(m, pend, bp) == NewOp("expr") @@ [saved |-> m.src, pend |-> pend, bp |-> bp]

(* What is left of an expression whose operand was deferred goes below     *)
(* everything the operand pushed.                                          *)
Climbed(c) ==
  IF c.ends = "deferred" THEN Insert(c.m, c.at, ExprOp(c.m, c.pend, c.bp)) ELSE c.m
Operand(x, depth, bp) ==
  CASE Deferred(x, depth) -> Insert(x, depth, ExprOp(x, <<>>, bp))
    [] x.r.s # "ok" -> x
    [] OTHER -> Climbed(Climb([m |-> x, pend |-> <<>>, bp |-> bp, fresh |-> TRUE]))
EvalExpr(m, bp) == Operand(EvalPrimary(m), Depth(m), bp)

-----------------------------------------------------------------------------
(* The steps of the trampoline, one per kind of operation.  op is the top  *)
(* operation; op.result is what the operation above it has returned.       *)

StartBody(m, wantsValue, tco) ==
  PushRun([m EXCEPT !.ops[Depth(m)].started = TRUE], Top(m).body, wantsValue, tco)

Done(m, r) == Gives([Pop(m) EXCEPT !.src = Top(m).saved], r)
Valued(m, r) == IF Top(m).kind = "run_expr" /\ AtEnd(m.src) THEN r ELSE Error
Instructed(x, i) ==
  CASE Depth(x) > i /\ x.r.s \in {"error", "throw"} -> Done(PopTo(x, i), x.r)
    [] Depth(x) > i -> Gives(x, None)
    [] Leaves(x.r) -> Done(x, x.r)
    [] x.r.s = "ok" -> Done(x, Valued(x, x.r))
    [] OTHER -> Gives(x, None)
StepRun(m) ==
  LET op == Top(m) IN
  CASE Leaves(op.result) -> Done(m, op.result)
    [] op.result.s = "ok" -> Done(m, Valued(m, op.result))
    [] AtEnd(m.src) -> Done(m, None)
    [] OTHER ->
         Instructed(EvalExpr(InTail(Consume(m), op.tco /\ IsLastInstruction(m.src)), 0),
                    Depth(m))

\* Mutant: the branch of an `if` in tail position is not in tail position.
StepIfForgetsTail(m) ==
  IF Top(m).started THEN Gives(Pop(m), Top(m).result)
  ELSE StartBody(m, TRUE, FALSE)

StepIf(m) ==
  IF Top(m).started THEN Gives(Pop(m), Top(m).result)
  ELSE StartBody(m, TRUE, Top(m).tco)

EndLoop(m, r) == Gives([Pop(m) EXCEPT !.rep = Top(m).before], r)
StepRepeat(m) ==
  LET op == Top(m) IN
  IF Leaves(op.result) THEN EndLoop(m, op.result)
  ELSE IF op.i >= op.count THEN EndLoop(m, None)
  ELSE PushRun([Consume(m) EXCEPT !.rep = op.i + 1, !.ops[Depth(m)].i = @ + 1],
               op.body, FALSE, FALSE)

StepCatch(m) ==
  LET op == Top(m) IN
  IF ~op.started THEN StartBody(m, FALSE, FALSE)
  ELSE Gives(Pop(m), IF op.result.s = "throw" THEN None ELSE op.result)

StepRunResult(m) ==
  LET op == Top(m) IN
  IF ~op.started THEN StartBody(m, TRUE, FALSE)
  ELSE Gives(Pop(m), CASE op.result.s = "ok" -> Ok(Lst(<<op.result.v>>))
                       [] op.result.s = "none" -> Ok(Lst(<<>>))
                       [] OTHER -> op.result)

\* Mutant: a procedure left by a throw keeps its frame.
ReturnFromKeepsFrame(m, r) ==
  LET y == [Pop(m) EXCEPT !.depth = @ - 1,
                          !.frames = IF r.s = "throw" THEN @ ELSE Front(@)]
  IN  Gives(y, CASE r.s = "output" ->
                      IF Top(m).mode = "bare" THEN Error ELSE Ok(r.v)
                 [] r.s = "stop" -> None
                 [] OTHER -> r)

(* proc_call_cleanup                                                       *)
ReturnFrom(m, r) ==
  LET y == [Pop(m) EXCEPT !.depth = @ - 1, !.frames = Front(@)]
  IN  Gives(y, CASE r.s = "output" ->
                      IF Top(m).mode = "bare" THEN Error ELSE Ok(r.v)
                 [] r.s = "stop" -> None
                 [] OTHER -> r)

NextLine(m) ==
  LET op == Top(m)
      lines == SelectSeq(op.lines, LAMBDA l : l # <<>>)
      i == Depth(m)
  IN  IF lines = <<>> THEN ReturnFrom(m, None)
      ELSE PushRun([m EXCEPT !.ops[i].lines = lines, !.ops[i].started = TRUE],
                   Head(lines), FALSE, Len(lines) = 1)

ReuseFrame(m) ==
  LET op == Top(m)
      tc == m.tailCall
      i == Depth(m)
  IN  NextLine([m EXCEPT
        !.ops[i].mode = IF @ # "none" THEN @ ELSE IF tc.output THEN "output" ELSE "bare",
        !.ops[i].lines = defs[op.proc].body, !.ops[i].started = FALSE,
        !.tailCall = NoTailCall,
        !.frames = Append(Front(@), Frame(op.proc, tc.args))])

StepProc(m) ==
  LET op == Top(m)
      x == Consume(m)
      tc == m.tailCall
  IN
  CASE ~op.started -> NextLine(x)
    [] op.result.s = "stop" /\ tc.is /\ tc.proc = op.proc -> ReuseFrame(x)
    [] op.result.s = "stop" /\ tc.is -> ReturnFrom([x EXCEPT !.tailCall = NoTailCall], Stop)
    [] Leaves(op.result) -> ReturnFrom(x, op.result)
    [] op.result.s = "ok" -> ReturnFrom(x, Error)
    [] OTHER -> NextLine([x EXCEPT !.ops[Depth(m)].lines = Tail(@)])

(* The operand of an expression has arrived: climb on.                     *)
ClimbedOn(c, i) ==
  IF c.ends = "deferred"
  THEN [c.m EXCEPT !.ops[i].pend = c.pend, !.ops[i].bp = c.bp]
  ELSE Pop(c.m)
StepExpr(m) ==
  LET op == Top(m) IN
  CASE Leaves(op.result) -> Gives(Pop(m), op.result)
    [] op.result.s = "none" -> Gives(Pop(m), IF op.pend # <<>> THEN Error ELSE None)
    [] OTHER ->
         ClimbedOn(Climb([m |-> Gives(Consume(m), op.result), pend |-> op.pend,
                          bp |-> op.bp, fresh |-> FALSE]),
                   Depth(m))

(* The inputs that follow a deferred one, and then the call.               *)
Called(m) ==
  LET op == Top(m)
  IN  CallPrimitive(Gives(Pop(IF op.total = -1 THEN Closing(m) ELSE m), None),
                    op.w, op.args)
NextInput(x, i) ==
  CASE Deferred(x, i) -> x
    [] Leaves(x.r) -> Pop(x)
    [] x.r.s = "none" /\ Top(x).total = -1 -> Called(x)
    [] x.r.s = "none" -> Gives(Pop(x), Error)
    [] OTHER -> MoreInputs([x EXCEPT !.ops[i].args = Append(@, x.r.v)], i)
MoreInputs(m, i) ==
  LET op == Top(m) IN
  IF Len(op.args) = op.total \/ (op.total = -1 /\ NoMoreInputs(m)) THEN Called(m)
  ELSE NextInput([EvalExpr([m EXCEPT !.primArgs = @ + 1, !.tail = op.tail], 0)
                    EXCEPT !.tail = m.tail, !.primArgs = @ - 1], i)
StepPrim(m) ==
  LET op == Top(m) IN
  IF op.result.s # "ok" THEN Gives(Pop(m), op.result)
  ELSE MoreInputs([Consume(m) EXCEPT !.ops[Depth(m)].args = Append(@, op.result.v)],
                  Depth(m))

StepGroup(m) ==
  LET r == Top(m).result
  IN  IF r.s = "error" THEN Gives(Pop(m), r) ELSE Gives(Closing(Pop(m)), r)

Step(m) ==
  CASE Top(m).kind \in {"run", "run_expr"} -> StepRun(m)
    [] Top(m).kind = "if" -> StepIf(m)
    [] Top(m).kind = "repeat" -> StepRepeat(m)
    [] Top(m).kind = "catch" -> StepCatch(m)
    [] Top(m).kind = "runresult" -> StepRunResult(m)
    [] Top(m).kind = "proc" -> StepProc(m)
    [] Top(m).kind = "expr" -> StepExpr(m)
    [] Top(m).kind = "prim" -> StepPrim(m)
    [] Top(m).kind = "group" -> StepGroup(m)

(* eval_trampoline: a result is handed to the operation below only when    *)
(* the step has popped its operation.                                      *)
Hand(x, depth, base) ==
  IF Depth(x) < depth /\ Depth(x) > base
  THEN [x EXCEPT !.ops[Depth(x)].result = x.r] ELSE x
Trampoline(m, base) ==
  IF Depth(m) <= base THEN m ELSE Trampoline(Hand(Step(m), Depth(m), base), base)

-----------------------------------------------------------------------------
(* repl_evaluate_line at top level: a fresh Evaluator on the shared stacks. *)
RECURSIVE Instructions(_)
Evaluated(x) ==
  CASE x.r.s \in {"error", "throw"} ->
         [m |-> [x EXCEPT !.tailCall = NoTailCall, !.frames = <<>>], ends |-> x.r.s]
    [] x.r.s = "ok" -> [m |-> x, ends |-> "error"]
    [] OTHER -> Instructions(x)
Instructions(m) ==
  IF AtEnd(m.src) THEN [m |-> m, ends |-> "done"] ELSE Evaluated(EvalExpr(m, 0))

Fresh(l) ==
  [src |-> l, ops |-> ops, frames |-> frames, tailCall |-> tailCall,
   depth |-> 0, primArgs |-> 0, procArgs |-> 0, tail |-> FALSE, rep |-> -1,
   printed |-> <<>>, peak |-> 0, r |-> None]

Show(e) ==
  /\ ops' = e.m.ops
  /\ frames' = e.m.frames
  /\ tailCall' = e.m.tailCall
  /\ shown' = [printed |-> e.m.printed, ends |-> e.ends, peak |-> e.m.peak]

(* A line typed at the prompt, evaluated to its end.                       *)
TypeLine(l) ==
  /\ line = <<>> /\ line' = l
  /\ Show(Instructions(Fresh(l)))
  /\ UNCHANGED defs

Silent == [printed |-> <<>>, ends |-> "done", peak |-> 0]

(* The prompt again; the shared stacks are as the line left them.          *)
Prompt ==
  /\ line # <<>> /\ line' = <<>>
  /\ shown' = Silent
  /\ UNCHANGED <<defs, ops, frames, tailCall>>

Init ==
  /\ defs \in Workspaces
  /\ ops = <<>> /\ frames = <<>> /\ tailCall = NoTailCall
  /\ line = <<>> /\ shown = Silent

Next == Prompt \/ \E l \in Lines : TypeLine(l)

Spec == Init /\ [][Next]_vars

-----------------------------------------------------------------------------
(* The trampoline computes what the program means: whatever was deferred,  *)
(* parked, or turned into a reused frame, a line that plain recursion      *)
(* completes, or ends by an uncaught throw, prints the same and ends the   *)
(* same.                                                                   *)
AgreesWith(want) ==
  want.ends # "error" => shown.printed = want.printed /\ shown.ends = want.ends
Agrees == line # <<>> => AgreesWith(Meant(line))

(* A procedure whose call of itself is the last thing it does reuses its   *)
(* frame: however deep it goes there are no more frames than procedures.   *)
ConstantSpace ==
  (\A p \in DOMAIN defs : defs[p] \in Loops) =>
    shown.peak <= Cardinality(DOMAIN defs)

(* Every path out of a line, the errors and throws that unwind half-built  *)
(* calls included, leaves the shared stacks empty for the next line.       *)
Unwound == ops = <<>> /\ frames = <<>> /\ ~tailCall.is
=============================================================================
