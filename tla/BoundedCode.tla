---------------------------- MODULE BoundedCode ----------------------------
(***************************************************************************)
(* The interpreter that judges a model's function (fair/quality/           *)
(* code_validator.py): what it runs of PythonSubset, step by step, against *)
(* a budget of steps, a depth, turns per loop and sizes of values.         *)
(* Chained comparisons, the builtins beside len and range, unary signs and *)
(* augmented assignment are left out of the expressions; a program here is *)
(* already one function of plain parameters.                               *)
(***************************************************************************)
EXTENDS PythonSubset

CONSTANTS MaxSteps, MaxDepth, MaxIterations, MaxList, MaxInt

ASSUME CodeAssumption == {MaxSteps, MaxDepth, MaxIterations, MaxList, MaxInt} \subseteq Nat

Limits == {"CODE_VALUE_LIMIT", "CODE_OPERATION_LIMIT", "CODE_ITERATION_LIMIT"}

bounded(x) ==
    IF \/ x.type = "list" /\ (Len(x.v) > MaxList \/ \E i \in DOMAIN x.v : x.v[i] \notin (-MaxInt)..MaxInt)
       \/ x.type = "int" /\ x.v \notin (-MaxInt)..MaxInt
      THEN Reject("CODE_VALUE_LIMIT") ELSE x

Bug_same_value(actual, expected) ==
    IF Scalar(actual) /\ Scalar(expected) THEN Number(actual) = Number(expected)
    ELSE actual.type = expected.type /\ actual.v = expected.v
same_value(actual, expected) == actual.type = expected.type /\ actual.v = expected.v

\* loop_controls: break and continue only in the body of a loop; a loop's else
\* belongs to what is around the loop.
Bug_LoopsAfter(st, loops) == [body |-> TRUE, orelse |-> TRUE]
LoopsAfter(st, loops) == [body |-> loops \/ st.s \in {"for", "while"}, orelse |-> loops]

RECURSIVE loop_controls(_, _)
loop_controls(body, loops) ==
    \A i \in DOMAIN body :
        /\ body[i].s \in {"break", "continue"} => loops
        /\ body[i].s \in {"if", "for", "while"} =>
              /\ loop_controls(body[i].body, LoopsAfter(body[i], loops).body)
              /\ loop_controls(body[i].orelse, LoopsAfter(body[i], loops).orelse)

-----------------------------------------------------------------------------
(* What an expression gives and the budget n it leaves. *)

Value(x, n) == [x |-> x, n |-> n]

OutOfBudget(n, depth) == n = 0 \/ depth > MaxDepth

binary(f, l, r) ==
    IF Scalar(l) /\ Scalar(r) THEN bounded(Arithmetic(f, Number(l), Number(r)))
    ELSE IF f = "+" /\ l.type = "list" /\ r.type = "list" THEN bounded(List_(l.v \o r.v))
    ELSE Reject("CODE_TYPE_FAILURE")

\* What an operator gives for the operands l and then r.
Operated(e, l, r) ==
    IF Rejected(r.x) THEN r
    ELSE Value(CASE e.op = "binop"   -> binary(e.f, l.x, r.x)
                 [] e.op = "compare" -> Compared(e.f, l.x, r.x)
                 [] e.op = "index"   ->
                      IF l.x.type = "list" /\ Scalar(r.x) THEN Element(l.x.v, Number(r.x))
                      ELSE Reject("CODE_TYPE_FAILURE"), r.n)

Negated(a)  == IF Rejected(a.x) THEN a ELSE Value(Bool_(~Truth(a.x)), a.n)
Measured(a) == IF Rejected(a.x) THEN a
               ELSE Value(IF a.x.type = "list" THEN Int_(Len(a.x.v)) ELSE Reject("CODE_TYPE_FAILURE"), a.n)
Checked(r)  == IF Rejected(r.x) THEN r ELSE Value(bounded(r.x), r.n)

RECURSIVE expression(_, _, _, _)
expression(e, scope, n, depth) ==
    LET Sub(a, m) == expression(a, scope, m, depth + 1)
        Or(l)     == IF Rejected(l.x) \/ Truth(l.x) THEN l ELSE Sub(e.r, l.n)
        Second(l) == Operated(e, l, IF Rejected(l.x) THEN l ELSE Sub(e.r, l.n))
    IN IF OutOfBudget(n, depth) THEN Value(Reject("CODE_OPERATION_LIMIT"), n) ELSE
    Checked(CASE e.op = "const" -> Value(e.v, n - 1)
              [] e.op = "name"  -> Value(IF e.id \in DOMAIN scope THEN scope[e.id]
                                         ELSE Reject("CODE_UNBOUND_NAME"), n - 1)
              [] e.op = "or"    -> Or(Sub(e.l, n - 1))
              [] e.op = "not"   -> Negated(Sub(e.e, n - 1))
              [] e.op = "len"   -> Measured(Sub(e.e, n - 1))
              [] e.op \in {"binop", "compare", "index"} -> Second(Sub(e.l, n - 1)))

\* iterable: range of one argument, never of more turns than a loop may take.
Iterated(st, r) ==
    IF Rejected(r.x) THEN r
    ELSE IF ~st.range THEN (IF r.x.type = "list" THEN r ELSE Value(Reject("CODE_TYPE_FAILURE"), r.n))
    ELSE IF ~Scalar(r.x) THEN Value(Reject("CODE_TYPE_FAILURE"), r.n)
    ELSE IF Number(r.x) > MaxIterations THEN Value(Reject("CODE_ITERATION_LIMIT"), r.n)
    ELSE Value(List_(Range_(Number(r.x))), r.n)
iterable(st, scope, n, depth) == Iterated(st, expression(st.iter, scope, n, depth + 1))

-----------------------------------------------------------------------------
(* What statements do: how they end, the value of a return or a rejection, *)
(* the variables and the budget they leave.                                *)

Done(ctl, x, scope, n) == [ctl |-> ctl, x |-> x, scope |-> scope, n |-> n]
Failed(x, scope, n) == Done("reject", x, scope, n)
Plain(scope, n) == Done("none", Int_(0), scope, n)

\* After the turns of a loop: its else runs unless it was left by break.
Bug_RunsElse(ctl) == ctl \in {"none", "break"}
RunsElse(ctl) == ctl = "none"

RECURSIVE statements(_, _, _, _), statement(_, _, _, _), turns(_, _, _, _, _, _),
          Then(_, _, _), Branch(_, _, _, _), Loop(_, _, _, _), Left(_, _, _),
          Turn(_, _, _, _, _, _), Turned(_, _, _, _, _)

Then(r, rest, depth) == IF r.ctl # "none" THEN r ELSE statements(rest, r.scope, r.n, depth)
statements(body, scope, n, depth) ==
    IF body = <<>> THEN Plain(scope, n)
    ELSE Then(IF OutOfBudget(n, depth) THEN Failed(Reject("CODE_OPERATION_LIMIT"), scope, n)
              ELSE statement(Head(body), scope, n - 1, depth), Tail(body), depth)

\* One turn of a loop after another, count of them so far: the items left or
\* the test, then the body, then what its control value asks for.
turns(st, items, count, scope, n, depth) ==
    IF OutOfBudget(n, depth + 1) THEN Failed(Reject("CODE_OPERATION_LIMIT"), scope, n)
    ELSE Turn(st, items, count, scope, depth,
              IF st.s = "for" THEN Value(Bool_(items # <<>>), n - 1)
              ELSE expression(st.test, scope, n - 1, depth + 1))
Turn(st, items, count, scope, depth, test) ==
    IF Rejected(test.x) THEN Failed(test.x, scope, test.n)
    ELSE IF ~Truth(test.x) THEN Plain(scope, test.n)
    ELSE IF count + 1 > MaxIterations THEN Failed(Reject("CODE_ITERATION_LIMIT"), scope, test.n)
    ELSE Turned(st, items, count, depth,
                statements(st.body, IF st.s = "for" THEN (st.id :> Int_(Head(items))) @@ scope ELSE scope,
                           test.n, depth + 1))
Turned(st, items, count, depth, r) ==
    IF r.ctl \in {"return", "reject", "break"} THEN r
    ELSE turns(st, IF st.s = "for" THEN Tail(items) ELSE items, count + 1, r.scope, r.n, depth)

Loop(st, scope, depth, items) ==
    Left(st, depth, IF Rejected(items.x) THEN Failed(items.x, scope, items.n)
                    ELSE turns(st, items.x.v, 0, scope, items.n, depth))
Left(st, depth, r) ==
    IF RunsElse(r.ctl) THEN statements(st.orelse, r.scope, r.n, depth + 1)
    ELSE IF r.ctl = "break" THEN Plain(r.scope, r.n) ELSE r

Branch(st, scope, depth, r) ==
    IF Rejected(r.x) THEN Failed(r.x, scope, r.n)
    ELSE statements(IF Truth(r.x) THEN st.body ELSE st.orelse, scope, r.n, depth + 1)

Returned(r, scope) ==
    IF Rejected(r.x) THEN Failed(r.x, scope, r.n) ELSE Done("return", r.x, scope, r.n)
Assigned(id, r, scope) ==
    IF Rejected(r.x) THEN Failed(r.x, scope, r.n) ELSE Plain((id :> r.x) @@ scope, r.n)

statement(st, scope, n, depth) ==
    CASE st.s = "return" -> Returned(expression(st.e, scope, n, depth + 1), scope)
      [] st.s \in {"break", "continue"} -> Done(st.s, Int_(0), scope, n)
      [] st.s = "assign" -> Assigned(st.id, expression(st.e, scope, n, depth + 1), scope)
      [] st.s = "if" -> Branch(st, scope, depth, expression(st.test, scope, n, depth + 1))
      [] st.s \in {"for", "while"} ->
            Loop(st, scope, depth, IF st.s = "for" THEN iterable(st, scope, n, depth + 1)
                                   ELSE Value(List_(<<>>), n))

Outcome(r) == IF r.ctl \in {"return", "reject"} THEN r.x ELSE Reject("CODE_MISSING_RETURN")
run_case(body, scope) == Outcome(statements(body, scope, MaxSteps, 0))

\* validate_function: no failure when every case gives the value it should.
FirstFailure(cases, actual) ==
    LET bad   == {i \in DOMAIN cases : ~same_value(actual[i], cases[i].expected)}
        first == actual[CHOOSE i \in bad : \A j \in bad : i <= j]
    IN IF bad = {} THEN "none" ELSE IF Rejected(first) THEN first.v ELSE "CODE_TEST_FAILURE"
validate_function(body, cases) ==
    IF ~loop_controls(body, FALSE) THEN "CODE_SUBSET_VIOLATION"
    ELSE FirstFailure(cases, [i \in DOMAIN cases |-> run_case(body, cases[i].arguments)])

-----------------------------------------------------------------------------

\* A value the interpreter returns is the one Python returns, and what it refuses
\* for any reason but a limit Python refuses for the same reason: the limits are
\* all that FAIR's Python lacks.  Fuel is enough for any program it finishes.
SameOutcome(ours, theirs) ==
    (Rejected(ours) /\ ours.v \in Limits) \/ (ours.type = theirs.type /\ ours.v = theirs.v)
AgreesWithPython(body, scope, fuel) ==
    loop_controls(body, FALSE) =>
        SameOutcome(run_case(body, scope), Run(<<Block(body)>>, scope, fuel))
=============================================================================
