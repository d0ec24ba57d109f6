---------------------------- MODULE PythonSubset ----------------------------
(***************************************************************************)
(* The part of Python that python_function contracts are answered in: its  *)
(* values, its operators, and what a function body returns when Python     *)
(* runs it, as a machine of frames with no limits of its own.  This is the *)
(* language the bounded interpreter of BoundedCode claims to be a part of. *)
(* A body is a sequence of statements, records with a field `s`; an        *)
(* expression is a record with a field `op`.  Lists hold integers.         *)
(***************************************************************************)
EXTENDS Integers, Sequences, TLC

Int_(n)      == [type |-> "int", v |-> n]
Bool_(b)     == [type |-> "bool", v |-> b]
List_(s)     == [type |-> "list", v |-> s]
Reject(code) == [type |-> "reject", v |-> code]

Rejected(x) == x.type = "reject"
Scalar(x)   == x.type \in {"int", "bool"}
Number(x)   == IF x.type = "bool" THEN (IF x.v THEN 1 ELSE 0) ELSE x.v
Truth(x)    == IF x.type = "bool" THEN x.v ELSE IF x.type = "int" THEN x.v # 0 ELSE x.v # <<>>

\* +, - and // of numbers, == and < of numbers; an error is a runtime failure.
Arithmetic(f, l, r) ==
    CASE f = "+" -> Int_(l + r)
      [] f = "-" -> Int_(l - r)
      [] f = "//" -> IF r = 0 THEN Reject("CODE_RUNTIME_FAILURE")
                     ELSE Int_(IF r > 0 THEN l \div r ELSE (-l) \div (-r))

\* Lists are compared item by item.
Before(s, t) ==
    \E k \in 0..Len(s) :
        /\ k < Len(t) /\ \A i \in 1..k : s[i] = t[i]
        /\ k = Len(s) \/ s[k + 1] < t[k + 1]

Compared(f, l, r) ==
    CASE f = "<" -> IF Scalar(l) /\ Scalar(r) THEN Bool_(Number(l) < Number(r))
                    ELSE IF l.type = r.type THEN Bool_(Before(l.v, r.v))
                    ELSE Reject("CODE_RUNTIME_FAILURE")
      [] f = "==" -> Bool_(IF Scalar(l) /\ Scalar(r) THEN Number(l) = Number(r)
                           ELSE l.type = r.type /\ l.v = r.v)

\* sequence[index], negative from the end.
Element(items, i) ==
    LET at == IF i < 0 THEN Len(items) + i + 1 ELSE i + 1
    IN IF at \in DOMAIN items THEN Int_(items[at]) ELSE Reject("CODE_RUNTIME_FAILURE")

Range_(n) == [i \in 1..(IF n > 0 THEN n ELSE 0) |-> i - 1]

-----------------------------------------------------------------------------

RECURSIVE Means(_, _)
Means(e, env) ==
    CASE e.op = "const" -> e.v
      [] e.op = "name"  -> IF e.id \in DOMAIN env THEN env[e.id] ELSE Reject("CODE_UNBOUND_NAME")
      [] e.op = "or"    -> LET l == Means(e.l, env) IN
                           IF Rejected(l) \/ Truth(l) THEN l ELSE Means(e.r, env)
      [] e.op = "not"   -> LET x == Means(e.e, env) IN
                           IF Rejected(x) THEN x ELSE Bool_(~Truth(x))
      [] e.op = "len"   -> LET x == Means(e.e, env) IN
                           IF Rejected(x) THEN x
                           ELSE IF x.type = "list" THEN Int_(Len(x.v)) ELSE Reject("CODE_TYPE_FAILURE")
      [] e.op \in {"binop", "compare", "index"} ->
            LET l == Means(e.l, env)
                r == Means(e.r, env)
            IN CASE Rejected(l) -> l
                 [] ~Rejected(l) /\ Rejected(r) -> r
                 [] OTHER ->
                      IF e.op = "compare" THEN Compared(e.f, l, r)
                      ELSE IF e.op = "index"
                        THEN IF l.type = "list" /\ Scalar(r) THEN Element(l.v, Number(r))
                             ELSE Reject("CODE_TYPE_FAILURE")
                      ELSE IF Scalar(l) /\ Scalar(r) THEN Arithmetic(e.f, Number(l), Number(r))
                      ELSE IF e.f = "+" /\ l.type = r.type THEN List_(l.v \o r.v)
                      ELSE Reject("CODE_TYPE_FAILURE")

\* Frames: statements still to be run, or a loop between two turns.
Block(body) == [loop |-> FALSE, body |-> body]

RECURSIVE UpToLoop(_)
UpToLoop(frames) ==
    IF frames = <<>> \/ Head(frames).loop THEN frames ELSE UpToLoop(Tail(frames))

RECURSIVE Run(_, _, _)
Run(frames, env, fuel) ==
    IF frames = <<>> THEN Reject("CODE_MISSING_RETURN")
    ELSE IF fuel = 0 THEN Reject("endless")
    ELSE LET f    == Head(frames)
             rest == Tail(frames)
             Go(k, e) == Run(k, e, fuel - 1)
    IN IF f.loop THEN
         LET again == IF f.stmt.s = "for" THEN Bool_(f.items # <<>>) ELSE Means(f.stmt.test, env) IN
         IF Rejected(again) THEN again
         ELSE IF ~Truth(again) THEN Go(<<Block(f.stmt.orelse)>> \o rest, env)
         ELSE IF f.stmt.s = "while" THEN Go(<<Block(f.stmt.body)>> \o frames, env)
         ELSE Go(<<Block(f.stmt.body), [f EXCEPT !.items = Tail(@)]>> \o rest,
                 (f.stmt.id :> Int_(Head(f.items))) @@ env)
       ELSE IF f.body = <<>> THEN Go(rest, env)
       ELSE LET st == Head(f.body)
                k  == <<Block(Tail(f.body))>> \o rest
       IN CASE st.s = "return"   -> Means(st.e, env)
            [] st.s \in {"break", "continue"} ->
                  LET loops == UpToLoop(k) IN
                  IF loops = <<>> THEN Reject("CODE_SYNTAX_FAILURE")
                  ELSE Go(IF st.s = "break" THEN Tail(loops) ELSE loops, env)
            [] st.s = "while"    -> Go(<<[loop |-> TRUE, stmt |-> st]>> \o k, env)
            [] st.s = "if"       ->
                  LET test == Means(st.test, env) IN
                  IF Rejected(test) THEN test
                  ELSE Go(<<Block(IF Truth(test) THEN st.body ELSE st.orelse)>> \o k, env)
            [] st.s = "for"      ->
                  LET items == Means(st.iter, env) IN
                  IF Rejected(items) THEN items
                  ELSE IF st.range /\ Scalar(items)
                    THEN Go(<<[loop |-> TRUE, stmt |-> st, items |-> Range_(Number(items))]>> \o k, env)
                  ELSE IF ~st.range /\ items.type = "list"
                    THEN Go(<<[loop |-> TRUE, stmt |-> st, items |-> items.v]>> \o k, env)
                  ELSE Reject("CODE_TYPE_FAILURE")
            [] st.s = "assign"   ->
                  LET x == Means(st.e, env) IN
                  IF Rejected(x) THEN x ELSE Go(k, (st.id :> x) @@ env)
=============================================================================
