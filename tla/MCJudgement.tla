---------------------------- MODULE MCJudgement ----------------------------
(* Judgement on three texts, three sources, and a family of functions; counts of up *)
(* to four origins. *)
EXTENDS Verdicts

F(k, v) == [key |-> k, value |-> v]
MCFacts == <<<<F("k1", "1")>>, <<F("k2", "x"), F("k1", "1")>>, <<F("k1", "2")>>, <<>>>>

Review(digest, origin, class, expires) ==
    [clients |-> {"app"}, digest |-> digest, origin |-> origin, class |-> class,
     decision |-> "APPROVED", observed |-> -1, reviewed |-> 0, expires |-> expires]
MCReviews ==
    [r1 |-> Review(1, 1, "PRIMARY", 9), r2 |-> Review(2, 1, "PRIMARY", 9),
     r3 |-> Review(1, 2, "PRIMARY", 9), r4 |-> Review(2, 2, "SECONDARY", 1),
     later    |-> [Review(1, 3, "PRIMARY", 9) EXCEPT !.reviewed = 1],
     rejected |-> [Review(1, 3, "PRIMARY", 9) EXCEPT !.decision = "REJECTED"],
     foreign  |-> [Review(1, 3, "PRIMARY", 9) EXCEPT !.clients = {"other"}]]

MCClaims == [c1 |-> "k1", c2 |-> "k2"]
MCFields == [f1 |-> "s1"]
MCThresholds == [commodity |-> 75, standard |-> 82, advanced |-> 88, high_impact_support |-> 92]

\* The family of functions, see MCPrograms; each part of it is asked for by a client
\* of its own, so that two answers of one solve come from the same part.
ProgramIds == [loop: 1..3, test: 1..3, way: 1..4, orelse: 1..4, result: 1..7, nested: BOOLEAN]
Client(p) == ToString(<<p.loop, p.test, p.way, p.orelse, p.nested>>)
Clients_  == {Client(p) : p \in ProgramIds}

-----------------------------------------------------------------------------
(* Requests *)

Item(text, review) == [text |-> text, review |-> review]
None == Item(1, NoReview)
Bare == [s1 |-> None, s2 |-> Item(2, NoReview)]
Dossiers ==
    {<<>>, Bare, [s1 |-> Item(1, "r1"), s2 |-> Item(3, NoReview)],
     [s1 |-> Item(1, "r1"), s2 |-> Item(4, NoReview)]}
    \cup {[s1 |-> Item(t, r)] : t \in 1..2, r \in DOMAIN MCReviews}
    \cup {[s1 |-> Item(1, r), s2 |-> Item(2, q)] : r \in {"r1", "r3"}, q \in {"r2", "r4"}}
    \cup {[s1 |-> Item(1, "r1"), s2 |-> Item(1, "r3")]}
    \cup {[s1 |-> Item(1, "r1"), s2 |-> Item(2, "r2"), s3 |-> Item(1, "r3")]}
Policies ==
    {NoPolicy} \cup [max_age: {1, 9}, classes: {{"PRIMARY"}, Classes}, min_origins: 1..2]

Base == [kind |-> "none", schema |-> "none", task_type |-> "other", words |-> {}, capabilities |-> {},
         level |-> "standard", freshness |-> FALSE, cross_check |-> FALSE,
         accept_unverified |-> FALSE, evidence |-> <<>>, policy |-> NoPolicy,
         client |-> "app", via |-> "library"]

\* What is asked of the shape, of the profile, and of the evidence.
Shapes ==
    {[Base EXCEPT !.kind = k, !.schema = s, !.level = l, !.accept_unverified = u, !.cross_check = c] :
        k \in Kinds \ GroundedKinds, s \in Schemas, l \in ToSet(Levels), u \in BOOLEAN, c \in BOOLEAN}
Profiles ==
    {[Base EXCEPT !.kind = k, !.task_type = tw[1], !.words = tw[2], !.capabilities = c, !.freshness = f,
                  !.accept_unverified = u, !.evidence = IF k \in GroundedKinds THEN Bare ELSE e] :
        k \in Kinds \ JsonKinds,
        tw \in ({"coding", "research", "vision"} \X {{}}) \cup ({"none"} \X SUBSET {"code", "sources"}),
        c \in {{}, {"reasoning"}}, f \in BOOLEAN, u \in BOOLEAN, e \in {<<>>, Bare}}
Dossed ==
    {[Base EXCEPT !.kind = k, !.evidence = e, !.policy = p, !.accept_unverified = u, !.client = c] :
        k \in GroundedKinds, e \in Dossiers, p \in Policies, u \in BOOLEAN, c \in {"app"}}
OverHttp ==
    {[r EXCEPT !.via = v, !.task_type = "none"] : v \in Channels \ {"library"},
        r \in {q \in Shapes : ~q.accept_unverified /\ q.level \in {"standard", "advanced"}}}
Families == {[Base EXCEPT !.kind = "python_function", !.client = c] : c \in Clients_}
MCRequests == Families \cup Shapes \cup Profiles \cup Dossed \cup OverHttp
              \cup {[Base EXCEPT !.policy = [max_age |-> 9, classes |-> Classes, min_origins |-> 1]]}

-----------------------------------------------------------------------------
(* Answers *)

Cited(s, x) == {[source |-> s, exact |-> x]}
Flaws ==
    [finish: {"stop"}, citations: {{}, Cited("s1", TRUE), Cited("s1", FALSE), Cited("s9", TRUE)}, contradicts: {FALSE}]
    \cup {[finish |-> "length", citations |-> {}, contradicts |-> FALSE],
          [finish |-> "stop", citations |-> {}, contradicts |-> TRUE]}
Flawless == [finish |-> "stop", citations |-> {}, contradicts |-> FALSE]
Documents ==
    {[form |-> f, right |-> v = "right", conforms |-> v # "other"] :
        f \in Forms, v \in {"right", "conforming", "other"}}
Simple == {x @@ [form |-> "bare", right |-> TRUE, conforms |-> TRUE] : x \in Flaws}
          \cup {x @@ Flawless : x \in Documents}

S1 == <<"s1", 1>>
S2 == <<"s2", 2>>
S3 == <<"s3", 1>>
One == {Missing, Abstained, Answered("1", <<S1>>), Answered("1", <<S1, S1>>), Answered("1", <<S1, S2>>),
        Answered("1", <<S2, S1>>), Answered("1", <<S1, S2, S3>>), Answered("1", <<<<"s1", 2>>>>),
        Answered("2", <<<<"s2", 1>>>>), Answered("2", <<S1>>)}
Two == {Missing, Abstained, Answered("x", <<<<"s2", 1>>>>), Answered("x", <<<<"s1", 1>>>>)}
Said(a, b) ==
    LET ids == {c \in {"c1", "c2"} : (c = "c1" => a # Missing) /\ (c = "c2" => b # Missing)}
    IN [c \in ids |-> IF c = "c1" THEN a ELSE b]
ClaimTexts ==
    {[form |-> f, answers |-> Said(a, b), conforms |-> TRUE] @@ Flawless :
        f \in {"bare"}, a \in One, b \in Two}
    \cup {[form |-> "fenced", answers |-> Said(Abstained, Abstained), conforms |-> TRUE] @@ Flawless,
          [form |-> "bare", answers |-> [c \in {"c1", "c2", "c3"} |-> Abstained], conforms |-> TRUE] @@ Flawless}

-----------------------------------------------------------------------------
(* Functions: t = 0; a loop with a test, a way out and an else; a return. *)

ConstE(x) == [op |-> "const", v |-> x]
Num(n)    == ConstE(Int_(n))
Name(id)  == [op |-> "name", id |-> id]
Bin(f, l, r) == [op |-> "binop", f |-> f, l |-> l, r |-> r]
Cmp(f, l, r) == [op |-> "compare", f |-> f, l |-> l, r |-> r]
AssignTo(id, e) == [s |-> "assign", id |-> id, e |-> e]
Ret(e)    == [s |-> "return", e |-> e]
t == Name("t")
Plus(n) == AssignTo("t", Bin("+", t, Num(n)))

LoopOf(p, body, orelse) ==
    CASE p.loop = 1 -> [s |-> "for", id |-> "v", range |-> TRUE, iter |-> Name("x"), body |-> body, orelse |-> orelse]
      [] p.loop = 2 -> [s |-> "for", id |-> "v", range |-> FALSE, iter |-> Name("xs"), body |-> body, orelse |-> orelse]
      [] p.loop = 3 -> [s |-> "while", test |-> Cmp("<", t, Name("x")), body |-> body, orelse |-> orelse]
TestOf(p) ==
    <<Cmp("==", Name("v"), Num(1)), Cmp("<", t, Num(1)), [op |-> "not", e |-> Name("xs")]>>[p.test]
WayOf(p) == <<[s |-> "break"], [s |-> "continue"], Ret(Num(1)), Plus(1)>>[p.way]
OrElseOf(p) == <<<<>>, <<Plus(1)>>, <<[s |-> "break"]>>, <<Ret(ConstE(Bool_(TRUE)))>>>>[p.orelse]
ResultOf(p) ==
    <<<<>>, <<Ret(t)>>, <<Ret(Cmp("==", t, Num(1)))>>,
      <<Ret(Bin("+", Cmp("==", t, Num(1)), Num(0)))>>,
      <<Ret([op |-> "index", l |-> Name("xs"), r |-> t])>>,
      <<Ret([op |-> "len", e |-> Bin("+", Name("xs"), Name("xs"))])>>,
      <<Ret(Bin("//", Num(2), [op |-> "or", l |-> t, r |-> Name("x")]))>>>>[p.result]
LoopBody(p) == <<[s |-> "if", test |-> TestOf(p), body |-> <<WayOf(p)>>, orelse |-> <<>>], Plus(1)>>
Inner(p) == LoopOf(p, LoopBody(p), OrElseOf(p))
MCPrograms ==
    [p \in ProgramIds |->
       <<AssignTo("t", Num(0)),
         IF p.nested THEN [s |-> "for", id |-> "w", range |-> TRUE, iter |-> Num(2),
                           body |-> <<Inner(p), Plus(1)>>, orelse |-> <<>>]
         ELSE Inner(p)>> \o ResultOf(p)]

Case(x, xs, e) == [arguments |-> ("x" :> Int_(x)) @@ ("xs" :> List_(xs)), expected |-> e]
MCCases == <<Case(1, <<1>>, Int_(1)), Case(0, <<>>, Int_(0)), Case(2, <<0, 1>>, Int_(0))>>

Functions_ ==
    {[form |-> "bare", program |-> p, conforms |-> TRUE] @@ Flawless : p \in ProgramIds}
Few == {p \in ProgramIds : p.test = 1 /\ p.way = 4 /\ p.orelse = 1 /\ p.result \in {3, 4} /\ ~p.nested}
ByClient == [c \in Clients_ |-> {a \in Functions_ : Client(a.program) = c}]
FewTexts == {a \in Functions_ : a.program \in Few}
Uncited  == {a \in Simple : a.citations = {}}
Plainly  == {a \in Simple : a.form = "bare" /\ a.conforms /\ a.finish = "stop" /\ ~a.contradicts}
FewClaims ==
    {a \in ClaimTexts : DOMAIN a.answers = {"c1", "c2"} /\ a.answers["c2"] = Abstained
                          /\ Len(a.answers["c1"].sources) # 2}
    \cup {[form |-> "bare", answers |-> Said(Answered("1", q), Answered("x", <<<<"s2", 1>>>>)), conforms |-> TRUE]
             @@ Flawless : q \in {<<S1, S2>>, <<S1, S2, S3>>}}
\* A profile or a policy is tried with the answers it can matter to.
MCAnswers(r) ==
    CASE r.kind = "grounded_claims" ->
            IF r.policy = NoPolicy /\ r.task_type = "other" THEN ClaimTexts ELSE FewClaims
      [] r.kind = "python_function" -> IF r.client = "app" THEN FewTexts ELSE ByClient[r.client]
      [] r.policy # NoPolicy \/ r.task_type # "other" -> Plainly
      [] OTHER -> Uncited \cup {a \in Simple : a.contradicts}

-----------------------------------------------------------------------------
(* Counts: every way three origins can have reviewed three texts, and the  *)
(* paths of four origins and four texts that make one origin move the rest. *)

Snapshot(o, d) == [origin |-> o, digest |-> d]
Pairs == {Snapshot(o, d) : o \in 1..3, d \in 1..3}

\* Each origin but the last has two texts, its own and the next one's: the last to be
\* counted has only the first.
Chains == {{Snapshot(o, f[o]) : o \in 1..3} \cup {Snapshot(o, g[o]) : o \in 1..3} \cup {Snapshot(4, d)} :
              f \in Permutations(1..3), g \in [1..3 -> 1..4], d \in 1..4}
MCReviewSets == SUBSET Pairs \cup Chains
=============================================================================
