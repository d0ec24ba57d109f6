----------------------------- MODULE Judgement -----------------------------
(***************************************************************************)
(* What FAIR vouches for: a request is refused or profiled, each answer a  *)
(* model gives to it is judged (fair/quality/engine.py), and solve returns *)
(* the first it may return, to the library's caller or over HTTP.  Time    *)
(* passes between answers, so that reviews expire under a solve.  Which    *)
(* route is asked, and the cross-check an accepted answer may still need,  *)
(* are EmbeddedRouter's.  How functions are run is a parameter, given in   *)
(* Verdicts.                                                               *)
(***************************************************************************)
EXTENDS Evidence

CONSTANTS
    Requests,       \* what may be asked
    Answers(_),     \* what may be answered to a request
    Programs,       \* the functions a model may answer with
    Claims,         \* the claims of a grounded_claims contract: ids to fact keys
    Fields,         \* the fields of a grounded_json contract: keys to source ids
    Cases,          \* the cases of a python_function contract
    Unstructured,   \* texts that hold no document of facts
    Thresholds,     \* the operator's quality thresholds
    FunctionFailure(_, _),  \* validate_function of a body and cases, see BoundedCode
    PythonGives(_, _),      \* what Python gives for a body and arguments, see PythonSubset
    MaxAnswers,     \* settings.max_attempts
    Horizon         \* bound on the clock

JsonKinds     == {"reference_json", "grounded_json"}
GroundedKinds == {"grounded_json", "grounded_claims"}
Kinds         == JsonKinds \cup GroundedKinds \cup {"none", "arithmetic", "python_function"}
Levels        == <<"commodity", "standard", "advanced", "high_impact_support">>
Schemas       == {"none", "bounded", "invalid", "unbounded"}
Forms         == {"blank", "bare", "fenced", "wrapped", "broken"}
Channels      == {"library", "solve", "chat", "malformed_chat"}
NoPolicy      == [max_age |-> 0, classes |-> {}, min_origins |-> 0]
NoScore       == -1
StructureScore == 85    \* STRUCTURE_VALIDATED_SCORE

\* validate_thresholds.
ASSUME JudgementAssumption ==
    /\ DOMAIN Thresholds = ToSet(Levels)
    /\ \A i \in 1..4 : Thresholds[Levels[i]] \in 1..100
    /\ \A i \in 1..3 : Thresholds[Levels[i]] <= Thresholds[Levels[i + 1]]
    /\ MaxAnswers \in Nat \ {0} /\ Horizon \in Nat /\ Unstructured \subseteq Texts
    /\ \A t \in Unstructured : Facts[t] = <<>>
    /\ \A r \in Requests :
          /\ r.kind \in Kinds /\ r.level \in ToSet(Levels) /\ r.via \in Channels /\ r.schema \in Schemas
          /\ r.via # "library" => ~r.accept_unverified  \* no payload of the service has the field
          /\ r.via = "chat" => r.task_type = "none"

\* SolveRequest.evidence, SourcePolicy, ClaimsValidation and the answers' parsers:
\* what is judged names texts and reviews that exist.
ASSUME DossierAssumption ==
    /\ DOMAIN Claims # {}
    /\ \A r \in Requests :
          /\ IsFiniteSet(DOMAIN r.evidence)
          /\ \A s \in DOMAIN r.evidence :
                r.evidence[s].text \in Texts /\ r.evidence[s].review \in DOMAIN Reviews \cup {NoReview}
          /\ r.policy.max_age \in Nat /\ r.policy.min_origins \in Nat
          /\ \A a \in Answers(r) :
                /\ r.kind = "python_function" => a.program \in DOMAIN Programs
                /\ r.kind = "grounded_claims" => \A c \in DOMAIN a.answers :
                      /\ a.answers[c].status \in {"answered", "abstained"}
                      /\ a.answers[c].sources \in Seq(STRING \X Nat)

VARIABLES
    now,         \* the clock of the source reviews
    registry,    \* whether FAIR has a registry of source reviews, which only a
                 \* request with a policy asks about
    request,     \* what was asked, or NoRequest
    answered,    \* how many answers were judged
    judged,      \* the last of them, its report, when, and what would be delivered
    status,      \* what solve returned, "none" before it returns
    reply        \* what an HTTP client received, "none" for the library

vars == <<now, registry, request, answered, judged, status, reply>>

NoRequest == [kind |-> "nothing"]
NoAnswer  == [at |-> -1]

-----------------------------------------------------------------------------
(* What is asked *)

\* The schema check reads every subschema; see find_unbounded_keyword.
Admissible(schema) == schema \in {"none", "bounded"}

Bug_Refused(r) == FALSE
\* The validators of SolveRequest: what is not solved at all.
Refused(r) ==
    \/ r.accept_unverified /\ (r.cross_check \/ r.level = "high_impact_support")
    \/ r.policy # NoPolicy /\ r.kind \notin GroundedKinds
    \/ r.kind = "grounded_claims" /\ \E s \in DOMAIN r.evidence : r.evidence[s].text \in Unstructured
    \/ r.kind = "grounded_json" /\ \E f \in DOMAIN Fields :
          \/ Fields[f] \notin DOMAIN r.evidence
          \/ Fields[f] \in DOMAIN r.evidence /\ r.evidence[Fields[f]].text \in Unstructured
    \/ ~Admissible(r.schema)

\* profile_task; the wording of the task counts only when its type is not given.
Inferred(r, word) == r.task_type = "none" /\ word \in r.words

Required(r) ==
    r.capabilities
    \cup {c \in {"coding"} : \/ r.task_type \in {"coding", "debugging"} \/ Inferred(r, "code")
                             \/ r.kind = "python_function"}
    \cup {c \in {"structured_output"} : r.schema # "none" \/ r.kind \in JsonKinds \cup GroundedKinds}
    \cup {c \in {"vision"} : r.task_type = "vision"}

Grounding(r) ==
    \/ r.kind \in GroundedKinds \/ r.freshness
    \/ r.task_type \in {"research", "grounded_research", "factual_research"}
    \/ Inferred(r, "sources")

\* What no validator of FAIR's can judge.
Bug_Uncovered(r) == r.freshness
Uncovered(r) ==
    \/ Grounding(r) /\ r.kind \notin GroundedKinds
    \/ r.freshness
    \/ Required(r) \ ({"structured_output"} \cup {c \in {"coding"} : r.kind = "python_function"}) # {}

-----------------------------------------------------------------------------
(* What is answered, and how it is judged *)

ExpectsJson(r) == IF r.kind = "none" THEN r.schema # "none" ELSE r.kind \in JsonKinds

\* read_json: the document in the text, and what was around it.  A function holds a
\* bracketed literal, which reads as a document wrapped in prose.
Wrapper(r, a) ==
    IF r.kind = "python_function" THEN IF a.form = "bare" THEN "PROSE" ELSE "NONE"
    ELSE CASE a.form = "bare"   -> "BARE"
           [] a.form = "fenced" -> "FENCE"
           [] a.form = "wrapped" /\ r.kind # "arithmetic" -> "PROSE"
           [] OTHER             -> "NONE"
Reads(r, a) == Wrapper(r, a) # "NONE"

Bug_SchemaMet(r, a) == Reads(r, a) /\ a.conforms
SchemaMet(r, a) ==
    Reads(r, a) /\ a.conforms /\ (Wrapper(r, a) = "PROSE" => ExpectsJson(r))

\* The contract's own check: it holds, fails, or is left open.
Bug_Matched(r, a) ==
    CASE r.kind = "arithmetic"      -> IF a.form # "broken" /\ a.right THEN "PASS" ELSE "FAIL"
      [] r.kind \in JsonKinds       -> IF Reads(r, a) /\ a.right THEN "PASS" ELSE "FAIL"
      [] r.kind = "grounded_claims" ->
            IF a.form = "bare" THEN validate_claims(a.answers, Claims, r.evidence) ELSE "FAIL"
      [] r.kind = "python_function" ->
            IF a.form = "bare" /\ FunctionFailure(Programs[a.program], Cases) = "none" THEN "PASS" ELSE "FAIL"
      [] OTHER -> "none"
Matched(r, a) ==
    CASE r.kind = "arithmetic"      -> IF a.form = "bare" /\ a.right THEN "PASS" ELSE "FAIL"
      [] r.kind \in JsonKinds       -> IF Reads(r, a) /\ a.right THEN "PASS" ELSE "FAIL"
      [] r.kind = "grounded_claims" ->
            IF a.form = "bare" THEN validate_claims(a.answers, Claims, r.evidence) ELSE "FAIL"
      [] r.kind = "python_function" ->
            IF a.form = "bare" /\ FunctionFailure(Programs[a.program], Cases) = "none" THEN "PASS" ELSE "FAIL"
      [] OTHER -> "none"

Reasons(r, a, matched) ==
    {x \in {"EMPTY_RESPONSE"}         : a.form = "blank"}
    \cup {x \in {"INCOMPLETE_RESPONSE"} : a.finish # "stop"}
    \cup {x \in {"SCHEMA_FAILURE"}      : r.schema # "none" /\ ~SchemaMet(r, a)}
    \cup {x \in {"FABRICATED_CITATION"} : \E c \in a.citations : c.source \notin DOMAIN r.evidence}
    \cup {x \in {"UNSUPPORTED_CITATION"} :
            \E c \in a.citations : c.source \in DOMAIN r.evidence /\ ~c.exact}
    \cup {x \in {"MATERIAL_CONTRADICTION"} : a.contradicts}
    \cup {x \in {"GROUNDING_REQUIRED"} :
            Grounding(r) /\ a.citations = {} /\ r.kind \notin GroundedKinds}
    \cup {x \in {"CONTRACT_FAILURE"}    : matched = "FAIL"}

Verifications ==
    [none |-> "UNVERIFIED", arithmetic |-> "DETERMINISTIC_ARITHMETIC",
     reference_json |-> "HOST_REFERENCE_MATCH", grounded_json |-> "SOURCE_DATA_MATCH",
     grounded_claims |-> "STRUCTURED_CLAIMS_SUPPORTED", python_function |-> "BOUNDED_CODE_TESTS"]

\* SourceReviewRegistry.evaluate; without a registry a policy is not met.
Targets(r) ==
    IF r.kind = "grounded_claims"
      THEN [c \in DOMAIN Claims |-> {p[1] : p \in Places(Records(r.evidence, Claims[c]))}]
      ELSE [f \in DOMAIN Fields |-> {Fields[f]}]
Bug_SourceState(r, at) ==
    IF r.policy = NoPolicy \/ ~registry THEN "NOT_REQUESTED"
    ELSE IF Passes(r.evidence, Targets(r), r.client, r.policy, at) THEN "PASSED" ELSE "BLOCKED"
SourceState(r, at) ==
    IF r.policy = NoPolicy THEN "NOT_REQUESTED"
    ELSE IF registry /\ Passes(r.evidence, Targets(r), r.client, r.policy, at)
      THEN "PASSED" ELSE "BLOCKED"

\* evaluate.
Evaluated(r, a, at) ==
    LET matched == Matched(r, a)
        reasons == Reasons(r, a, matched)
        source  == SourceState(r, at)
        shape   == r.kind = "none" /\ r.schema # "none" /\ SchemaMet(r, a)
        voided  == reasons # {} \/ Uncovered(r) \/ source = "BLOCKED"
    IN [reasons |-> reasons, source |-> source,
        verification |-> IF voided THEN "UNVERIFIED"
                         ELSE IF shape THEN "STRUCTURE_VALIDATED"
                         ELSE IF matched = "PASS" THEN Verifications[r.kind] ELSE "UNVERIFIED",
        score |-> IF reasons # {} THEN 0
                  ELSE IF voided THEN NoScore
                  ELSE IF shape THEN StructureScore
                  ELSE IF matched = "PASS" THEN 100 ELSE NoScore]

Bug_acceptable(r, report) == report.reasons = {} /\ report.verification # "UNVERIFIED"
acceptable(r, report) ==
    /\ report.reasons = {} /\ report.score # NoScore
    /\ report.score >= Thresholds[r.level]
    /\ report.verification # "UNVERIFIED"

Disposition(r, report) ==
    IF acceptable(r, report) THEN "ACCEPTED"
    ELSE IF report.reasons # {} \/ report.score # NoScore THEN "QUALITY_FAILURE"
    ELSE "UNVERIFIED"

Bug_ReturnableUnmet(r, report) == r.accept_unverified /\ Disposition(r, report) = "UNVERIFIED"
Bug_ReturnableWrong(r, report) == r.accept_unverified /\ report.source # "BLOCKED"
Returnable(r, report) ==
    /\ r.accept_unverified /\ report.reasons = {} /\ report.source # "BLOCKED"
    /\ Disposition(r, report) = "UNVERIFIED"

\* _output: the document alone where the answer is meant to be one.
Bug_Delivered(r, a) == a.form
Delivered(r, a) == IF ExpectsJson(r) /\ Reads(r, a) THEN "bare" ELSE a.form

-----------------------------------------------------------------------------

\* create_app, solve and chat: how a result is answered over HTTP.
Bug_Reply(via, st) ==
    IF via = "library"                 THEN [code |-> 0, content |-> FALSE]
    ELSE IF st = "INVALID"             THEN [code |-> 422, content |-> FALSE]
    ELSE [code |-> 200, content |-> via = "chat" \/ st \in {"ACCEPTED", "ACCEPTED_UNVERIFIED"}]
Reply(via, st) ==
    IF via = "library"                 THEN [code |-> 0, content |-> FALSE]
    ELSE IF st = "INVALID"             THEN [code |-> 422, content |-> FALSE]
    ELSE IF via = "solve"
      THEN [code |-> 200, content |-> st \in {"ACCEPTED", "ACCEPTED_UNVERIFIED"}]
    ELSE IF st = "ESCALATION_REQUIRED" THEN [code |-> 422, content |-> FALSE]
    ELSE IF st # "ACCEPTED"            THEN [code |-> 503, content |-> FALSE]
    ELSE [code |-> 200, content |-> TRUE]
NoReply == [code |-> 0, content |-> FALSE]

Init ==
    /\ now = 0 /\ registry = TRUE
    /\ request = NoRequest /\ answered = 0 /\ judged = NoAnswer /\ status = "none" /\ reply = NoReply

Return(st) == status' = st /\ reply' = Reply(request'.via, st)

\* A request arrives: a chat of another model, a stream or an odd response_format
\* never reaches solve, an invalid request is never routed.
Arrive(r) ==
    /\ request' = r /\ registry' \in (IF r.policy = NoPolicy THEN {TRUE} ELSE BOOLEAN)
    /\ IF r.via = "malformed_chat"
         THEN status' = "REFUSED" /\ reply' = [code |-> 400, content |-> FALSE]
       ELSE IF Refused(r) THEN Return("INVALID")
       ELSE UNCHANGED <<status, reply>>
    /\ UNCHANGED <<now, answered, judged>>

Waiting == request # NoRequest /\ status = "none"

\* A route answered, and the answer is judged in the same step.
Answer(a) ==
    LET report == Evaluated(request, a, now)
    IN /\ Waiting /\ answered < MaxAnswers
       /\ answered' = answered + 1
       /\ judged' = [answer |-> a, report |-> report, at |-> now, output |-> Delivered(request, a)]
       /\ IF Disposition(request, report) = "ACCEPTED"
            THEN status' = "ACCEPTED" /\ reply' = Reply(request.via, "ACCEPTED")
          ELSE IF Returnable(request, report)
            THEN status' = "ACCEPTED_UNVERIFIED" /\ reply' = Reply(request.via, "ACCEPTED_UNVERIFIED")
          ELSE UNCHANGED <<status, reply>>
       /\ UNCHANGED <<now, registry, request>>

\* No route is left, or the budget of answers is spent.
Escalate ==
    /\ Waiting
    /\ status' = "ESCALATION_REQUIRED" /\ reply' = Reply(request.via, "ESCALATION_REQUIRED")
    /\ UNCHANGED <<now, registry, request, answered, judged>>

\* Nothing reads the clock but the judging of sources under a policy.
Tick ==
    /\ Waiting /\ request.policy # NoPolicy
    /\ now < Horizon /\ now' = now + 1
    /\ UNCHANGED <<registry, request, answered, judged, status, reply>>

Next ==
    \/ request = NoRequest /\ \E r \in Requests : Arrive(r)
    \/ Waiting /\ \E a \in Answers(request) : Answer(a)
    \/ Escalate
    \/ Tick

Spec == Init /\ [][Next]_vars

-----------------------------------------------------------------------------
(* Properties *)

\* The values the variables range over: a result is given only to a request, and what
\* is returned is the answer judged judged.
JudgementTypeOK ==
    /\ now \in 0..Horizon /\ registry \in BOOLEAN
    /\ request.kind \in Kinds \cup {NoRequest.kind}
    /\ answered \in 0..MaxAnswers /\ judged.at \in -1..now /\ (judged = NoAnswer <=> answered = 0)
    /\ status \in {"none", "REFUSED", "INVALID", "ACCEPTED", "ACCEPTED_UNVERIFIED", "ESCALATION_REQUIRED"}
    /\ status # "none" => request # NoRequest
    /\ status \in {"ACCEPTED", "ACCEPTED_UNVERIFIED"} => answered > 0 /\ judged.report.reasons = {}

\* Python gives what each case of the contract expects.
CasesHold(body) ==
    \A i \in DOMAIN Cases :
        LET got == PythonGives(body, Cases[i].arguments)
        IN got.type = Cases[i].expected.type /\ got.v = Cases[i].expected.v

\* What an answer must be, said without the engine's order of tests: what Python
\* gives for every case, the reference document, the agreed facts.
Right(r, a) ==
    CASE r.kind = "none"            -> r.schema # "none" /\ StructureScore >= Thresholds[r.level]
      [] r.kind = "arithmetic"      -> a.form = "bare" /\ a.right
      [] r.kind \in JsonKinds       -> a.form \in {"bare", "fenced", "wrapped"} /\ a.right
      [] r.kind = "grounded_claims" ->
            a.form = "bare" /\ ClaimsMeaning(a.answers, Claims, r.evidence) = "PASS"
      [] r.kind = "python_function" ->
            /\ a.form = "bare"
            /\ CasesHold(Programs[a.program])

\* Nothing about the answer is wrong: whole, honest in what it quotes, of one mind,
\* and of the shape asked for.
Sound(r, a) ==
    /\ a.form # "blank" /\ a.finish = "stop" /\ ~a.contradicts
    /\ \A c \in a.citations : c.source \in DOMAIN r.evidence /\ c.exact
    /\ r.schema # "none" =>
          /\ a.conforms /\ r.kind # "python_function"
          /\ a.form = "wrapped" => r.kind \notin {"arithmetic", "grounded_claims"}

\* Every source was, at that moment, approved for this client as it is, in date, and
\* what the answer rests on has the independent origins the policy asks for.
Sourced(r, at) ==
    r.policy # NoPolicy =>
        /\ registry
        /\ \A s \in DOMAIN r.evidence :
              \E id \in DOMAIN Reviews :
                  LET v == Reviews[id] IN
                  /\ r.evidence[s].review = id /\ v.digest = r.evidence[s].text
                  /\ r.client \in v.clients /\ v.decision = "APPROVED" /\ v.class \in r.policy.classes
                  /\ v.reviewed <= at /\ at < v.expires /\ at <= v.observed + r.policy.max_age
        /\ \A t \in DOMAIN Targets(r) :
              Corroboration({Reviews[r.evidence[s].review] : s \in Targets(r)[t]}) >= r.policy.min_origins

Judgeable(r) ==
    /\ ~r.freshness /\ r.task_type # "vision"
    /\ Grounding(r) => r.kind \in GroundedKinds
    /\ r.task_type = "coding" \/ Inferred(r, "code") => r.kind = "python_function"
    /\ r.capabilities \subseteq {"structured_output"} \cup (IF r.kind = "python_function" THEN {"coding"} ELSE {})

\* What is returned as verified is right, sound, sourced at the moment it was judged,
\* of a task FAIR can judge, and delivered as the document it was judged as; what is
\* returned unverified was asked for and nothing was found wrong with it; a chat is
\* never given anything else (engine.py evaluate and acceptable, router.py
\* _returnable_unverified and _output, app.py chat).
AcceptedPassedAll ==
    /\ status = "ACCEPTED" =>
          /\ Right(request, judged.answer) /\ Sound(request, judged.answer) /\ Sourced(request, judged.at)
          /\ Judgeable(request)
    /\ status = "ACCEPTED_UNVERIFIED" =>
          /\ request.accept_unverified /\ ~request.cross_check /\ request.level # "high_impact_support"
          /\ Sound(request, judged.answer) /\ Sourced(request, judged.at)
          /\ Grounding(request) => request.kind \in GroundedKinds \/ judged.answer.citations # {}
          /\ request.kind \notin {"none", "grounded_claims"} => Right(request, judged.answer)
          /\ request.kind = "grounded_claims" =>
                ClaimsMeaning(judged.answer.answers, Claims, request.evidence) # "FAIL"
    /\ status \in {"ACCEPTED", "ACCEPTED_UNVERIFIED"} /\ ExpectsJson(request) => judged.output = "bare"
    /\ reply.content => status = "ACCEPTED"

\* The claims checker agrees with what its verdict stands for, an abstention proving
\* nothing (claims.py validate_claims).
ClaimsWeighed ==
    request.kind = "grounded_claims" /\ answered > 0 =>
        LET answers == judged.answer.answers IN
        validate_claims(answers, Claims, request.evidence)
            = ClaimsMeaning(answers, Claims, request.evidence)
=============================================================================
