--------------------------- MODULE JudgementProofs ---------------------------
(***************************************************************************)
(* What FAIR vouches for, for every request, every answer and every        *)
(* dossier: the claims checker and the count of origins mean what they     *)
(* say, and nothing comes back as verified that is not, if the interpreter *)
(* of functions is right.                                                  *)
(***************************************************************************)
EXTENDS Judgement, OriginCount, FiniteSetTheorems, SequenceTheorems, TLAPS

-----------------------------------------------------------------------------
(* Finite images *)

LEMMA ImageIsFinite ==
  ASSUME NEW S, IsFiniteSet(S), NEW f, DOMAIN f = S
  PROVE  /\ IsFiniteSet({f[x] : x \in S})
         /\ Cardinality({f[x] : x \in S}) <= Cardinality(S)
<1>. DEFINE T == {f[x] : x \in S}
            g == [x \in S |-> f[x]]
<1>1. g \in Surjection(S, T)
  BY DEF Surjection
<1>. HIDE DEF T, g
<1>2. IsFiniteSet(T) /\ Cardinality(T) <= Cardinality(S)
  BY <1>1, FS_Surjection
<1>. QED  BY <1>2 DEF T

\* A function names as many values as it has arguments just if it is one to one.
LEMMA OneToOne ==
  ASSUME NEW S, IsFiniteSet(S), NEW f, DOMAIN f = S
  PROVE  Cardinality({f[x] : x \in S}) = Cardinality(S)
            <=> \A a, b \in S : f[a] = f[b] => a = b
<1>. DEFINE T == {f[x] : x \in S}
            g == [x \in S |-> f[x]]
<1>1. g \in Surjection(S, T) /\ \A x \in S : g[x] = f[x]
  BY DEF Surjection
<1>. HIDE DEF T, g
<1>2. ASSUME Cardinality(T) = Cardinality(S)
      PROVE  \A a, b \in S : f[a] = f[b] => a = b
  <2>1. g \in Injection(S, T)
    BY <1>1, <1>2, FS_SurjSameCardinalityImpliesInj
  <2>. QED  BY <1>1, <2>1 DEF Injection, IsInjective
<1>3. ASSUME \A a, b \in S : f[a] = f[b] => a = b
      PROVE  Cardinality(T) = Cardinality(S)
  <2>1. g \in Injection(S, T)
    BY <1>1, <1>3 DEF Injection, Surjection, IsInjective
  <2>2. g \in Bijection(S, T)
    BY <1>1, <2>1 DEF Bijection
  <2>3. ExistsBijection(S, T)
    BY <2>2 DEF ExistsBijection
  <2>. QED  BY <2>3, FS_Bijection
<1>. QED  BY <1>2, <1>3 DEF T

-----------------------------------------------------------------------------
(* The facts of a dossier under a key *)

\* A dossier, as every request's is.
Readable(evidence) ==
    IsFiniteSet(DOMAIN evidence) /\ \A s \in DOMAIN evidence : evidence[s].text \in Texts

\* Each place states one value, and a dossier has finitely many.
Indexed(records) ==
    IsFiniteSet(records) /\ \A r, q \in records : r.at = q.at => r = q

LEMMA RecordsAreIndexed ==
  ASSUME NEW evidence, Readable(evidence), NEW key
  PROVE  Indexed(Records(evidence, key))
<1>. DEFINE Lines(s) == {j \in DOMAIN Facts[evidence[s].text] :
                            Facts[evidence[s].text][j].key = key}
            Stated(s) == {[value |-> Facts[evidence[s].text][i].value, at |-> <<s, i>>] :
                            i \in Lines(s)}
<1>1. Records(evidence, key) = UNION {Stated(s) : s \in DOMAIN evidence}
  BY DEF Records
<1>2. ASSUME NEW s \in DOMAIN evidence  PROVE IsFiniteSet(Stated(s))
  <2>. DEFINE f == [i \in Lines(s) |-> [value |-> Facts[evidence[s].text][i].value, at |-> <<s, i>>]]
  <2>1. IsFiniteSet(DOMAIN Facts[evidence[s].text])
    BY EvidenceAssumption DEF Readable
  <2>2. IsFiniteSet(Lines(s))
    BY <2>1, FS_Subset
  <2>3. Stated(s) = {f[i] : i \in Lines(s)} /\ DOMAIN f = Lines(s)
    OBVIOUS
  <2>. HIDE DEF f, Lines, Stated
  <2>. QED  BY <2>2, <2>3, ImageIsFinite
<1>3. IsFiniteSet({Stated(s) : s \in DOMAIN evidence})
  <2>. DEFINE f == [s \in DOMAIN evidence |-> Stated(s)]
  <2>1. {Stated(s) : s \in DOMAIN evidence} = {f[s] : s \in DOMAIN evidence}
        /\ DOMAIN f = DOMAIN evidence
    OBVIOUS
  <2>. HIDE DEF f, Stated
  <2>. QED  BY <2>1, ImageIsFinite DEF Readable
<1>4. IsFiniteSet(Records(evidence, key))
  <2>. DEFINE all == {Stated(s) : s \in DOMAIN evidence}
  <2>1. \A T \in all : IsFiniteSet(T)
    BY <1>2
  <2>. HIDE DEF all
  <2>2. IsFiniteSet(UNION all)
    BY <1>3, <2>1, FS_UNION DEF all
  <2>. QED  BY <1>1, <2>2 DEF all
<1>5. ASSUME NEW r \in Records(evidence, key), NEW q \in Records(evidence, key), r.at = q.at
      PROVE  r = q
  <2>1. PICK s \in DOMAIN evidence :
          \E i \in Lines(s) : r = [value |-> Facts[evidence[s].text][i].value, at |-> <<s, i>>]
    BY <1>1, <1>5
  <2>2. PICK i \in Lines(s) : r = [value |-> Facts[evidence[s].text][i].value, at |-> <<s, i>>]
    BY <2>1
  <2>3. PICK u \in DOMAIN evidence :
          \E j \in Lines(u) : q = [value |-> Facts[evidence[u].text][j].value, at |-> <<u, j>>]
    BY <1>1, <1>5
  <2>4. PICK j \in Lines(u) : q = [value |-> Facts[evidence[u].text][j].value, at |-> <<u, j>>]
    BY <2>3
  <2>5. s = u /\ i = j
    BY <1>5, <2>2, <2>4
  <2>. QED  BY <2>2, <2>4, <2>5
<1>. QED  BY <1>4, <1>5 DEF Indexed

\* More than one value is two facts that disagree.
LEMMA ManyValues ==
  ASSUME NEW records, IsFiniteSet(records)
  PROVE  /\ IsFiniteSet(Values(records))
         /\ Cardinality(Values(records)) > 1 <=> \E r, q \in records : r.value # q.value
<1>. DEFINE V == Values(records)
            f == [r \in records |-> r.value]
<1>1. V = {f[r] : r \in records} /\ DOMAIN f = records
  BY DEF Values
<1>2. IsFiniteSet(V)
  <2>. HIDE DEF f, V
  <2>. QED  BY <1>1, ImageIsFinite
<1>3. ASSUME NEW r \in records, NEW q \in records, r.value # q.value
      PROVE  Cardinality(V) > 1
  <2>. DEFINE a == r.value
              b == q.value
  <2>1. a \in V /\ b \in V /\ a # b
    BY <1>3 DEF Values
  <2>. HIDE DEF a, b, V
  <2>2. Cardinality({a}) = 1 /\ IsFiniteSet({a})
    BY FS_Singleton
  <2>3. Cardinality({a} \cup {b}) = 2
    BY <2>1, <2>2, FS_AddElement
  <2>4. {a} \cup {b} \in SUBSET V
    BY <2>1
  <2>5. Cardinality({a} \cup {b}) <= Cardinality(V) /\ Cardinality(V) \in Nat
    BY <1>2, <2>4, FS_Subset, FS_CardinalityType
  <2>. QED  BY <2>3, <2>5
<1>4. ASSUME \A r, q \in records : r.value = q.value
      PROVE  Cardinality(V) <= 1
  <2>1. CASE records = {}
    <3>1. V = {}
      BY <2>1 DEF Values
    <3>. QED  BY <3>1, FS_EmptySet
  <2>2. CASE records # {}
    <3>1. PICK r \in records : TRUE
      BY <2>2
    <3>2. V = {r.value}
      BY <1>4, <3>1 DEF Values
    <3>. HIDE DEF V
    <3>3. Cardinality(V) = 1
      BY <3>2, FS_Singleton
    <3>. QED  BY <3>3
  <2>. QED  BY <2>1, <2>2
<1>5. Cardinality(V) \in Nat
  BY <1>2, FS_CardinalityType
<1>. QED  BY <1>2, <1>3, <1>4, <1>5

\* Citing every fact once is naming as many references as there are facts, and
\* each fact among them.
LEMMA CitedOnce ==
  ASSUME NEW records, Indexed(records), NEW X, NEW sources \in Seq(X)
  PROVE  (IsInjective(sources) /\ ToSet(sources) = Places(records))
            <=> /\ Len(sources) = Cardinality(records)
                /\ \A r \in records : \E i \in DOMAIN sources : sources[i] = r.at
<1>. DEFINE P == Places(records)
            C == ToSet(sources)
            f == [r \in records |-> r.at]
<1>1. P = {f[r] : r \in records} /\ DOMAIN f = records
      /\ \A a, b \in records : f[a] = f[b] => a = b
  BY DEF Places, Indexed
<1>2. IsFiniteSet(P) /\ Cardinality(P) = Cardinality(records)
  <2>. HIDE DEF P, f
  <2>. QED  BY <1>1, ImageIsFinite, OneToOne DEF Indexed
<1>3. DOMAIN sources = 1..Len(sources) /\ Len(sources) \in Nat
  OBVIOUS
<1>4. IsFiniteSet(DOMAIN sources) /\ Cardinality(DOMAIN sources) = Len(sources)
  BY <1>3, FS_Interval
<1>5. C = {sources[i] : i \in DOMAIN sources}
  BY DEF ToSet
<1>6. /\ IsFiniteSet(C) /\ Cardinality(C) <= Len(sources) /\ Cardinality(C) \in Nat
      /\ Cardinality(C) = Len(sources) <=> IsInjective(sources)
  <2>. HIDE DEF C
  <2>. QED  BY <1>4, <1>5, ImageIsFinite, OneToOne, FS_CardinalityType DEF IsInjective
<1>7. (\A r \in records : \E i \in DOMAIN sources : sources[i] = r.at) <=> P \subseteq C
  BY <1>5 DEF Places
<1>8. P \subseteq C => Cardinality(P) <= Cardinality(C) /\ (Cardinality(P) = Cardinality(C) => P = C)
  <2>. HIDE DEF P, C
  <2>. QED  BY <1>6, FS_Subset
<1>9. Cardinality(records) \in Nat
  BY FS_CardinalityType DEF Indexed
<1>. HIDE DEF P, C
<1>. QED  BY <1>2, <1>3, <1>6, <1>7, <1>8, <1>9 DEF P, C

-----------------------------------------------------------------------------
(* The claims checker *)

\* An answered claim is supported just if all the evidence witnesses it.
LEMMA AnsweredStatus ==
  ASSUME NEW records, Indexed(records), NEW answer, answer.status = "answered",
         NEW X, answer.sources \in Seq(X)
  PROVE  /\ ClaimStatus(answer, records) = "SUPPORTED" <=> Witnessed(answer, records)
         /\ ClaimStatus(answer, records) \notin Neutral
<1>. DEFINE many  == Cardinality(Values(records)) > 1
            cited == IsInjective(answer.sources) /\ ToSet(answer.sources) = Places(records)
            found == ClaimStatus(answer, records)
<1>1. found = IF records = {} THEN "UNSUPPORTED"
               ELSE IF many THEN "CLAIM_OVER_CONFLICTING_EVIDENCE"
               ELSE IF answer.value \notin Values(records) THEN "CONTRADICTED"
               ELSE IF ~cited THEN "INVALID_PROVENANCE"
               ELSE "SUPPORTED"
  <2>1. (\/ ~IsInjective(answer.sources)
         \/ ToSet(answer.sources) # Places(records)) <=> ~cited
    OBVIOUS
  <2>. HIDE DEF cited
  <2>. QED  BY <2>1 DEF ClaimStatus
<1>2. many <=> \E r, q \in records : r.value # q.value
  BY ManyValues DEF Indexed
<1>3. answer.value \in Values(records) <=> \E r \in records : r.value = answer.value
  BY DEF Values
<1>4. cited <=> /\ Len(answer.sources) = Cardinality(records)
                /\ \A r \in records : \E i \in DOMAIN answer.sources : answer.sources[i] = r.at
  <2>. DEFINE sources == answer.sources
  <2>1. sources \in Seq(X)
    OBVIOUS
  <2>. HIDE DEF sources
  <2>2. (IsInjective(sources) /\ ToSet(sources) = Places(records))
            <=> /\ Len(sources) = Cardinality(records)
                /\ \A r \in records : \E i \in DOMAIN sources : sources[i] = r.at
    BY <2>1, CitedOnce
  <2>. QED  BY <2>2 DEF sources
<1>. HIDE DEF many, cited, found
<1>5. found = "SUPPORTED" <=> records # {} /\ ~many /\ answer.value \in Values(records) /\ cited
  BY <1>1
<1>6. (records # {} /\ ~many /\ answer.value \in Values(records))
        <=> (records # {} /\ \A r \in records : r.value = answer.value)
  BY <1>2, <1>3
<1>7. found \notin Neutral
  BY <1>1 DEF Neutral
<1>. QED  BY <1>4, <1>5, <1>6, <1>7, Zenon DEF Witnessed, found

LEMMA OtherStatus ==
  ASSUME NEW records, NEW answer
  PROVE  /\ answer.status = "abstained" => ClaimStatus(answer, records) \in Neutral
         /\ answer.status = "missing" => ClaimStatus(answer, records) = "MISSING"
BY DEF ClaimStatus, Neutral

\* What the contract's answers may be.
WellFormed(answers) ==
    \A c \in DOMAIN answers :
        /\ answers[c].status \in {"answered", "abstained"}
        /\ answers[c].sources \in Seq(STRING \X Nat)

\* The claims checker's verdict is what it stands for, whatever is answered and
\* however the evidence agrees or disagrees.
LEMMA VerdictMeans ==
  ASSUME NEW evidence, Readable(evidence), NEW answers, WellFormed(answers),
         NEW claims, DOMAIN claims # {}
  PROVE  validate_claims(answers, claims, evidence) = ClaimsMeaning(answers, claims, evidence)
<1>. DEFINE Status(c) == ClaimStatus(Given(answers, c), Records(evidence, claims[c]))
            statuses  == {Status(c) : c \in DOMAIN claims}
            Holds(c)  == c \in DOMAIN answers /\ Witnessed(answers[c], Records(evidence, claims[c]))
            Open(c)   == c \in DOMAIN answers /\ answers[c].status = "abstained"
<1>1. ASSUME NEW c \in DOMAIN claims
      PROVE  /\ Status(c) = "SUPPORTED" <=> Holds(c)
             /\ Status(c) \in Neutral <=> Open(c)
  <2>. DEFINE records == Records(evidence, claims[c])
              given   == Given(answers, c)
  <2>1. Indexed(records)
    BY RecordsAreIndexed
  <2>2. CASE c \notin DOMAIN answers
    <3>1. given.status = "missing"
      BY <2>2 DEF Given, Missing
    <3>. HIDE DEF records, given
    <3>2. ClaimStatus(given, records) = "MISSING"
      BY <3>1, OtherStatus
    <3>. QED  BY <2>2, <3>2 DEF Neutral, given, records
  <2>3. CASE c \in DOMAIN answers /\ answers[c].status = "abstained"
    <3>1. given = answers[c]
      BY <2>3 DEF Given
    <3>. HIDE DEF records, given
    <3>2. ClaimStatus(given, records) \in Neutral
      BY <2>3, <3>1, OtherStatus
    <3>3. ~Witnessed(given, records)
      BY <2>3, <3>1 DEF Witnessed
    <3>. QED  BY <2>3, <3>1, <3>2, <3>3 DEF Neutral, given, records
  <2>4. CASE c \in DOMAIN answers /\ answers[c].status = "answered"
    <3>1. given = answers[c] /\ given.sources \in Seq(STRING \X Nat)
      BY <2>4 DEF Given, WellFormed
    <3>. HIDE DEF records, given
    <3>2. /\ ClaimStatus(given, records) = "SUPPORTED" <=> Witnessed(given, records)
          /\ ClaimStatus(given, records) \notin Neutral
      BY <2>1, <2>4, <3>1, AnsweredStatus
    <3>. QED  BY <2>4, <3>1, <3>2 DEF given, records
  <2>. QED  BY <2>2, <2>3, <2>4 DEF WellFormed
<1>2. validate_claims(answers, claims, evidence)
        = IF ~(DOMAIN answers \subseteq DOMAIN claims) \/ ~(statuses \subseteq Neutral \cup {"SUPPORTED"})
            THEN "FAIL"
          ELSE IF statuses = {"SUPPORTED"} THEN "PASS" ELSE "INCOMPLETE"
  BY DEF validate_claims
<1>3. ClaimsMeaning(answers, claims, evidence)
        = IF \/ DOMAIN answers \ DOMAIN claims # {}
             \/ \E c \in DOMAIN claims : ~Holds(c) /\ ~Open(c) THEN "FAIL"
          ELSE IF \E c \in DOMAIN claims : Open(c) THEN "INCOMPLETE" ELSE "PASS"
  BY DEF ClaimsMeaning
<1>4. statuses \subseteq Neutral \cup {"SUPPORTED"} <=> \A c \in DOMAIN claims : Holds(c) \/ Open(c)
  BY <1>1
<1>5. "SUPPORTED" \notin Neutral
  BY DEF Neutral
<1>6. ASSUME statuses \subseteq Neutral \cup {"SUPPORTED"}
      PROVE  statuses = {"SUPPORTED"} <=> ~ \E c \in DOMAIN claims : Open(c)
  BY <1>1, <1>5, <1>6
<1>7. DOMAIN answers \subseteq DOMAIN claims <=> DOMAIN answers \ DOMAIN claims = {}
  OBVIOUS
<1>. HIDE DEF Status, statuses, Holds, Open
<1>. QED  BY <1>2, <1>3, <1>4, <1>6, <1>7, Zenon

-----------------------------------------------------------------------------
(* What a solve has been told *)

\* Nothing is judged before a request, and what is judged is one of its answers.
Asked ==
    /\ request = NoRequest => answered = 0 /\ status = "none" /\ reply = NoReply
    /\ request # NoRequest => request \in Requests
    /\ request # NoRequest /\ (answered > 0 \/ status = "none") =>
          ~Refused(request) /\ request.via # "malformed_chat"

\* The report kept is the one the answer earned when it was judged.
ReportKept ==
    answered > 0 =>
        /\ request # NoRequest
        /\ judged.answer \in Answers(request)
        /\ judged.report = Evaluated(request, judged.answer, judged.at)
        /\ judged.output = Delivered(request, judged.answer)

\* What is returned, the report allows, and only a client of an accepted answer is
\* given content.
ReturnedAsJudged ==
    /\ status = "ACCEPTED" => answered > 0 /\ Disposition(request, judged.report) = "ACCEPTED"
    /\ status = "ACCEPTED_UNVERIFIED" => answered > 0 /\ Returnable(request, judged.report)
    /\ reply.content \in BOOLEAN /\ (reply.content => status = "ACCEPTED")

JudgementInv == JudgementTypeOK /\ Asked /\ ReportKept /\ ReturnedAsJudged

\* The report of a text that may be returned names no failure.
LEMMA ReturnedWithoutReasons ==
  ASSUME NEW r, NEW report
  PROVE  /\ Disposition(r, report) = "ACCEPTED" => acceptable(r, report) /\ report.reasons = {}
         /\ Returnable(r, report) => r.accept_unverified /\ report.reasons = {}
BY DEF Disposition, acceptable, Returnable

LEMMA StartsInv == Init => JudgementInv
<1>. SUFFICES ASSUME Init PROVE JudgementInv
  OBVIOUS
<1>1. JudgementTypeOK
  BY JudgementAssumption DEF Init, JudgementTypeOK, NoRequest, NoAnswer
<1>2. Asked /\ ReportKept /\ ReturnedAsJudged
  BY DEF Init, Asked, ReportKept, ReturnedAsJudged, NoReply, NoRequest
<1>. QED  BY <1>1, <1>2 DEF JudgementInv

\* A client is given content only with an accepted result, if the result is none that
\* only the library may ask for.
LEMMA ContentOnlyAccepted ==
  ASSUME NEW via, NEW st,
         st \in {"INVALID", "ACCEPTED", "ACCEPTED_UNVERIFIED", "ESCALATION_REQUIRED"},
         st = "ACCEPTED_UNVERIFIED" => via = "library"
  PROVE  Reply(via, st).content \in BOOLEAN /\ (Reply(via, st).content => st = "ACCEPTED")
<1>1. CASE via = "library"
  BY <1>1 DEF Reply
<1>2. CASE via # "library" /\ st = "INVALID"
  <2>1. Reply(via, st) = [code |-> 422, content |-> FALSE]
    BY <1>2 DEF Reply
  <2>. QED  BY <2>1
<1>3. CASE via # "library" /\ st = "ACCEPTED"
  <2>1. Reply(via, st) = [code |-> 200, content |-> TRUE]
    BY <1>3 DEF Reply
  <2>2. Reply(via, st).content = TRUE
    BY <2>1
  <2>. QED  BY <1>3, <2>2
<1>4. CASE via = "solve" /\ st = "ESCALATION_REQUIRED"
  <2>1. (st \in {"ACCEPTED", "ACCEPTED_UNVERIFIED"}) = FALSE
    BY <1>4
  <2>2. Reply(via, st) = [code |-> 200, content |-> st \in {"ACCEPTED", "ACCEPTED_UNVERIFIED"}]
    BY <1>4, Zenon DEF Reply
  <2>3. Reply(via, st) = [code |-> 200, content |-> FALSE]
    BY <2>1, <2>2, Zenon
  <2>. QED  BY <2>3
<1>5. CASE via \notin {"library", "solve"} /\ st = "ESCALATION_REQUIRED"
  <2>1. Reply(via, st) = [code |-> 422, content |-> FALSE]
    BY <1>5 DEF Reply
  <2>. QED  BY <2>1
<1>6. \/ via = "library"
      \/ via # "library" /\ st = "INVALID"
      \/ via # "library" /\ st = "ACCEPTED"
      \/ via = "solve" /\ st = "ESCALATION_REQUIRED"
      \/ via \notin {"library", "solve"} /\ st = "ESCALATION_REQUIRED"
  OBVIOUS
<1>. QED  BY <1>1, <1>2, <1>3, <1>4, <1>5, <1>6, Zenon

LEMMA ArriveKeeps ==
  ASSUME JudgementInv, request = NoRequest, NEW r \in Requests, Arrive(r)
  PROVE  JudgementInv'
<1>. USE DEF JudgementInv
<1>1. /\ r.kind \in Kinds /\ r # NoRequest /\ request' = r
      /\ now' = now /\ answered' = 0 /\ answered = 0 /\ judged' = judged /\ status = "none" /\ reply = NoReply
  <2>1. r.kind \in Kinds /\ NoRequest.kind \notin Kinds
    BY JudgementAssumption DEF NoRequest, Kinds, JsonKinds, GroundedKinds
  <2>. QED  BY <2>1 DEF Arrive, Asked
<1>2. \/ r.via = "malformed_chat" /\ status' = "REFUSED" /\ reply' = [code |-> 400, content |-> FALSE]
      \/ r.via # "malformed_chat" /\ Refused(r) /\ status' = "INVALID" /\ reply' = Reply(r.via, "INVALID")
      \/ r.via # "malformed_chat" /\ ~Refused(r) /\ status' = "none" /\ reply' = NoReply
  <2>. HIDE DEF JudgementInv
  <2>. QED  BY <1>1 DEF Arrive, Return
<1>3. /\ status' \in {"none", "REFUSED", "INVALID"}
      /\ reply'.content = FALSE
      /\ status' = "none" => ~Refused(r) /\ r.via # "malformed_chat"
  BY <1>2 DEF Reply, NoReply
<1>4. JudgementTypeOK'
  <2>1. registry' \in BOOLEAN
    BY Zenon DEF Arrive
  <2>. QED  BY <1>1, <1>3, <2>1 DEF JudgementTypeOK
<1>5. Asked'
  BY <1>1, <1>3 DEF Asked
<1>6. ReportKept' /\ ReturnedAsJudged'
  BY <1>1, <1>3 DEF ReportKept, ReturnedAsJudged
<1>. QED  BY <1>4, <1>5, <1>6

LEMMA AnswerKeeps ==
  ASSUME JudgementInv, NEW a \in Answers(request), Answer(a)
  PROVE  JudgementInv'
<1>. DEFINE report == Evaluated(request, a, now)
<1>1. /\ request # NoRequest /\ request \in Requests /\ status = "none" /\ answered \in Nat
      /\ answered < MaxAnswers /\ answered' = answered + 1 /\ answered' \in 1..MaxAnswers
      /\ now' = now /\ now \in 0..Horizon /\ registry' = registry /\ request' = request
      /\ ~Refused(request) /\ request.via # "malformed_chat"
      /\ reply.content = FALSE
  BY JudgementAssumption DEF JudgementInv, JudgementTypeOK, Answer, Waiting, Asked, ReturnedAsJudged
<1>2. judged' = [answer |-> a, report |-> report, at |-> now, output |-> Delivered(request, a)]
  BY DEF Answer
<1>3. \/ /\ Disposition(request, report) = "ACCEPTED"
         /\ status' = "ACCEPTED" /\ reply' = Reply(request.via, "ACCEPTED")
      \/ /\ Returnable(request, report)
         /\ status' = "ACCEPTED_UNVERIFIED" /\ reply' = Reply(request.via, "ACCEPTED_UNVERIFIED")
      \/ status' = status /\ reply' = reply
  BY DEF Answer
<1>4. /\ judged'.answer = a /\ judged'.report = report /\ judged'.at = now
      /\ judged'.output = Delivered(request, a) /\ judged' # NoAnswer
  <2>. HIDE DEF report
  <2>1. NoAnswer.at = -1
    BY DEF NoAnswer
  <2>. QED  BY <1>1, <1>2, <2>1
<1>. HIDE DEF report
<1>5. JudgementTypeOK'
  <2>1. status' \in {"none", "ACCEPTED", "ACCEPTED_UNVERIFIED"}
        /\ (status' # "none" => report.reasons = {})
    BY <1>1, <1>3, ReturnedWithoutReasons
  <2>2. registry \in BOOLEAN /\ request.kind \in Kinds \cup {NoRequest.kind}
    BY Zenon DEF JudgementInv, JudgementTypeOK
  <2>. QED  BY <1>1, <1>4, <2>1, <2>2 DEF JudgementTypeOK
<1>6. Asked'
  BY <1>1, Zenon DEF Asked
<1>7. ReportKept'
  <2>1. Evaluated(request, a, now)' = Evaluated(request, a, now)
    BY <1>1 DEF Evaluated, SourceState
  <2>. QED  BY <1>1, <1>4 DEF ReportKept, report, Evaluated, SourceState
<1>8. ReturnedAsJudged'
  <2>1. CASE Disposition(request, report) = "ACCEPTED" /\ status' = "ACCEPTED"
                /\ reply' = Reply(request.via, "ACCEPTED")
    <3>1. reply'.content \in BOOLEAN
      BY <2>1, ContentOnlyAccepted
    <3>. QED  BY <1>1, <1>4, <2>1, <3>1 DEF ReturnedAsJudged
  <2>2. CASE Returnable(request, report) /\ status' = "ACCEPTED_UNVERIFIED"
                /\ reply' = Reply(request.via, "ACCEPTED_UNVERIFIED")
    <3>1. request.via = "library"
      BY <1>1, <2>2, ReturnedWithoutReasons, JudgementAssumption
    <3>2. reply'.content = FALSE
      BY <2>2, <3>1 DEF Reply
    <3>3. answered' > 0 /\ Returnable(request', judged'.report)
      BY <1>1, <1>4, <2>2
    <3>. QED  BY <2>2, <3>2, <3>3 DEF ReturnedAsJudged
  <2>3. CASE status' = status /\ reply' = reply
    BY <1>1, <2>3 DEF ReturnedAsJudged
  <2>. QED  BY <1>3, <2>1, <2>2, <2>3
<1>. QED  BY <1>5, <1>6, <1>7, <1>8 DEF JudgementInv

\* A step that judges nothing keeps what was judged.
LEMMA KeepsInv ==
  ASSUME JudgementInv, [Next]_vars
  PROVE  JudgementInv'
<1>1. CASE request = NoRequest /\ \E r \in Requests : Arrive(r)
  BY <1>1, ArriveKeeps
<1>2. CASE Waiting /\ \E a \in Answers(request) : Answer(a)
  BY <1>2, AnswerKeeps
<1>3. CASE Escalate
  <2>1. /\ request # NoRequest /\ status = "none" /\ status' = "ESCALATION_REQUIRED"
        /\ reply' = Reply(request.via, "ESCALATION_REQUIRED")
        /\ UNCHANGED <<now, registry, request, answered, judged>>
    BY <1>3 DEF Escalate, Waiting
  <2>2. reply'.content = FALSE
    BY <2>1, ContentOnlyAccepted
  <2>3. JudgementTypeOK'
    BY <2>1 DEF JudgementInv, JudgementTypeOK
  <2>4. Asked'
    BY <2>1, Zenon DEF JudgementInv, Asked
  <2>5. ReportKept'
    BY <2>1 DEF JudgementInv, ReportKept, Evaluated, SourceState
  <2>6. ReturnedAsJudged'
    BY <2>1, <2>2 DEF ReturnedAsJudged
  <2>. QED  BY <2>3, <2>4, <2>5, <2>6 DEF JudgementInv
<1>4. CASE Tick
  <2>1. /\ now' = now + 1 /\ now < Horizon
        /\ UNCHANGED <<registry, request, answered, judged, status, reply>>
    BY <1>4 DEF Tick
  <2>2. JudgementTypeOK'
    BY <2>1, JudgementAssumption DEF JudgementInv, JudgementTypeOK
  <2>3. Asked'
    BY <2>1 DEF JudgementInv, Asked
  <2>4. ReportKept'
    BY <2>1 DEF JudgementInv, ReportKept, Evaluated, SourceState
  <2>5. ReturnedAsJudged'
    BY <2>1 DEF JudgementInv, ReturnedAsJudged
  <2>. QED  BY <2>2, <2>3, <2>4, <2>5 DEF JudgementInv
<1>5. CASE UNCHANGED vars
  <2>1. JudgementTypeOK'
    BY <1>5 DEF vars, JudgementInv, JudgementTypeOK
  <2>2. Asked' /\ ReturnedAsJudged'
    BY <1>5 DEF vars, JudgementInv, Asked, ReturnedAsJudged
  <2>3. ReportKept'
    BY <1>5 DEF vars, JudgementInv, ReportKept, Evaluated, SourceState
  <2>. QED  BY <2>1, <2>2, <2>3 DEF JudgementInv
<1>. QED  BY <1>1, <1>2, <1>3, <1>4, <1>5 DEF Next

-----------------------------------------------------------------------------
(* What a report says of an answer *)

\* What BoundedCode's interpreter is taken to do.
FunctionsAreRun ==
    \A p \in DOMAIN Programs :
        FunctionFailure(Programs[p], Cases) = "none" => CasesHold(Programs[p])

\* Each reason names what it is a reason against.
LEMMA NoReasons ==
  ASSUME NEW r, NEW a, NEW matched, Reasons(r, a, matched) = {}
  PROVE  /\ a.form # "blank" /\ a.finish = "stop" /\ ~a.contradicts /\ matched # "FAIL"
         /\ r.schema # "none" => SchemaMet(r, a)
         /\ \A c \in a.citations : c.source \in DOMAIN r.evidence /\ c.exact
         /\ Grounding(r) => r.kind \in GroundedKinds \/ a.citations # {}
BY DEF Reasons

LEMMA EvaluatedFields ==
  ASSUME NEW r, NEW a, NEW at
  PROVE  LET matched == Matched(r, a)
             reasons == Reasons(r, a, matched)
             source  == SourceState(r, at)
             shape   == r.kind = "none" /\ r.schema # "none" /\ SchemaMet(r, a)
             voided  == reasons # {} \/ Uncovered(r) \/ source = "BLOCKED"
             report  == Evaluated(r, a, at)
         IN /\ report.reasons = reasons /\ report.source = source
            /\ report.verification =
                  IF voided THEN "UNVERIFIED"
                  ELSE IF shape THEN "STRUCTURE_VALIDATED"
                  ELSE IF matched = "PASS" THEN Verifications[r.kind] ELSE "UNVERIFIED"
            /\ report.score =
                  IF reasons # {} THEN 0 ELSE IF voided THEN NoScore
                  ELSE IF shape THEN StructureScore
                  ELSE IF matched = "PASS" THEN 100 ELSE NoScore
<1>. DEFINE matched == Matched(r, a)
            reasons == Reasons(r, a, matched)
            source  == SourceState(r, at)
            shape   == r.kind = "none" /\ r.schema # "none" /\ SchemaMet(r, a)
            voided  == reasons # {} \/ Uncovered(r) \/ source = "BLOCKED"
            verification == IF voided THEN "UNVERIFIED"
                            ELSE IF shape THEN "STRUCTURE_VALIDATED"
                            ELSE IF matched = "PASS" THEN Verifications[r.kind] ELSE "UNVERIFIED"
            score == IF reasons # {} THEN 0 ELSE IF voided THEN NoScore
                     ELSE IF shape THEN StructureScore
                     ELSE IF matched = "PASS" THEN 100 ELSE NoScore
<1>1. Evaluated(r, a, at) =
        [reasons |-> reasons, source |-> source, verification |-> verification, score |-> score]
  BY DEF Evaluated
<1>. HIDE DEF verification, score, reasons, source
<1>2. /\ Evaluated(r, a, at).reasons = reasons /\ Evaluated(r, a, at).source = source
      /\ Evaluated(r, a, at).verification = verification /\ Evaluated(r, a, at).score = score
  BY <1>1
<1>. QED  BY <1>2 DEF verification, score, reasons, source

\* An answer no reason is held against is sound.
LEMMA NoReasonsIsSound ==
  ASSUME NEW r \in Requests, NEW a, NEW matched, Reasons(r, a, matched) = {}
  PROVE  Sound(r, a)
<1>1. /\ a.form # "blank" /\ a.finish = "stop" /\ ~a.contradicts
      /\ \A c \in a.citations : c.source \in DOMAIN r.evidence /\ c.exact
      /\ r.schema # "none" => SchemaMet(r, a)
  BY NoReasons
<1>2. ASSUME r.schema # "none"
      PROVE  /\ a.conforms /\ r.kind # "python_function"
             /\ a.form = "wrapped" => r.kind \notin {"arithmetic", "grounded_claims"}
  <2>1. Reads(r, a) /\ a.conforms /\ (Wrapper(r, a) = "PROSE" => ExpectsJson(r))
    BY <1>1, <1>2, Zenon DEF SchemaMet
  <2>2. ASSUME r.kind = "python_function" PROVE FALSE
    <3>1. Wrapper(r, a) = "PROSE"
      BY <2>1, <2>2 DEF Reads, Wrapper
    <3>. QED  BY <2>1, <2>2, <3>1 DEF ExpectsJson, JsonKinds
  <2>3. ASSUME a.form = "wrapped", r.kind \in {"arithmetic", "grounded_claims"} PROVE FALSE
    <3>1. Wrapper(r, a) = IF r.kind = "arithmetic" THEN "NONE" ELSE "PROSE"
      BY <2>3 DEF Wrapper
    <3>. QED  BY <2>1, <2>3, <3>1 DEF Reads, ExpectsJson, JsonKinds
  <2>. QED  BY <2>1, <2>2, <2>3, Zenon
<1>. QED  BY <1>1, <1>2, Zenon DEF Sound

\* A check that passes leaves the answer right, and one that does not fail leaves
\* nothing against it.
LEMMA MatchedMeans ==
  ASSUME FunctionsAreRun, NEW r \in Requests, NEW a \in Answers(r)
  PROVE  LET matched == Matched(r, a)
             meaning == ClaimsMeaning(a.answers, Claims, r.evidence)
         IN /\ r.kind # "none" /\ matched = "PASS" => Right(r, a)
            /\ r.kind \notin {"none", "grounded_claims"} => matched \in {"PASS", "FAIL"}
            /\ r.kind = "grounded_claims" /\ matched # "FAIL" => meaning # "FAIL"
            /\ r.kind \in JsonKinds /\ matched # "FAIL" => Reads(r, a)
            /\ r.kind = "none" => matched = "none"
<1>. DEFINE matched == Matched(r, a)
            meaning == ClaimsMeaning(a.answers, Claims, r.evidence)
<1>1. r.kind \in {"none", "arithmetic", "reference_json", "grounded_json", "grounded_claims",
                  "python_function"}
  BY JudgementAssumption DEF Kinds, JsonKinds, GroundedKinds
<1>2. CASE r.kind = "none"
  <2>1. matched = "none"
    BY <1>2 DEF Matched, JsonKinds
  <2>. QED  BY <1>2, <2>1 DEF JsonKinds
<1>3. CASE r.kind = "arithmetic"
  <2>1. matched = IF a.form = "bare" /\ a.right THEN "PASS" ELSE "FAIL"
    BY <1>3 DEF Matched, JsonKinds
  <2>2. Right(r, a) <=> a.form = "bare" /\ a.right
    BY <1>3 DEF Right, JsonKinds
  <2>. QED  BY <1>3, <2>1, <2>2 DEF JsonKinds
<1>4. CASE r.kind \in JsonKinds
  <2>1. matched = IF Reads(r, a) /\ a.right THEN "PASS" ELSE "FAIL"
    BY <1>4 DEF Matched, JsonKinds
  <2>2. Right(r, a) <=> a.form \in {"bare", "fenced", "wrapped"} /\ a.right
    BY <1>4 DEF Right, JsonKinds
  <2>3. Reads(r, a) => a.form \in {"bare", "fenced", "wrapped"}
    BY <1>4 DEF Reads, Wrapper, JsonKinds
  <2>. QED  BY <1>4, <2>1, <2>2, <2>3 DEF JsonKinds
<1>5. CASE r.kind = "grounded_claims"
  <2>1. validate_claims(a.answers, Claims, r.evidence) = meaning
    <3>. DEFINE evidence == r.evidence
                answers  == a.answers
    <3>1. Readable(evidence) /\ WellFormed(answers) /\ DOMAIN Claims # {}
      BY <1>5, DossierAssumption DEF Readable, WellFormed
    <3>. HIDE DEF evidence, answers
    <3>2. validate_claims(answers, Claims, evidence) = ClaimsMeaning(answers, Claims, evidence)
      BY <3>1, VerdictMeans
    <3>. QED  BY <3>2 DEF evidence, answers
  <2>2. matched = IF a.form = "bare" THEN validate_claims(a.answers, Claims, r.evidence) ELSE "FAIL"
    BY <1>5 DEF Matched, JsonKinds
  <2>3. Right(r, a) <=> a.form = "bare" /\ meaning = "PASS"
    BY <1>5 DEF Right, JsonKinds
  <2>. HIDE DEF meaning, matched
  <2>. QED  BY <1>5, <2>1, <2>2, <2>3 DEF JsonKinds, meaning, matched
<1>6. CASE r.kind = "python_function"
  <2>1. matched = IF a.form = "bare" /\ FunctionFailure(Programs[a.program], Cases) = "none"
                    THEN "PASS" ELSE "FAIL"
    BY <1>6 DEF Matched, JsonKinds
  <2>2. Right(r, a) <=> a.form = "bare" /\ CasesHold(Programs[a.program])
    BY <1>6 DEF Right, JsonKinds
  <2>3. a.program \in DOMAIN Programs
    BY <1>6, DossierAssumption
  <2>. QED  BY <1>6, <2>1, <2>2, <2>3 DEF JsonKinds, FunctionsAreRun
<1>. HIDE DEF matched, meaning
<1>. QED  BY <1>1, <1>2, <1>3, <1>4, <1>5, <1>6 DEF JsonKinds, matched, meaning

\* A task some validator of FAIR's covers asks for nothing it cannot judge.
LEMMA CoveredIsJudgeable ==
  ASSUME NEW r, ~Uncovered(r)
  PROVE  Judgeable(r)
<1>1. /\ ~r.freshness /\ (Grounding(r) => r.kind \in GroundedKinds)
      /\ \A c \in Required(r) : c = "structured_output" \/ (c = "coding" /\ r.kind = "python_function")
  BY DEF Uncovered
<1>2. r.task_type # "vision"
  BY <1>1 DEF Required
<1>3. r.task_type = "coding" \/ Inferred(r, "code") => r.kind = "python_function"
  BY <1>1 DEF Required
<1>4. r.capabilities \subseteq {"structured_output"}
                           \cup (IF r.kind = "python_function" THEN {"coding"} ELSE {})
  BY <1>1 DEF Required
<1>. QED  BY <1>1, <1>2, <1>3, <1>4, Zenon DEF Judgeable

\* A claim or a field rests on sources of the dossier.
LEMMA TargetsAreSupplied ==
  ASSUME NEW r, ~Refused(r), r.policy # NoPolicy, NEW t \in DOMAIN Targets(r)
  PROVE  Targets(r)[t] \subseteq DOMAIN r.evidence
<1>1. r.kind \in GroundedKinds
  BY DEF Refused
<1>2. CASE r.kind = "grounded_claims"
  <2>1. t \in DOMAIN Claims
        /\ Targets(r)[t] = {p[1] : p \in Places(Records(r.evidence, Claims[t]))}
    BY <1>2 DEF Targets
  <2>2. ASSUME NEW p \in Places(Records(r.evidence, Claims[t]))
        PROVE  p[1] \in DOMAIN r.evidence
    <3>1. PICK q \in Records(r.evidence, Claims[t]) : p = q.at
      BY <2>2 DEF Places
    <3>2. PICK s \in DOMAIN r.evidence :
            \E i \in {j \in DOMAIN Facts[r.evidence[s].text] :
                        Facts[r.evidence[s].text][j].key = Claims[t]} :
              q = [value |-> Facts[r.evidence[s].text][i].value, at |-> <<s, i>>]
      BY <3>1 DEF Records
    <3>. QED  BY <3>1, <3>2
  <2>. QED  BY <2>1, <2>2
<1>3. CASE r.kind = "grounded_json"
  <2>1. t \in DOMAIN Fields /\ Targets(r)[t] = {Fields[t]}
    BY <1>3 DEF Targets
  <2>. QED  BY <1>3, <2>1 DEF Refused
<1>. QED  BY <1>1, <1>2, <1>3 DEF GroundedKinds

\* What one source reviewed stands for.
LEMMA ReviewedMeans ==
  ASSUME NEW item, item.review \in DOMAIN Reviews \cup {NoReview}, NEW client,
         NEW policy, policy.max_age \in Nat, NEW at \in Int,
         ReviewStatus(item, client, policy, at) = "REVIEWED"
  PROVE  /\ item.review \in DOMAIN Reviews
         /\ LET v == Reviews[item.review] IN
            /\ v.digest = item.text /\ client \in v.clients /\ v.decision = "APPROVED"
            /\ v.class \in policy.classes /\ v.reviewed <= at /\ at < v.expires
            /\ at <= v.observed + policy.max_age
<1>. DEFINE v == Reviews[item.review]
<1>1. item.review # NoReview /\ client \in v.clients
  BY DEF ReviewStatus
<1>2. {v.observed, v.reviewed, v.expires} \subseteq Int
  BY <1>1, EvidenceAssumption
<1>3. /\ item.text = v.digest /\ v.decision = "APPROVED" /\ ~(at < v.reviewed) /\ ~(at >= v.expires)
      /\ ~(at - v.observed > policy.max_age) /\ v.class \in policy.classes
  BY <1>1 DEF ReviewStatus
<1>4. v.observed \in Int /\ v.reviewed \in Int /\ v.expires \in Int
  BY <1>2
<1>. HIDE DEF v
<1>5. v.reviewed <= at /\ at < v.expires /\ at <= v.observed + policy.max_age
  BY <1>3, <1>4
<1>. QED  BY <1>1, <1>3, <1>5 DEF v

\* Evidence that does not block an answer is what the policy asked for.
LEMMA NotBlockedIsSourced ==
  ASSUME NEW r \in Requests, ~Refused(r), NEW at \in Int,
         SourceState(r, at) # "BLOCKED"
  PROVE  Sourced(r, at)
<1>. SUFFICES ASSUME r.policy # NoPolicy
              PROVE  /\ registry
                     /\ \A s \in DOMAIN r.evidence :
                           \E id \in DOMAIN Reviews :
                             LET v == Reviews[id] IN
                             /\ r.evidence[s].review = id /\ v.digest = r.evidence[s].text
                             /\ r.client \in v.clients /\ v.decision = "APPROVED"
                             /\ v.class \in r.policy.classes
                             /\ v.reviewed <= at /\ at < v.expires
                             /\ at <= v.observed + r.policy.max_age
                     /\ \A t \in DOMAIN Targets(r) :
                           Corroboration({Reviews[r.evidence[s].review] : s \in Targets(r)[t]})
                             >= r.policy.min_origins
  BY Zenon DEF Sourced
<1>1. registry /\ Passes(r.evidence, Targets(r), r.client, r.policy, at)
  BY DEF SourceState
<1>2. ASSUME NEW s \in DOMAIN r.evidence
      PROVE  /\ r.evidence[s].review \in DOMAIN Reviews
             /\ LET v == Reviews[r.evidence[s].review] IN
                /\ v.digest = r.evidence[s].text /\ r.client \in v.clients /\ v.decision = "APPROVED"
                /\ v.class \in r.policy.classes /\ v.reviewed <= at /\ at < v.expires
                /\ at <= v.observed + r.policy.max_age
  <2>. DEFINE item == r.evidence[s]
              policy == r.policy
              client == r.client
  <2>1. ReviewStatus(item, client, policy, at) = "REVIEWED"
    BY <1>1 DEF Passes
  <2>2. item.review \in DOMAIN Reviews \cup {NoReview} /\ policy.max_age \in Nat
    BY DossierAssumption
  <2>. HIDE DEF item, policy, client
  <2>3. /\ item.review \in DOMAIN Reviews
        /\ LET v == Reviews[item.review] IN
           /\ v.digest = item.text /\ client \in v.clients /\ v.decision = "APPROVED"
           /\ v.class \in policy.classes /\ v.reviewed <= at /\ at < v.expires
           /\ at <= v.observed + policy.max_age
    BY <2>1, <2>2, ReviewedMeans
  <2>. QED  BY <2>3 DEF item, policy, client
<1>3. ASSUME NEW t \in DOMAIN Targets(r)
      PROVE  Corroboration({Reviews[r.evidence[s].review] : s \in Targets(r)[t]})
               >= r.policy.min_origins
  <2>. DEFINE T == Targets(r)[t]
              f == [s \in T |-> Reviews[r.evidence[s].review]]
              R == {f[s] : s \in T}
              reviewed == {s \in DOMAIN r.evidence :
                             ReviewStatus(r.evidence[s], r.client, r.policy, at) = "REVIEWED"}
  <2>1. T \subseteq DOMAIN r.evidence
    BY TargetsAreSupplied
  <2>2. reviewed = DOMAIN r.evidence
        /\ Corroboration({Reviews[r.evidence[s].review] : s \in T \cap reviewed}) >= r.policy.min_origins
    BY <1>1 DEF Passes
  <2>3. R = {Reviews[r.evidence[s].review] : s \in T}
    OBVIOUS
  <2>4. T \cap reviewed = T
    BY <2>1, <2>2
  <2>5. Corroboration(R) >= r.policy.min_origins
    <3>. HIDE DEF T, reviewed
    <3>. QED  BY <2>2, <2>3, <2>4
  <2>. HIDE DEF R, T, f
  <2>. QED  BY <2>3, <2>5 DEF T
<1>. QED  BY <1>1, <1>2, <1>3

\* A text that a report returns is the document it was read as.
LEMMA DeliveredBare ==
  ASSUME NEW r, NEW a, Reads(r, a), ExpectsJson(r)
  PROVE  Delivered(r, a) = "bare"
BY Zenon DEF Delivered

\* What a report accepts is right, sound, sourced and of a task FAIR can judge.
LEMMA AcceptedMeans ==
  ASSUME FunctionsAreRun,
         NEW r \in Requests, ~Refused(r), NEW a \in Answers(r), NEW at \in Int,
         Disposition(r, Evaluated(r, a, at)) = "ACCEPTED"
  PROVE  /\ Right(r, a) /\ Sound(r, a) /\ Sourced(r, at) /\ Judgeable(r)
         /\ ExpectsJson(r) => Delivered(r, a) = "bare"
<1>. DEFINE matched == Matched(r, a)
            reasons == Reasons(r, a, matched)
            source  == SourceState(r, at)
            shape   == r.kind = "none" /\ r.schema # "none" /\ SchemaMet(r, a)
            voided  == reasons # {} \/ Uncovered(r) \/ source = "BLOCKED"
            report  == Evaluated(r, a, at)
<1>1. /\ report.reasons = {} /\ report.score >= Thresholds[r.level]
      /\ report.verification # "UNVERIFIED"
  BY ReturnedWithoutReasons DEF acceptable
<1>2. /\ report.reasons = reasons
      /\ report.verification =
            IF voided THEN "UNVERIFIED" ELSE IF shape THEN "STRUCTURE_VALIDATED"
            ELSE IF matched = "PASS" THEN Verifications[r.kind] ELSE "UNVERIFIED"
      /\ report.score =
            IF reasons # {} THEN 0 ELSE IF voided THEN NoScore
            ELSE IF shape THEN StructureScore
            ELSE IF matched = "PASS" THEN 100 ELSE NoScore
  BY EvaluatedFields
<1>3. ~voided /\ (shape \/ matched = "PASS")
  <2>. HIDE DEF voided, shape, matched, report
  <2>. QED  BY <1>1, <1>2
<1>4. shape => report.score = StructureScore
  <2>. HIDE DEF voided, shape, matched, report
  <2>. QED  BY <1>1, <1>2, <1>3 DEF voided
<1>5. reasons = {} /\ ~Uncovered(r) /\ source # "BLOCKED"
  BY <1>3
<1>6. Sound(r, a)
  <2>. HIDE DEF matched
  <2>. QED  BY <1>5, NoReasonsIsSound
<1>7. Sourced(r, at) /\ Judgeable(r)
  BY <1>5, NotBlockedIsSourced, CoveredIsJudgeable
<1>8. /\ r.kind # "none" /\ matched = "PASS" => Right(r, a)
      /\ r.kind \in JsonKinds /\ matched # "FAIL" => Reads(r, a)
      /\ r.kind = "none" => matched = "none"
  BY MatchedMeans
<1>9. Right(r, a)
  <2>1. CASE r.kind = "none"
    <3>1. shape
      <4>. HIDE DEF shape, matched
      <4>. QED  BY <1>3, <1>8, <2>1
    <3>2. r.schema # "none" /\ StructureScore >= Thresholds[r.level]
      <4>1. r.schema # "none"
        BY <3>1
      <4>2. StructureScore >= Thresholds[r.level]
        <5>. HIDE DEF shape, report
        <5>. QED  BY <1>1, <1>4, <3>1
      <4>. QED  BY <4>1, <4>2
    <3>. QED  BY <2>1, <3>2 DEF Right, JsonKinds
  <2>2. CASE r.kind # "none"
    <3>1. matched = "PASS"
      BY <1>3, <2>2
    <3>. HIDE DEF matched
    <3>. QED  BY <1>8, <2>2, <3>1
  <2>. QED  BY <2>1, <2>2
<1>10. ASSUME ExpectsJson(r) PROVE Delivered(r, a) = "bare"
  <2>1. CASE r.kind = "none"
    <3>1. r.schema # "none"
      BY <1>10, <2>1 DEF ExpectsJson
    <3>2. r.schema # "none" => SchemaMet(r, a)
      <4>. HIDE DEF matched
      <4>. QED  BY <1>5, NoReasons
    <3>3. Reads(r, a)
      BY <3>1, <3>2, Zenon DEF SchemaMet
    <3>. QED  BY <1>10, <3>3, DeliveredBare
  <2>2. CASE r.kind # "none"
    <3>1. r.kind \in JsonKinds /\ matched = "PASS"
      BY <1>3, <1>10, <2>2 DEF ExpectsJson
    <3>2. Reads(r, a)
      <4>. HIDE DEF matched
      <4>. QED  BY <1>8, <3>1
    <3>. QED  BY <1>10, <3>2, DeliveredBare
  <2>. QED  BY <2>1, <2>2
<1>. QED  BY <1>6, <1>7, <1>9, <1>10

\* What is returned unverified, to the library alone, has nothing found against it.
LEMMA ReturnableMeans ==
  ASSUME FunctionsAreRun,
         NEW r \in Requests, ~Refused(r), NEW a \in Answers(r), NEW at \in Int,
         Returnable(r, Evaluated(r, a, at))
  PROVE  /\ r.accept_unverified /\ ~r.cross_check /\ r.level # "high_impact_support"
         /\ Sound(r, a) /\ Sourced(r, at)
         /\ Grounding(r) => r.kind \in GroundedKinds \/ a.citations # {}
         /\ r.kind \notin {"none", "grounded_claims"} => Right(r, a)
         /\ r.kind = "grounded_claims" =>
               ClaimsMeaning(a.answers, Claims, r.evidence) # "FAIL"
         /\ ExpectsJson(r) => Delivered(r, a) = "bare"
<1>. DEFINE matched == Matched(r, a)
            meaning == ClaimsMeaning(a.answers, Claims, r.evidence)
            report  == Evaluated(r, a, at)
<1>1. r.accept_unverified /\ report.reasons = {} /\ report.source # "BLOCKED"
  BY DEF Returnable
<1>2. r.accept_unverified /\ ~r.cross_check /\ r.level # "high_impact_support"
  BY <1>1 DEF Refused
<1>3. Reasons(r, a, matched) = {} /\ SourceState(r, at) # "BLOCKED"
  BY <1>1, EvaluatedFields
<1>. HIDE DEF report
<1>4. /\ matched # "FAIL" /\ (r.schema # "none" => SchemaMet(r, a))
      /\ Grounding(r) => r.kind \in GroundedKinds \/ a.citations # {}
      /\ Sound(r, a)
  <2>. HIDE DEF matched
  <2>. QED  BY <1>3, NoReasons, NoReasonsIsSound
<1>5. Sourced(r, at)
  BY <1>3, NotBlockedIsSourced
<1>6. /\ r.kind # "none" /\ matched = "PASS" => Right(r, a)
      /\ r.kind \notin {"none", "grounded_claims"} => matched \in {"PASS", "FAIL"}
      /\ r.kind = "grounded_claims" /\ matched # "FAIL" => meaning # "FAIL"
      /\ r.kind \in JsonKinds /\ matched # "FAIL" => Reads(r, a)
  BY MatchedMeans
<1>. HIDE DEF matched
<1>7. ASSUME ExpectsJson(r) PROVE Delivered(r, a) = "bare"
  <2>1. Reads(r, a)
    <3>1. CASE r.kind = "none"
      <4>1. SchemaMet(r, a)
        BY <1>4, <1>7, <3>1 DEF ExpectsJson
      <4>. QED  BY <4>1, Zenon DEF SchemaMet
    <3>2. CASE r.kind # "none"
      BY <1>4, <1>6, <1>7, <3>2 DEF ExpectsJson
    <3>. QED  BY <3>1, <3>2
  <2>. QED  BY <1>7, <2>1, DeliveredBare
<1>8. r.kind \notin {"none", "grounded_claims"} => Right(r, a)
  BY <1>4, <1>6
<1>9. r.kind = "grounded_claims" => meaning # "FAIL"
  BY <1>4, <1>6
<1>. QED  BY <1>2, <1>4, <1>5, <1>7, <1>8, <1>9

-----------------------------------------------------------------------------
(* The theorems *)

LEMMA JudgementInvariant == Spec => []JudgementInv
BY StartsInv, KeepsInv, PTL DEF Spec

\* What a solve keeps is of the types it says: a result is given only to a request,
\* and nothing is returned but an answer judged without a reason against it.
THEOREM SolvesAreTyped == Spec => []JudgementTypeOK
<1>1. JudgementInv => JudgementTypeOK
  BY DEF JudgementInv
<1>. QED  BY <1>1, JudgementInvariant, PTL

\* validate_claims: the checker of structured claims gives the verdict its words
\* promise, of every answer to every request.
THEOREM ClaimsAreWeighed == Spec => []ClaimsWeighed
<1>1. ASSUME JudgementInv PROVE ClaimsWeighed
  <2>. SUFFICES ASSUME request.kind = "grounded_claims", answered > 0
                PROVE  validate_claims(judged.answer.answers, Claims, request.evidence)
                         = ClaimsMeaning(judged.answer.answers, Claims, request.evidence)
    BY DEF ClaimsWeighed
  <2>. DEFINE evidence == request.evidence
              answers  == judged.answer.answers
  <2>1. request \in Requests /\ judged.answer \in Answers(request)
    BY <1>1 DEF JudgementInv, Asked, ReportKept
  <2>2. Readable(evidence) /\ WellFormed(answers) /\ DOMAIN Claims # {}
    BY <2>1, DossierAssumption DEF Readable, WellFormed
  <2>. HIDE DEF evidence, answers
  <2>3. validate_claims(answers, Claims, evidence) = ClaimsMeaning(answers, Claims, evidence)
    BY <2>2, VerdictMeans
  <2>. QED  BY <2>3 DEF evidence, answers
<1>. QED  BY <1>1, JudgementInvariant, PTL

\* evaluate, acceptable, _returnable_unverified, _output and chat together: whatever
\* is asked and answered, what comes back as verified is right, sound, sourced when
\* it was judged and of a task FAIR can judge, and what comes back unverified was
\* asked for and has nothing found against it.
THEOREM AcceptedIsRight ==
  ASSUME FunctionsAreRun
  PROVE  Spec => []AcceptedPassedAll
<1>1. ASSUME JudgementInv PROVE AcceptedPassedAll
  <2>. DEFINE r  == request
              a  == judged.answer
              at == judged.at
  <2>1. answered > 0 =>
          /\ r \in Requests /\ ~Refused(r) /\ a \in Answers(r) /\ at \in Int
          /\ judged.report = Evaluated(r, a, at) /\ judged.output = Delivered(r, a)
    BY <1>1 DEF JudgementInv, JudgementTypeOK, Asked, ReportKept
  <2>2. CASE status = "ACCEPTED"
    <3>1. answered > 0 /\ Disposition(r, judged.report) = "ACCEPTED"
      BY <1>1, <2>2 DEF JudgementInv, ReturnedAsJudged
    <3>2. /\ Right(r, a) /\ Sound(r, a) /\ Sourced(r, at) /\ Judgeable(r)
          /\ ExpectsJson(r) => judged.output = "bare"
      <4>. HIDE DEF r, a, at
      <4>. QED  BY <2>1, <3>1, AcceptedMeans
    <3>. QED  BY <2>2, <3>2, Zenon DEF AcceptedPassedAll
  <2>3. CASE status = "ACCEPTED_UNVERIFIED"
    <3>1. answered > 0 /\ Returnable(r, judged.report) /\ ~reply.content
      BY <1>1, <2>3 DEF JudgementInv, ReturnedAsJudged
    <3>2. /\ r.accept_unverified /\ ~r.cross_check /\ r.level # "high_impact_support"
          /\ Sound(r, a) /\ Sourced(r, at)
          /\ Grounding(r) => r.kind \in GroundedKinds \/ a.citations # {}
          /\ r.kind \notin {"none", "grounded_claims"} => Right(r, a)
          /\ r.kind = "grounded_claims" =>
                ClaimsMeaning(a.answers, Claims, r.evidence) # "FAIL"
          /\ ExpectsJson(r) => judged.output = "bare"
      <4>. HIDE DEF r, a, at
      <4>. QED  BY <2>1, <3>1, ReturnableMeans
    <3>. QED  BY <2>3, <3>1, <3>2, Zenon DEF AcceptedPassedAll
  <2>4. CASE status \notin {"ACCEPTED", "ACCEPTED_UNVERIFIED"}
    <3>1. ~reply.content
      BY <1>1, <2>4 DEF JudgementInv, ReturnedAsJudged
    <3>. QED  BY <2>4, <3>1 DEF AcceptedPassedAll
  <2>. QED  BY <2>2, <2>3, <2>4
<1>. QED  BY <1>1, JudgementInvariant, PTL

-----------------------------------------------------------------------------
(* The count of origins: what a count is in the middle of                  *)

\* An assignment with every text of the calls K given to the call that asked for it.
Flip(A, K) ==
    [x \in DOMAIN A \cup {K[i].text : i \in DOMAIN K} |->
        IF \E i \in DOMAIN K : K[i].text = x
          THEN K[CHOOSE i \in DOMAIN K : K[i].text = x].origin ELSE A[x]]

\* What is assigned once the calls that are returning True have all returned.
Settled == IF placing THEN Flip(assigned, stack) ELSE assigned

Owns(o, T, S) == \E x \in T : S[x] = o
\* No two calls ask for one text.
Differing(K) == \A i, j \in DOMAIN K : K[i].text = K[j].text => i = j
OneEach(S) == \A x, y \in DOMAIN S : S[x] = S[y] => x = y

\* Texts that can no longer make room: whoever owns one of them, or could not be
\* placed, has reviewed no other.  T are the origins still to be counted.
Stuck(D, S, R, T) ==
    \A o \in OriginsIn(R) :
        (o \notin T /\ ~Owns(o, DOMAIN S, S)) \/ Owns(o, D, S) => Graph(R, o) \subseteq D

Frames == [origin: OriginsIn(reviews), left: SUBSET Nat, text: Int]

CountTypes ==
    /\ reviews \in ReviewSets /\ todo \subseteq OriginsIn(reviews)
    /\ assigned \in [DOMAIN assigned -> OriginsIn(reviews)] /\ IsFiniteSet(DOMAIN assigned)
    /\ \A x \in DOMAIN assigned : x \in Graph(reviews, assigned[x])
    /\ stack \in Seq(Frames) /\ placing \in BOOLEAN /\ count \in Nat
    /\ stack = <<>> => ~placing

\* The calls are a chain: each places the owner of the text the one before asked for,
\* and no text is asked for twice.
Asked_for == IF placing THEN Len(stack) ELSE Len(stack) - 1
Chained ==
    /\ stack # <<>> => stack[1].origin \in todo
    /\ \A i \in 1..Len(stack) : stack[i].left \subseteq Graph(reviews, stack[i].origin)
    /\ \A i \in 1..Asked_for : stack[i].text \in Graph(reviews, stack[i].origin) /\ stack[i].text \in seen
    /\ \A i \in 1..(Len(stack) - 1) :
          stack[i].text \in DOMAIN assigned /\ stack[i + 1].origin = assigned[stack[i].text]
    /\ \A i, j \in 1..Asked_for : stack[i].text = stack[j].text => i = j

\* Nobody has two texts, who is still to be placed has none, and some texts that can
\* no longer make room are all taken.
Fitting ==
    /\ OneEach(Settled)
    /\ \A x \in DOMAIN Settled : Settled[x] \in todo => placing /\ Settled[x] = stack[1].origin
    /\ Cardinality(DOMAIN Settled) = count + (IF placing THEN 1 ELSE 0)
    /\ \E D \in SUBSET DOMAIN Settled : Stuck(D, Settled, reviews, todo)

\* The search: what is seen is taken, its owner is being asked or has reviewed nothing
\* that is not seen, and no call gets out of stuck texts.
Searched ==
    stack # <<>> /\ ~placing =>
      /\ seen \subseteq DOMAIN assigned
      /\ \A i \in 1..Len(stack) : Graph(reviews, stack[i].origin) \subseteq stack[i].left \cup seen
      /\ \A x \in seen : \/ Graph(reviews, assigned[x]) \subseteq seen
                         \/ \E i \in 2..Len(stack) : stack[i].origin = assigned[x]
      /\ \A D \in SUBSET DOMAIN assigned : Stuck(D, assigned, reviews, todo) =>
            \A i, j \in 1..Len(stack) :
                i < j /\ stack[i].text \in D => Owns(stack[j].origin, D, assigned)

CountInv == CountTypes /\ Chained /\ Fitting /\ Searched

-----------------------------------------------------------------------------
(* Calls that return True *)

LEMMA FlipMeans ==
  ASSUME NEW A, NEW K, Differing(K)
  PROVE  /\ \A x : x \in DOMAIN Flip(A, K) <=> x \in DOMAIN A \/ \E i \in DOMAIN K : K[i].text = x
         /\ \A i \in DOMAIN K : Flip(A, K)[K[i].text] = K[i].origin
         /\ \A x \in DOMAIN A : (\A i \in DOMAIN K : K[i].text # x) => Flip(A, K)[x] = A[x]
<1>1. \A x : x \in DOMAIN Flip(A, K) <=> x \in DOMAIN A \/ \E i \in DOMAIN K : K[i].text = x
  BY DEF Flip
<1>2. ASSUME NEW i \in DOMAIN K
      PROVE  Flip(A, K)[K[i].text] = K[i].origin
  <2>. DEFINE k == CHOOSE j \in DOMAIN K : K[j].text = K[i].text
  <2>1. k \in DOMAIN K /\ K[k].text = K[i].text
    OBVIOUS
  <2>2. Flip(A, K)[K[i].text] = K[k].origin
    BY DEF Flip
  <2>. HIDE DEF k
  <2>. QED  BY <2>1, <2>2 DEF Differing
<1>3. ASSUME NEW x \in DOMAIN A, \A i \in DOMAIN K : K[i].text # x
      PROVE  Flip(A, K)[x] = A[x]
  BY <1>3 DEF Flip
<1>. QED  BY <1>1, <1>2, <1>3

\* L and B are the n calls K and the assignment A after the last call has assigned its
\* text and returned.
Returned(A, K, n, B, L) ==
    /\ n \in Nat \ {0} /\ DOMAIN K = 1..n /\ Differing(K)
    /\ DOMAIN L = 1..(n - 1) /\ \A i \in 1..(n - 1) : L[i] = K[i]
    /\ B = [x \in DOMAIN A \cup {K[n].text} |-> IF x = K[n].text THEN K[n].origin ELSE A[x]]

\* What the rest will have assigned in the end is the same.
LEMMA FlipPopped ==
  ASSUME NEW A, NEW K, NEW n, NEW B, NEW L, Returned(A, K, n, B, L)
  PROVE  Flip(B, L) = Flip(A, K)
<1>0. /\ n \in Nat \ {0} /\ DOMAIN K = 1..n /\ Differing(K)
      /\ DOMAIN L = 1..(n - 1) /\ \A i \in 1..(n - 1) : L[i] = K[i]
      /\ B = [x \in DOMAIN A \cup {K[n].text} |-> IF x = K[n].text THEN K[n].origin ELSE A[x]]
  BY DEF Returned
<1>. USE <1>0
<1>. DEFINE F == Flip(A, K)
            G == Flip(B, L)
<1>1. /\ \A x : x \in DOMAIN F <=> x \in DOMAIN A \/ \E i \in DOMAIN K : K[i].text = x
      /\ \A i \in DOMAIN K : F[K[i].text] = K[i].origin
      /\ \A x \in DOMAIN A : (\A i \in DOMAIN K : K[i].text # x) => F[x] = A[x]
  BY FlipMeans
<1>2. Differing(L)
  BY SMT DEF Differing
<1>3. /\ \A x : x \in DOMAIN G <=> x \in DOMAIN B \/ \E i \in DOMAIN L : L[i].text = x
      /\ \A i \in DOMAIN L : G[L[i].text] = L[i].origin
      /\ \A x \in DOMAIN B : (\A i \in DOMAIN L : L[i].text # x) => G[x] = B[x]
  BY <1>2, FlipMeans
<1>4. F = [x \in DOMAIN F |-> F[x]] /\ G = [x \in DOMAIN G |-> G[x]]
  BY DEF Flip
<1>. HIDE DEF F, G
<1>5. DOMAIN F = DOMAIN G
  <2>1. ASSUME NEW x \in DOMAIN F PROVE x \in DOMAIN G
    BY <1>1, <1>3, SMT
  <2>2. ASSUME NEW x \in DOMAIN G PROVE x \in DOMAIN F
    BY <1>1, <1>3, SMT
  <2>. QED  BY <2>1, <2>2
<1>6. ASSUME NEW x \in DOMAIN F PROVE F[x] = G[x]
  <2>1. CASE \E i \in 1..(n - 1) : K[i].text = x
    BY <1>1, <1>3, <2>1, SMT
  <2>2. CASE K[n].text = x /\ \A i \in 1..(n - 1) : K[i].text # x
    <3>1. F[x] = K[n].origin
      BY <1>1, <2>2, SMT
    <3>2. x \in DOMAIN B /\ B[x] = K[n].origin
      BY <2>2
    <3>3. \A i \in 1..(n - 1) : L[i].text # x
      BY <2>2
    <3>. QED  BY <1>3, <3>1, <3>2, <3>3
  <2>3. CASE \A i \in 1..n : K[i].text # x
    <3>1. x \in DOMAIN A /\ F[x] = A[x]
      BY <1>1, <2>3
    <3>2. x \in DOMAIN B /\ B[x] = A[x]
      BY <3>1, <2>3, SMT
    <3>3. \A i \in 1..(n - 1) : L[i].text # x
      BY <2>3, SMT
    <3>. QED  BY <1>3, <3>1, <3>2, <3>3
  <2>. QED  BY <2>1, <2>2, <2>3, SMT
<1>7. F = G
  BY <1>4, <1>5, <1>6, Zenon
<1>. QED  BY <1>7 DEF F, G

\* A chain of n calls K, from somebody who has no text to a text nobody has.
AugmentingPath(A, K, n) ==
    /\ IsFiniteSet(DOMAIN A) /\ OneEach(A)
    /\ n \in Nat \ {0} /\ DOMAIN K = 1..n /\ Differing(K)
    /\ \A i \in 1..(n - 1) : K[i].text \in DOMAIN A /\ K[i + 1].origin = A[K[i].text]
    /\ K[n].text \notin DOMAIN A
    /\ ~Owns(K[1].origin, DOMAIN A, A)

\* Along it one more text is taken, one more origin placed, and all the others keep
\* one each.
OneMore(A, K, n, F) ==
    /\ DOMAIN F = DOMAIN A \cup {K[n].text}
    /\ Cardinality(DOMAIN F) = Cardinality(DOMAIN A) + 1
    /\ OneEach(F)
    /\ \A o : Owns(o, DOMAIN F, F) <=> o = K[1].origin \/ Owns(o, DOMAIN A, A)
    /\ \A x \in DOMAIN A : (\A i \in 1..n : K[i].text # x) => F[x] = A[x]

LEMMA Augmented ==
  ASSUME NEW A, NEW K, NEW n, AugmentingPath(A, K, n)
  PROVE  OneMore(A, K, n, Flip(A, K))
<1>0. /\ IsFiniteSet(DOMAIN A) /\ OneEach(A)
      /\ n \in Nat \ {0} /\ DOMAIN K = 1..n /\ Differing(K)
      /\ \A i \in 1..(n - 1) : K[i].text \in DOMAIN A /\ K[i + 1].origin = A[K[i].text]
      /\ K[n].text \notin DOMAIN A
      /\ ~Owns(K[1].origin, DOMAIN A, A)
  BY DEF AugmentingPath
<1>. USE <1>0
<1>. DEFINE F == Flip(A, K)
<1>1. /\ \A x : x \in DOMAIN F <=> x \in DOMAIN A \/ \E i \in 1..n : K[i].text = x
      /\ \A i \in 1..n : F[K[i].text] = K[i].origin
      /\ \A x \in DOMAIN A : (\A i \in 1..n : K[i].text # x) => F[x] = A[x]
  BY FlipMeans
<1>. HIDE DEF F
<1>2. DOMAIN F = DOMAIN A \cup {K[n].text}
  <2>1. ASSUME NEW i \in 1..n PROVE K[i].text \in DOMAIN A \cup {K[n].text}
    BY SMT
  <2>2. n \in 1..n
    OBVIOUS
  <2>3. \A x : x \in DOMAIN F <=> x \in DOMAIN A \cup {K[n].text}
    BY <1>1, <2>1, <2>2
  <2>. QED  BY <2>3
<1>3. Cardinality(DOMAIN F) = Cardinality(DOMAIN A) + 1
  BY <1>2, FS_AddElement
\* The owner of a text before has another after, or the same.
<1>4. \A i \in 2..n : K[i - 1].text \in DOMAIN A /\ K[i].origin = A[K[i - 1].text]
  <2>1. ASSUME NEW i \in 2..n
        PROVE  K[i - 1].text \in DOMAIN A /\ K[i].origin = A[K[i - 1].text]
    <3>1. i - 1 \in 1..(n - 1) /\ (i - 1) + 1 = i
      BY SMT
    <3>. QED  BY <3>1
  <2>. QED  BY <2>1
<1>5. \A x \in DOMAIN F : \/ \E i \in 1..n : K[i].text = x /\ F[x] = K[i].origin
                          \/ x \in DOMAIN A /\ F[x] = A[x] /\ \A i \in 1..n : K[i].text # x
  BY <1>1, <1>2
<1>6. OneEach(F)
  <2>1. ASSUME NEW i \in 1..n, NEW j \in 1..n, K[i].origin = K[j].origin
        PROVE  i = j
    <3>1. CASE i = 1 /\ j # 1
      BY <1>4, <2>1, <3>1, SMT DEF Owns
    <3>2. CASE j = 1 /\ i # 1
      BY <1>4, <2>1, <3>2, SMT DEF Owns
    <3>3. CASE i # 1 /\ j # 1
      <4>1. K[i - 1].text = K[j - 1].text
        BY <1>4, <2>1, <3>3, SMT DEF OneEach
      <4>2. i - 1 \in 1..n /\ j - 1 \in 1..n
        BY <3>3, SMT
      <4>3. i - 1 = j - 1
        BY <4>1, <4>2 DEF Differing
      <4>. QED  BY <4>3
    <3>. QED  BY <3>1, <3>2, <3>3
  <2>2. ASSUME NEW i \in 1..n, NEW y \in DOMAIN A, K[i].origin = A[y], \A j \in 1..n : K[j].text # y
        PROVE  FALSE
    <3>1. i # 1
      BY <2>2 DEF Owns
    <3>2. K[i - 1].text = y
      BY <1>4, <2>2, <3>1, SMT DEF OneEach
    <3>. QED  BY <2>2, <3>1, <3>2, SMT
  <2>3. ASSUME NEW x \in DOMAIN F, NEW y \in DOMAIN F, F[x] = F[y]
        PROVE  x = y
    BY <1>5, <2>1, <2>2, <2>3 DEF OneEach
  <2>. QED  BY <2>3 DEF OneEach
<1>7. ASSUME NEW o
      PROVE  Owns(o, DOMAIN F, F) <=> o = K[1].origin \/ Owns(o, DOMAIN A, A)
  <2>1. ASSUME Owns(o, DOMAIN F, F) PROVE o = K[1].origin \/ Owns(o, DOMAIN A, A)
    <3>1. PICK x \in DOMAIN F : F[x] = o
      BY <2>1 DEF Owns
    <3>2. CASE \E i \in 1..n : K[i].text = x /\ F[x] = K[i].origin
      BY <1>4, <3>1, <3>2, SMT DEF Owns
    <3>. QED  BY <1>5, <3>1, <3>2 DEF Owns
  <2>2. ASSUME o = K[1].origin PROVE Owns(o, DOMAIN F, F)
    BY <1>1, <2>2, SMT DEF Owns
  <2>3. ASSUME Owns(o, DOMAIN A, A) PROVE Owns(o, DOMAIN F, F)
    <3>1. PICK x \in DOMAIN A : A[x] = o
      BY <2>3 DEF Owns
    <3>2. CASE \A i \in 1..n : K[i].text # x
      BY <1>1, <3>1, <3>2 DEF Owns
    <3>3. ASSUME NEW i \in 1..n, K[i].text = x PROVE Owns(o, DOMAIN F, F)
      <4>1. i \in 1..(n - 1)
        BY <3>3, SMT
      <4>2. i + 1 \in 1..n /\ K[i + 1].origin = o
        BY <3>1, <3>3, <4>1, SMT
      <4>. QED  BY <1>1, <4>2 DEF Owns
    <3>. QED  BY <3>2, <3>3
  <2>. QED  BY <2>1, <2>2, <2>3
<1>8. OneMore(A, K, n, F)
  BY <1>1, <1>2, <1>3, <1>6, <1>7 DEF OneMore
<1>. QED  BY <1>8 DEF F

-----------------------------------------------------------------------------
(* The calls of augment, one frame at a time *)

LEMMA TextsAreNumbers ==
  ASSUME CountTypes
  PROVE  \A o : Graph(reviews, o) \subseteq Nat
BY ReviewSetsAssumption DEF CountTypes, Graph

LEMMA TriedFrames ==
  ASSUME CountTypes, stack # <<>>, NEW t \in Int
  PROVE  /\ Tried(t) \in Seq(Frames) /\ Len(Tried(t)) = Len(stack) /\ Len(stack) \in Nat \ {0}
         /\ \A i \in 1..Len(stack) :
               /\ Tried(t)[i].origin = stack[i].origin
               /\ i < Len(stack) => Tried(t)[i] = stack[i]
         /\ Tried(t)[Len(stack)].left = stack[Len(stack)].left \ {t}
         /\ Tried(t)[Len(stack)].text = t
<1>. DEFINE n == Len(stack)
            old == stack[n]
            new == [old EXCEPT !.left = @ \ {t}, !.text = t]
<1>1. n \in Nat \ {0} /\ stack \in [1..n -> Frames] /\ n \in 1..n
  <2>1. stack \in Seq(Frames)
    BY DEF CountTypes
  <2>2. n \in Nat \ {0}
    BY <2>1, EmptySeq
  <2>3. stack \in [1..n -> Frames]
    BY <2>1, LenProperties
  <2>. QED  BY <2>2, <2>3
<1>2. old \in Frames
  BY <1>1
<1>3. new.origin = old.origin /\ new.left = old.left \ {t} /\ new.text = t /\ new \in Frames
  BY <1>2 DEF Frames
<1>4. Tried(t) = [stack EXCEPT ![n] = new]
  BY DEF Tried, Top
<1>. HIDE DEF new
<1>5. /\ Tried(t) \in [1..n -> Frames] /\ Tried(t)[n] = new
      /\ \A i \in 1..n : i # n => Tried(t)[i] = stack[i]
  BY <1>1, <1>3, <1>4
<1>6. Tried(t) \in Seq(Frames) /\ Len(Tried(t)) = n
  <2>. HIDE DEF n
  <2>1. Tried(t) \in Seq(Frames)
    BY <1>1, <1>5, SeqDef, Zenon
  <2>2. Len(Tried(t)) \in Nat /\ DOMAIN Tried(t) = 1..Len(Tried(t))
    BY <2>1, LenProperties
  <2>3. DOMAIN Tried(t) = 1..n
    BY <1>5
  <2>4. n \in Nat \ {0}
    BY <1>1
  <2>. DEFINE m == Len(Tried(t))
  <2>5. m \in Nat /\ 1..m = 1..n
    BY <2>2, <2>3
  <2>. HIDE DEF m
  <2>6. n \in 1..m /\ (m = 0 \/ m \in 1..n)
    BY <2>4, <2>5
  <2>7. m = n
    BY <2>4, <2>5, <2>6
  <2>. QED  BY <2>1, <2>7 DEF m
<1>7. \A i \in 1..n : Tried(t)[i].origin = stack[i].origin
  BY <1>3, <1>5
<1>8. \A i \in 1..n : i < n => Tried(t)[i] = stack[i]
  <2>. HIDE DEF n
  <2>1. \A i \in 1..n : i < n => i # n
    <3>1. n \in Int
      BY <1>1
    <3>. QED  BY <3>1
  <2>. QED  BY <1>5, <2>1
<1>. QED  BY <1>1, <1>3, <1>5, <1>6, <1>7, <1>8

LEMMA PoppedFrames ==
  ASSUME CountTypes, stack # <<>>
  PROVE  /\ Popped \in Seq(Frames) /\ Len(Popped) = Len(stack) - 1 /\ Len(stack) \in Nat \ {0}
         /\ \A i \in 1..(Len(stack) - 1) : Popped[i] = stack[i]
         /\ Len(stack) = 1 => Popped = <<>>
         /\ Len(stack) # 1 => Popped # <<>>
<1>. DEFINE n == Len(stack)
<1>1. stack \in Seq(Frames)
  BY DEF CountTypes
<1>2. n \in Nat \ {0} /\ \A i \in 1..n : stack[i] \in Frames
  BY <1>1, EmptySeq, ElementOfSeq
<1>. DEFINE m == n - 1
<1>3. 1 \in Int /\ m \in Int /\ \A i \in 1..m : stack[i] \in Frames
  BY <1>2
<1>4. Popped = SubSeq(stack, 1, m)
  BY DEF Popped
<1>. HIDE DEF m
<1>5. /\ Popped \in Seq(Frames)
      /\ Len(Popped) = IF 1 <= m THEN m - 1 + 1 ELSE 0
      /\ \A i \in 1..(m - 1 + 1) : Popped[i] = stack[1 + i - 1]
  BY <1>3, <1>4, SubSeqProperties
<1>6. Len(Popped) = n - 1 /\ \A i \in 1..(n - 1) : Popped[i] = stack[i]
  <2>1. m \in Nat
    BY <1>2 DEF m
  <2>2. Len(Popped) = m
    BY <1>5, <2>1
  <2>3. \A i \in 1..m : i \in 1..(m - 1 + 1) /\ 1 + i - 1 = i
    BY <2>1
  <2>4. \A i \in 1..m : Popped[i] = stack[i]
    BY <1>5, <2>3
  <2>. QED  BY <2>2, <2>4 DEF m
<1>7. n = 1 => Popped = <<>>
  BY <1>4, <1>2, SubSeqEmpty DEF m
<1>8. n # 1 => Popped # <<>>
  BY <1>2, <1>6, EmptySeq
<1>. QED  BY <1>2, <1>5, <1>6, <1>7, <1>8

-----------------------------------------------------------------------------
(* What a count is in the middle of, step by step *)

LEMMA CountStarts == CountInit => CountInv
<1>. SUFFICES ASSUME CountInit PROVE CountInv
  OBVIOUS
<1>1. CountTypes
  <2>1. DOMAIN assigned = {} /\ assigned \in [DOMAIN assigned -> OriginsIn(reviews)]
    BY DEF CountInit
  <2>2. IsFiniteSet(DOMAIN assigned)
    BY <2>1, FS_EmptySet
  <2>3. stack \in Seq(Frames)
    BY EmptySeq DEF CountInit
  <2>. QED  BY <2>1, <2>2, <2>3 DEF CountInit, CountTypes
<1>2. Chained
  <2>1. Len(stack) = 0 /\ Asked_for = -1 /\ stack = <<>>
    BY EmptySeq DEF CountInit, Asked_for
  <2>. QED  BY <2>1 DEF Chained
<1>3. Fitting
  <2>1. Settled = assigned /\ DOMAIN assigned = {} /\ ~placing
    BY DEF CountInit, Settled
  <2>2. Cardinality(DOMAIN Settled) = count
    BY <2>1, FS_EmptySet DEF CountInit
  <2>3. Stuck({}, Settled, reviews, todo)
    BY <2>1 DEF CountInit, Stuck, Owns
  <2>4. {} \in SUBSET DOMAIN Settled
    OBVIOUS
  <2>5. count \in Nat
    BY DEF CountInit
  <2>. HIDE DEF Settled
  <2>. QED  BY <2>1, <2>2, <2>3, <2>4, <2>5 DEF Fitting, OneEach
<1>4. Searched
  BY DEF CountInit, Searched
<1>. QED  BY <1>1, <1>2, <1>3, <1>4 DEF CountInv

\* A step of the search assigns nothing.
LEMMA FittingKept ==
  ASSUME Fitting, ~placing, UNCHANGED <<reviews, todo, assigned, placing, count>>
  PROVE  Fitting'
<1>1. Settled = assigned /\ Settled' = assigned
  BY DEF Settled
<1>2. /\ OneEach(assigned)
      /\ \A x \in DOMAIN assigned : assigned[x] \notin todo
      /\ Cardinality(DOMAIN assigned) = count + 0
      /\ \E D \in SUBSET DOMAIN assigned : Stuck(D, assigned, reviews, todo)
  BY <1>1 DEF Fitting
<1>. QED  BY <1>1, <1>2 DEF Fitting

LEMMA NextOriginKeeps == CountInv /\ NextOrigin => CountInv'
<1>. SUFFICES ASSUME CountInv, NextOrigin PROVE CountInv'
  OBVIOUS
<1>1. PICK o \in todo : stack' = <<Call(o)>>
  BY DEF NextOrigin
<1>2. ~placing /\ o \in OriginsIn(reviews)
  BY DEF CountInv, CountTypes, NextOrigin
<1>3. Call(o) \in Frames /\ Call(o).origin = o /\ Call(o).left = Graph(reviews, o)
  BY <1>2, TextsAreNumbers DEF CountInv, Call, Frames, NoText
<1>4. /\ stack' \in Seq(Frames) /\ Len(stack') = 1 /\ stack'[1] = Call(o) /\ stack' # <<>>
  <2>. HIDE DEF Call, Frames
  <2>. QED  BY <1>1, <1>3
<1>. HIDE DEF Call, Frames
<1>5. UNCHANGED <<reviews, todo, assigned, placing, count>> /\ seen' = {}
  BY DEF NextOrigin
<1>6. CountTypes'
  <2>1. (stack \in Seq(Frames))'
    BY <1>4, <1>5 DEF Frames
  <2>. QED  BY <1>2, <1>4, <1>5, <2>1 DEF CountInv, CountTypes
<1>7. Chained'
  BY <1>2, <1>3, <1>4, <1>5 DEF Chained, Asked_for
<1>8. Fitting'
  BY <1>2, <1>5, FittingKept DEF CountInv
<1>9. Searched'
  BY <1>2, <1>3, <1>4, <1>5 DEF Searched
<1>. QED  BY <1>6, <1>7, <1>8, <1>9 DEF CountInv

LEMMA TryingFacts ==
  ASSUME CountInv, NEW t, Trying(t)
  PROVE  LET n == Len(stack) IN
         /\ n \in Nat \ {0} /\ stack # <<>> /\ ~placing
         /\ t \in Nat /\ t \in stack[n].left /\ t \in Graph(reviews, stack[n].origin)
         /\ \A i \in 1..n : stack[i].origin \in OriginsIn(reviews)
<1>1. stack # <<>> /\ ~placing /\ t \in stack[Len(stack)].left
  BY DEF Trying, Top, Least
<1>2. stack \in Seq(Frames) /\ Len(stack) \in Nat \ {0}
  BY <1>1, EmptySeq DEF CountInv, CountTypes
<1>3. \A i \in 1..Len(stack) : stack[i].origin \in OriginsIn(reviews)
  <2>1. \A i \in 1..Len(stack) : stack[i] \in Frames
    BY <1>2, ElementOfSeq
  <2>. QED  BY <2>1 DEF Frames
<1>4. t \in Graph(reviews, stack[Len(stack)].origin)
  <2>1. Len(stack) \in 1..Len(stack)
    BY <1>2
  <2>. QED  BY <1>1, <2>1 DEF CountInv, Chained
<1>5. t \in Nat
  BY <1>4, TextsAreNumbers DEF CountInv
<1>. QED  BY <1>1, <1>2, <1>3, <1>4, <1>5

LEMMA SkipKeeps ==
  ASSUME CountInv, NEW t, Skip(t)
  PROVE  CountInv'
<1>. DEFINE n == Len(stack)
<1>1. /\ Trying(t) /\ t \in seen /\ stack' = Tried(t)
      /\ UNCHANGED <<reviews, todo, assigned, seen, placing, count>>
  BY DEF Skip
<1>2. /\ n \in Nat \ {0} /\ stack # <<>> /\ ~placing /\ t \in Int
      /\ t \in stack[n].left /\ t \in Graph(reviews, stack[n].origin)
  BY <1>1, TryingFacts
<1>3. /\ stack' \in Seq(Frames) /\ Len(stack') = n
      /\ \A i \in 1..n : stack'[i].origin = stack[i].origin
      /\ \A i \in 1..n : i < n => stack'[i] = stack[i]
      /\ stack'[n].left = stack[n].left \ {t}
  BY <1>1, <1>2, TriedFrames DEF CountInv
<1>4. stack' # <<>>
  BY <1>2, <1>3, EmptySeq
<1>. HIDE DEF n
<1>5. CountTypes'
  <2>1. (stack \in Seq(Frames))'
    BY <1>1, <1>3 DEF Frames
  <2>. QED  BY <1>1, <1>4, <2>1 DEF CountInv, CountTypes
<1>6. \A i \in 1..(n - 1) : i \in 1..n /\ i < n /\ i + 1 \in 1..n
  BY <1>2
<1>7. Chained'
  <2>1. stack'[1].origin \in todo
    <3>1. stack[1].origin \in todo /\ 1 \in 1..n
      BY <1>2 DEF CountInv, Chained
    <3>. QED  BY <1>3, <3>1
  <2>2. ASSUME NEW i \in 1..n PROVE stack'[i].left \subseteq Graph(reviews, stack'[i].origin)
    <3>1. stack[i].left \subseteq Graph(reviews, stack[i].origin)
      BY DEF CountInv, Chained, n
    <3>2. i = n \/ i < n
      BY <1>2
    <3>. QED  BY <1>3, <3>1, <3>2
  <2>3. Asked_for = n - 1 /\ Asked_for' = n - 1
    BY <1>1, <1>2, <1>3 DEF Asked_for, n
  <2>4. \A i \in 1..(n - 1) :
          /\ stack'[i].text \in Graph(reviews, stack'[i].origin) /\ stack'[i].text \in seen
          /\ stack'[i].text \in DOMAIN assigned /\ stack'[i + 1].origin = assigned[stack'[i].text]
    <3>1. \A i \in 1..(n - 1) :
            /\ stack[i].text \in Graph(reviews, stack[i].origin) /\ stack[i].text \in seen
            /\ stack[i].text \in DOMAIN assigned /\ stack[i + 1].origin = assigned[stack[i].text]
      BY <2>3 DEF CountInv, Chained, n
    <3>. QED  BY <1>3, <1>6, <3>1
  <2>5. \A i, j \in 1..(n - 1) : stack'[i].text = stack'[j].text => i = j
    <3>1. \A i, j \in 1..(n - 1) : stack[i].text = stack[j].text => i = j
      BY <2>3 DEF CountInv, Chained
    <3>. QED  BY <1>3, <1>6, <3>1
  <2>. QED  BY <1>1, <1>3, <2>1, <2>2, <2>3, <2>4, <2>5 DEF Chained
<1>8. Fitting'
  BY <1>1, <1>2, FittingKept DEF CountInv
<1>9. Searched'
  <2>1. /\ seen \subseteq DOMAIN assigned
        /\ \A i \in 1..n : Graph(reviews, stack[i].origin) \subseteq stack[i].left \cup seen
        /\ \A x \in seen : \/ Graph(reviews, assigned[x]) \subseteq seen
                           \/ \E i \in 2..n : stack[i].origin = assigned[x]
        /\ \A D \in SUBSET DOMAIN assigned : Stuck(D, assigned, reviews, todo) =>
              \A i, j \in 1..n : i < j /\ stack[i].text \in D => Owns(stack[j].origin, D, assigned)
    BY <1>2 DEF CountInv, Searched, n
  <2>2. ASSUME NEW i \in 1..n
        PROVE  Graph(reviews, stack'[i].origin) \subseteq stack'[i].left \cup seen
    <3>1. i = n \/ i < n
      BY <1>2
    <3>. QED  BY <1>1, <1>3, <2>1, <3>1
  <2>3. \A x \in seen : \/ Graph(reviews, assigned[x]) \subseteq seen
                        \/ \E i \in 2..n : stack'[i].origin = assigned[x]
    <3>1. \A i \in 2..n : i \in 1..n
      BY <1>2
    <3>. QED  BY <1>3, <2>1, <3>1
  <2>4. ASSUME NEW D \in SUBSET DOMAIN assigned, Stuck(D, assigned, reviews, todo),
               NEW i \in 1..n, NEW j \in 1..n, i < j, stack'[i].text \in D
        PROVE  Owns(stack'[j].origin, D, assigned)
    <3>1. i < n
      BY <1>2, <2>4
    <3>2. stack[i].text \in D
      BY <1>3, <2>4, <3>1
    <3>3. Owns(stack[j].origin, D, assigned)
      BY <2>1, <2>4, <3>2
    <3>. QED  BY <1>3, <3>3
  <2>. QED  BY <1>1, <1>3, <2>1, <2>2, <2>3, <2>4 DEF Searched
<1>. QED  BY <1>5, <1>7, <1>8, <1>9 DEF CountInv

LEMMA AskOwnerKeeps ==
  ASSUME CountInv, NEW t, AskOwner(t)
  PROVE  CountInv'
<1>. DEFINE n == Len(stack)
            w == assigned[t]
            asking == Tried(t)
<1>1. /\ Trying(t) /\ t \notin seen /\ t \in DOMAIN assigned
      /\ seen' = seen \cup {t} /\ stack' = Append(asking, Call(w))
      /\ UNCHANGED <<reviews, todo, assigned, placing, count>>
  BY DEF AskOwner
<1>2. /\ n \in Nat \ {0} /\ stack # <<>> /\ ~placing /\ t \in Int
      /\ t \in stack[n].left /\ t \in Graph(reviews, stack[n].origin)
  BY <1>1, TryingFacts
<1>3. /\ asking \in Seq(Frames) /\ Len(asking) = n
      /\ \A i \in 1..n : asking[i].origin = stack[i].origin
      /\ \A i \in 1..n : i < n => asking[i] = stack[i]
      /\ asking[n].left = stack[n].left \ {t} /\ asking[n].text = t
  BY <1>1, <1>2, TriedFrames DEF CountInv
<1>4. w \in OriginsIn(reviews)
  BY <1>1 DEF CountInv, CountTypes
<1>5. Call(w) \in Frames /\ Call(w).origin = w /\ Call(w).left = Graph(reviews, w)
  <2>. HIDE DEF w
  <2>. QED  BY <1>4, TextsAreNumbers DEF CountInv, Call, Frames, NoText
<1>. HIDE DEF n, asking
<1>6. /\ stack' \in Seq(Frames) /\ Len(stack') = n + 1 /\ stack' # <<>>
      /\ \A i \in 1..n : stack'[i] = asking[i]
      /\ stack'[n + 1] = Call(w)
  <2>. DEFINE c == Call(w)
  <2>1. c \in Frames /\ stack' = Append(asking, c)
    BY <1>1, <1>5
  <2>. HIDE DEF c
  <2>2. /\ stack' \in Seq(Frames) /\ stack' # <<>> /\ Len(stack') = Len(asking) + 1
        /\ \A i \in 1..Len(asking) : stack'[i] = asking[i]
        /\ stack'[Len(asking) + 1] = c
    BY <1>3, <2>1, AppendProperties
  <2>. QED  BY <1>3, <2>2 DEF c
<1>7. /\ \A i \in 1..n : stack'[i].origin = stack[i].origin
      /\ \A i \in 1..n : i < n => stack'[i] = stack[i]
      /\ stack'[n].left = stack[n].left \ {t} /\ stack'[n].text = t
      /\ stack'[n + 1].origin = w /\ stack'[n + 1].left = Graph(reviews, w)
  <2>1. n \in 1..n
    BY <1>2
  <2>. QED  BY <1>3, <1>5, <1>6, <2>1
<1>8. CountTypes'
  <2>1. (stack \in Seq(Frames))'
    BY <1>1, <1>6 DEF Frames
  <2>. QED  BY <1>1, <1>6, <2>1 DEF CountInv, CountTypes
<1>9. /\ n \in Int /\ \A i \in 1..(n + 1) : i = n + 1 \/ (i \in 1..n /\ (i = n \/ i < n))
      /\ \A i \in 1..n : i = n \/ (i \in 1..(n - 1) /\ i < n /\ i + 1 \in 1..n)
  BY <1>2
<1>10. /\ \A i \in 1..(n - 1) :
             /\ stack[i].text \in Graph(reviews, stack[i].origin) /\ stack[i].text \in seen
             /\ stack[i].text \in DOMAIN assigned /\ stack[i + 1].origin = assigned[stack[i].text]
       /\ \A i, j \in 1..(n - 1) : stack[i].text = stack[j].text => i = j
       /\ stack[1].origin \in todo
       /\ \A i \in 1..n : stack[i].left \subseteq Graph(reviews, stack[i].origin)
  <2>1. Asked_for = n - 1
    BY <1>2 DEF Asked_for, n
  <2>. QED  BY <1>2, <2>1 DEF CountInv, Chained, n
<1>11. Chained'
  <2>1. stack'[1].origin \in todo
    BY <1>2, <1>7, <1>10
  <2>2. ASSUME NEW i \in 1..(n + 1) PROVE stack'[i].left \subseteq Graph(reviews, stack'[i].origin)
    BY <1>7, <1>9, <1>10
  <2>3. Asked_for' = n
    BY <1>1, <1>2, <1>6 DEF Asked_for
  <2>4. ASSUME NEW i \in 1..n
        PROVE  /\ stack'[i].text \in Graph(reviews, stack'[i].origin) /\ stack'[i].text \in seen'
               /\ stack'[i].text \in DOMAIN assigned
               /\ stack'[i + 1].origin = assigned[stack'[i].text]
    <3>1. CASE i = n
      BY <1>1, <1>2, <1>7, <3>1
    <3>2. CASE i # n
      <4>1. i \in 1..(n - 1) /\ i < n /\ i + 1 \in 1..n
        BY <1>9, <3>2
      <4>. QED  BY <1>1, <1>7, <1>10, <4>1
    <3>. QED  BY <3>1, <3>2
  <2>5. ASSUME NEW i \in 1..n, NEW j \in 1..n, stack'[i].text = stack'[j].text
        PROVE  i = j
    <3>1. \A k \in 1..(n - 1) : stack[k].text # t
      BY <1>1, <1>10
    <3>2. CASE i = n \/ j = n
      BY <1>7, <1>9, <2>5, <3>1, <3>2
    <3>3. CASE i # n /\ j # n
      BY <1>7, <1>9, <1>10, <2>5, <3>3
    <3>. QED  BY <3>2, <3>3
  <2>6. Len(stack') - 1 = n
    BY <1>6, <1>9
  <2>. QED  BY <1>1, <1>6, <2>1, <2>2, <2>3, <2>4, <2>5, <2>6 DEF Chained
<1>12. Fitting'
  BY <1>1, <1>2, FittingKept DEF CountInv
<1>13. Searched'
  <2>1. /\ seen \subseteq DOMAIN assigned
        /\ \A i \in 1..n : Graph(reviews, stack[i].origin) \subseteq stack[i].left \cup seen
        /\ \A x \in seen : \/ Graph(reviews, assigned[x]) \subseteq seen
                           \/ \E i \in 2..n : stack[i].origin = assigned[x]
        /\ \A D \in SUBSET DOMAIN assigned : Stuck(D, assigned, reviews, todo) =>
              \A i, j \in 1..n : i < j /\ stack[i].text \in D => Owns(stack[j].origin, D, assigned)
    BY <1>2 DEF CountInv, Searched, n
  <2>2. ASSUME NEW i \in 1..(n + 1)
        PROVE  Graph(reviews, stack'[i].origin) \subseteq stack'[i].left \cup seen'
    <3>1. CASE i = n + 1
      BY <1>7, <3>1
    <3>2. CASE i # n + 1
      BY <1>1, <1>7, <1>9, <2>1, <3>2
    <3>. QED  BY <3>1, <3>2
  <2>3. ASSUME NEW x \in seen'
        PROVE  \/ Graph(reviews, assigned[x]) \subseteq seen'
               \/ \E i \in 2..(n + 1) : stack'[i].origin = assigned[x]
    <3>1. CASE x = t
      <4>1. n + 1 \in 2..(n + 1)
        BY <1>2
      <4>. QED  BY <1>7, <3>1, <4>1
    <3>2. CASE x \in seen
      <4>1. \A i \in 2..n : i \in 1..n /\ i \in 2..(n + 1)
        BY <1>9
      <4>2. CASE Graph(reviews, assigned[x]) \subseteq seen
        BY <1>1, <4>2
      <4>3. CASE \E i \in 2..n : stack[i].origin = assigned[x]
        BY <1>7, <4>1, <4>3
      <4>. QED  BY <2>1, <3>2, <4>2, <4>3
    <3>3. x = t \/ x \in seen
      BY <1>1
    <3>. QED  BY <3>1, <3>2, <3>3
  <2>4. ASSUME NEW D \in SUBSET DOMAIN assigned, Stuck(D, assigned, reviews, todo),
               NEW i \in 1..(n + 1), NEW j \in 1..(n + 1), i < j, stack'[i].text \in D
        PROVE  Owns(stack'[j].origin, D, assigned)
    <3>1. i \in 1..n
      BY <1>9, <2>4
    <3>2. i # n => stack[i].text \in D /\ Owns(stack[n].origin, D, assigned)
      <4>1. i # n => i < n /\ stack'[i] = stack[i] /\ n \in 1..n
        BY <1>7, <1>9, <3>1
      <4>. QED  BY <2>1, <2>4, <3>1, <4>1
    <3>3. CASE j = n + 1
      <4>1. t \in D
        <5>1. CASE i = n
          BY <1>7, <2>4, <5>1
        <5>2. CASE i # n
          <6>1. stack[n].origin \in OriginsIn(reviews)
            BY <1>1, <1>2, TryingFacts DEF n
          <6>2. Graph(reviews, stack[n].origin) \subseteq D
            BY <2>4, <3>2, <5>2, <6>1 DEF Stuck
          <6>. QED  BY <1>2, <6>2
        <5>. QED  BY <5>1, <5>2
      <4>. QED  BY <1>7, <3>3, <4>1 DEF Owns
    <3>4. CASE j # n + 1
      <4>1. j \in 1..n /\ i < n /\ stack'[i] = stack[i]
        BY <1>7, <1>9, <2>4, <3>1, <3>4
      <4>. QED  BY <1>7, <2>1, <2>4, <3>1, <4>1
    <3>. QED  BY <3>3, <3>4
  <2>5. seen' \subseteq DOMAIN assigned
    BY <1>1, <2>1
  <2>. QED  BY <1>1, <1>6, <2>2, <2>3, <2>4, <2>5 DEF Searched
<1>. QED  BY <1>8, <1>11, <1>12, <1>13 DEF CountInv

LEMMA GiveUpKeeps == CountInv /\ GiveUp => CountInv'
<1>. SUFFICES ASSUME CountInv, GiveUp PROVE CountInv'
  OBVIOUS
<1>. DEFINE n == Len(stack)
<1>1. /\ stack # <<>> /\ ~placing /\ stack[n].left = {} /\ stack' = Popped
      /\ todo' = todo \ Served
      /\ UNCHANGED <<reviews, assigned, seen, placing, count>>
  BY DEF GiveUp, Top
<1>2. /\ stack' \in Seq(Frames) /\ Len(stack') = n - 1 /\ n \in Nat \ {0}
      /\ \A i \in 1..(n - 1) : stack'[i] = stack[i]
      /\ n = 1 <=> stack' = <<>>
  BY <1>1, PoppedFrames DEF CountInv
<1>3. Served = IF n = 1 THEN {stack[1].origin} ELSE {}
  BY DEF Served, Top
<1>. HIDE DEF n
<1>4. CountTypes'
  <2>1. (stack \in Seq(Frames))'
    BY <1>1, <1>2 DEF Frames
  <2>. QED  BY <1>1, <1>2, <2>1 DEF CountInv, CountTypes
<1>5. /\ n \in Int
      /\ \A i \in 1..(n - 1) : i \in 1..n
      /\ \A i \in 1..(n - 2) : i \in 1..(n - 1) /\ i + 1 \in 1..(n - 1)
      /\ \A i \in 1..n : i = n \/ i \in 1..(n - 1)
  BY <1>2
<1>6. /\ \A i \in 1..(n - 1) :
            /\ stack[i].text \in Graph(reviews, stack[i].origin) /\ stack[i].text \in seen
            /\ stack[i].text \in DOMAIN assigned /\ stack[i + 1].origin = assigned[stack[i].text]
      /\ \A i, j \in 1..(n - 1) : stack[i].text = stack[j].text => i = j
      /\ stack[1].origin \in todo
      /\ \A i \in 1..n : stack[i].left \subseteq Graph(reviews, stack[i].origin)
  <2>1. Asked_for = n - 1
    BY <1>1, <1>2 DEF Asked_for, n
  <2>. QED  BY <1>1, <2>1 DEF CountInv, Chained, n
<1>7. Chained'
  <2>1. Asked_for' = n - 2
    BY <1>1, <1>2 DEF Asked_for
  <2>2. stack' # <<>> => stack'[1].origin \in todo'
    <3>1. n # 1 => 1 \in 1..(n - 1)
      BY <1>2
    <3>. QED  BY <1>1, <1>2, <1>3, <1>6, <3>1
  <2>3. ASSUME NEW i \in 1..(n - 2)
        PROVE  /\ stack'[i].text \in Graph(reviews, stack'[i].origin) /\ stack'[i].text \in seen
               /\ stack'[i].text \in DOMAIN assigned
               /\ stack'[i + 1].origin = assigned[stack'[i].text]
    <3>1. i \in 1..(n - 1) /\ i + 1 \in 1..(n - 1)
      BY <1>5
    <3>. QED  BY <1>2, <1>6, <3>1
  <2>4. \A i, j \in 1..(n - 2) : stack'[i].text = stack'[j].text => i = j
    BY <1>2, <1>5, <1>6
  <2>5. Len(stack') - 1 = n - 2
    BY <1>2
  <2>6. \A i \in 1..(n - 1) : stack'[i].left \subseteq Graph(reviews, stack'[i].origin)
    BY <1>2, <1>5, <1>6
  <2>. QED  BY <1>1, <1>2, <2>1, <2>2, <2>3, <2>4, <2>5, <2>6 DEF Chained
<1>8. /\ seen \subseteq DOMAIN assigned
      /\ \A i \in 1..n : Graph(reviews, stack[i].origin) \subseteq stack[i].left \cup seen
      /\ \A x \in seen : \/ Graph(reviews, assigned[x]) \subseteq seen
                         \/ \E i \in 2..n : stack[i].origin = assigned[x]
      /\ \A D \in SUBSET DOMAIN assigned : Stuck(D, assigned, reviews, todo) =>
            \A i, j \in 1..n : i < j /\ stack[i].text \in D => Owns(stack[j].origin, D, assigned)
  BY <1>1 DEF CountInv, Searched, n
\* Who gave up has reviewed nothing that is not seen.
<1>9. Graph(reviews, stack[n].origin) \subseteq seen
  BY <1>1, <1>2, <1>8
<1>10. ASSUME NEW x \in seen
       PROVE  \/ Graph(reviews, assigned[x]) \subseteq seen
              \/ \E i \in 2..(n - 1) : stack[i].origin = assigned[x]
  <2>1. CASE \E i \in 2..n : stack[i].origin = assigned[x]
    <3>1. PICK i \in 2..n : stack[i].origin = assigned[x]
      BY <2>1
    <3>2. CASE i = n
      BY <1>9, <3>1, <3>2
    <3>3. CASE i # n
      <4>1. i \in 2..(n - 1)
        BY <1>2, <3>3
      <4>. QED  BY <3>1, <4>1
    <3>. QED  BY <3>2, <3>3
  <2>. QED  BY <1>8, <2>1
<1>11. Fitting'
  <2>1. CASE n # 1
    BY <1>1, <1>3, <2>1, FittingKept DEF CountInv
  \* The search has failed: what it has seen can no longer make room.
  <2>2. CASE n = 1
    <3>1. Settled = assigned /\ Settled' = assigned
      BY <1>1 DEF Settled
    <3>2. /\ OneEach(assigned)
          /\ \A x \in DOMAIN assigned : assigned[x] \notin todo
          /\ Cardinality(DOMAIN assigned) = count + 0
          /\ \E D \in SUBSET DOMAIN assigned : Stuck(D, assigned, reviews, todo)
      BY <1>1, <3>1 DEF CountInv, Fitting
    <3>3. PICK D \in SUBSET DOMAIN assigned : Stuck(D, assigned, reviews, todo)
      BY <3>2
    <3>4. todo' = todo \ {stack[1].origin}
      BY <1>1, <1>3, <2>2
    <3>5. \A x \in seen : Graph(reviews, assigned[x]) \subseteq seen
      BY <1>10, <2>2
    <3>6. Stuck(D \cup seen, assigned, reviews, todo')
      <4>. SUFFICES ASSUME NEW o \in OriginsIn(reviews),
                           (o \notin todo' /\ ~Owns(o, DOMAIN assigned, assigned))
                             \/ Owns(o, D \cup seen, assigned)
                    PROVE  Graph(reviews, o) \subseteq D \cup seen
        BY DEF Stuck
      <4>1. CASE Owns(o, seen, assigned)
        BY <3>5, <4>1 DEF Owns
      <4>2. CASE Owns(o, D, assigned)
        BY <3>3, <4>2 DEF Stuck
      <4>3. CASE o \notin todo' /\ ~Owns(o, DOMAIN assigned, assigned)
        <5>1. CASE o = stack[1].origin
          BY <1>9, <2>2, <5>1
        <5>2. CASE o \notin todo
          BY <3>3, <4>3, <5>2 DEF Stuck
        <5>. QED  BY <3>4, <4>3, <5>1, <5>2
      <4>. QED  BY <4>1, <4>2, <4>3 DEF Owns
    <3>7. D \cup seen \in SUBSET DOMAIN assigned
      BY <1>8
    <3>8. \A x \in DOMAIN assigned : assigned[x] \notin todo'
      BY <3>2, <3>4
    <3>. QED  BY <1>1, <3>1, <3>2, <3>6, <3>7, <3>8 DEF Fitting
  <2>. QED  BY <2>1, <2>2
<1>12. Searched'
  <2>. SUFFICES ASSUME n # 1 PROVE Searched'
    BY <1>2 DEF Searched
  <2>1. todo' = todo
    BY <1>1, <1>3
  <2>2. \A i \in 1..(n - 1) : Graph(reviews, stack'[i].origin) \subseteq stack'[i].left \cup seen
    BY <1>2, <1>5, <1>8
  <2>3. ASSUME NEW x \in seen
        PROVE  \/ Graph(reviews, assigned[x]) \subseteq seen
               \/ \E i \in 2..(n - 1) : stack'[i].origin = assigned[x]
    <3>1. \A i \in 2..(n - 1) : i \in 1..(n - 1)
      BY <1>2
    <3>. QED  BY <1>2, <1>10, <3>1
  <2>4. ASSUME NEW D \in SUBSET DOMAIN assigned, Stuck(D, assigned, reviews, todo),
               NEW i \in 1..(n - 1), NEW j \in 1..(n - 1), i < j, stack'[i].text \in D
        PROVE  Owns(stack'[j].origin, D, assigned)
    BY <1>2, <1>5, <1>8, <2>4
  <2>5. seen \subseteq DOMAIN assigned
    BY <1>8
  <2>6. Len(stack') = n - 1 /\ UNCHANGED <<reviews, todo, assigned, seen>>
    BY <1>1, <1>2, <2>1
  <2>7. \A x \in seen : \/ Graph(reviews, assigned[x]) \subseteq seen
                        \/ \E i \in 2..(n - 1) : stack'[i].origin = assigned[x]
    BY <2>3
  <2>8. \A D \in SUBSET DOMAIN assigned : Stuck(D, assigned, reviews, todo) =>
          \A i, j \in 1..(n - 1) :
              i < j /\ stack'[i].text \in D => Owns(stack'[j].origin, D, assigned)
    BY <2>4
  <2>. QED  BY <2>2, <2>5, <2>6, <2>7, <2>8 DEF Searched
<1>. QED  BY <1>4, <1>7, <1>11, <1>12 DEF CountInv

LEMMA TakeKeeps ==
  ASSUME CountInv, NEW t, Take(t)
  PROVE  CountInv'
<1>. DEFINE n == Len(stack)
            F == Flip(assigned, stack')
<1>1. /\ Trying(t) /\ t \notin seen /\ t \notin DOMAIN assigned
      /\ seen' = seen \cup {t} /\ stack' = Tried(t) /\ placing' = TRUE
      /\ UNCHANGED <<reviews, todo, assigned, count>>
  BY DEF Take
<1>2. /\ n \in Nat \ {0} /\ stack # <<>> /\ ~placing /\ t \in Int
      /\ t \in stack[n].left /\ t \in Graph(reviews, stack[n].origin)
      /\ stack[n].origin \in OriginsIn(reviews)
  BY <1>1, TryingFacts
<1>3. /\ stack' \in Seq(Frames) /\ Len(stack') = n
      /\ \A i \in 1..n : stack'[i].origin = stack[i].origin
      /\ \A i \in 1..n : i < n => stack'[i] = stack[i]
      /\ stack'[n].left = stack[n].left \ {t} /\ stack'[n].text = t
  BY <1>1, <1>2, TriedFrames DEF CountInv
<1>4. stack' # <<>> /\ DOMAIN stack' = 1..n
  BY <1>2, <1>3, EmptySeq, LenProperties
<1>. HIDE DEF n, F
<1>5. CountTypes'
  <2>1. (stack \in Seq(Frames))'
    BY <1>1, <1>3 DEF Frames
  <2>. QED  BY <1>1, <1>4, <2>1 DEF CountInv, CountTypes
<1>6. /\ n \in Int
      /\ \A i \in 1..(n - 1) : i \in 1..n /\ i < n /\ i + 1 \in 1..n
      /\ \A i \in 1..n : i = n \/ (i \in 1..(n - 1) /\ i < n)
  BY <1>2
<1>7. /\ \A i \in 1..(n - 1) :
            /\ stack[i].text \in Graph(reviews, stack[i].origin) /\ stack[i].text \in seen
            /\ stack[i].text \in DOMAIN assigned /\ stack[i + 1].origin = assigned[stack[i].text]
      /\ \A i, j \in 1..(n - 1) : stack[i].text = stack[j].text => i = j
      /\ stack[1].origin \in todo
      /\ \A i \in 1..n : stack[i].left \subseteq Graph(reviews, stack[i].origin)
  <2>1. Asked_for = n - 1
    BY <1>2 DEF Asked_for, n
  <2>. QED  BY <1>2, <2>1 DEF CountInv, Chained, n
<1>8. \A i, j \in 1..n : stack'[i].text = stack'[j].text => i = j
  <2>. SUFFICES ASSUME NEW i \in 1..n, NEW j \in 1..n, stack'[i].text = stack'[j].text
                PROVE  i = j
    OBVIOUS
  <2>1. \A k \in 1..(n - 1) : stack[k].text # t
    BY <1>1, <1>7
  <2>2. CASE i = n \/ j = n
    BY <1>3, <1>6, <2>1, <2>2
  <2>3. CASE i # n /\ j # n
    BY <1>3, <1>6, <1>7, <2>3
  <2>. QED  BY <2>2, <2>3
<1>9. \A i \in 1..(n - 1) :
         stack'[i].text \in DOMAIN assigned /\ stack'[i + 1].origin = assigned[stack'[i].text]
  BY <1>3, <1>6, <1>7
<1>10. stack'[1].origin = stack[1].origin
  BY <1>2, <1>3
<1>11. Chained'
  <2>1. \A i \in 1..n : stack'[i].left \subseteq Graph(reviews, stack'[i].origin)
    BY <1>3, <1>6, <1>7
  <2>2. Asked_for' = n
    BY <1>1, <1>3 DEF Asked_for
  <2>3. \A i \in 1..n :
          stack'[i].text \in Graph(reviews, stack'[i].origin) /\ stack'[i].text \in seen'
    BY <1>1, <1>2, <1>3, <1>6, <1>7
  <2>. QED  BY <1>1, <1>3, <1>7, <1>8, <1>9, <1>10, <2>1, <2>2, <2>3 DEF Chained
<1>12. /\ OneEach(assigned)
       /\ \A x \in DOMAIN assigned : assigned[x] \notin todo
       /\ Cardinality(DOMAIN assigned) = count /\ count \in Nat
       /\ \E D \in SUBSET DOMAIN assigned : Stuck(D, assigned, reviews, todo)
       /\ IsFiniteSet(DOMAIN assigned)
  <2>1. Settled = assigned
    BY <1>2 DEF Settled
  <2>2. count \in Nat /\ IsFiniteSet(DOMAIN assigned)
    BY DEF CountInv, CountTypes
  <2>3. /\ OneEach(assigned)
        /\ \A x \in DOMAIN assigned : assigned[x] \notin todo
        /\ Cardinality(DOMAIN assigned) = count + 0
        /\ \E D \in SUBSET DOMAIN assigned : Stuck(D, assigned, reviews, todo)
    BY <1>2, <2>1 DEF CountInv, Fitting
  <2>. QED  BY <2>2, <2>3
\* The path from this turn's origin to the text nobody has.
<1>13. /\ DOMAIN F = DOMAIN assigned \cup {t}
       /\ Cardinality(DOMAIN F) = count + 1
       /\ OneEach(F)
       /\ \A o : Owns(o, DOMAIN F, F) <=> o = stack[1].origin \/ Owns(o, DOMAIN assigned, assigned)
       /\ \A x \in DOMAIN assigned : (\A i \in 1..n : stack'[i].text # x) => F[x] = assigned[x]
  <2>. DEFINE K == stack'
              A == assigned
  <2>1. Differing(K)
    BY <1>4, <1>8 DEF Differing
  <2>2. ~Owns(K[1].origin, DOMAIN A, A)
    BY <1>7, <1>10, <1>12 DEF Owns
  <2>5. /\ n \in Nat \ {0} /\ DOMAIN K = 1..n /\ K[n].text \notin DOMAIN A
        /\ IsFiniteSet(DOMAIN A) /\ OneEach(A)
    BY <1>1, <1>2, <1>3, <1>4, <1>12
  <2>6. \A i \in 1..(n - 1) : K[i].text \in DOMAIN A /\ K[i + 1].origin = A[K[i].text]
    BY <1>9
  <2>. HIDE DEF K, A
  <2>4. AugmentingPath(A, K, n)
    BY <2>1, <2>2, <2>5, <2>6 DEF AugmentingPath
  <2>3. OneMore(A, K, n, Flip(A, K))
    BY <2>4, Augmented
  <2>. QED  BY <1>3, <1>10, <1>12, <2>3 DEF K, A, F, OneMore
\* No call of it asked for a text that can make no room, or the last would have too.
<1>14. \E D \in SUBSET DOMAIN F : Stuck(D, F, reviews, todo)
  <2>1. PICK D \in SUBSET DOMAIN assigned : Stuck(D, assigned, reviews, todo)
    BY <1>12
  <2>2. ASSUME NEW i \in 1..n, stack'[i].text \in D
        PROVE  FALSE
    <3>1. i # n
      BY <1>1, <1>3, <2>2
    <3>2. i < n /\ stack[i].text \in D /\ n \in 1..n
      BY <1>2, <1>3, <1>6, <2>2, <3>1
    <3>3. Owns(stack[n].origin, D, assigned)
      BY <1>2, <2>1, <3>2 DEF CountInv, Searched, n
    <3>4. Graph(reviews, stack[n].origin) \subseteq D
      BY <1>2, <2>1, <3>3 DEF Stuck
    <3>. QED  BY <1>1, <1>2, <3>4
  <2>3. \A x \in D : F[x] = assigned[x]
    BY <1>13, <2>2
  <2>4. Stuck(D, F, reviews, todo)
    <3>. SUFFICES ASSUME NEW o \in OriginsIn(reviews),
                         (o \notin todo /\ ~Owns(o, DOMAIN F, F)) \/ Owns(o, D, F)
                  PROVE  Graph(reviews, o) \subseteq D
      BY DEF Stuck
    <3>1. Owns(o, D, F) => Owns(o, D, assigned)
      BY <2>3 DEF Owns
    <3>2. ~Owns(o, DOMAIN F, F) => ~Owns(o, DOMAIN assigned, assigned)
      BY <1>13
    <3>. QED  BY <2>1, <3>1, <3>2 DEF Stuck
  <2>5. D \in SUBSET DOMAIN F
    BY <1>13
  <2>. QED  BY <2>4, <2>5
<1>15. Fitting'
  <2>1. Settled' = F
    BY <1>1 DEF Settled, F
  <2>2. ASSUME NEW x \in DOMAIN F, F[x] \in todo
        PROVE  F[x] = stack'[1].origin
    <3>1. Owns(F[x], DOMAIN F, F)
      BY DEF Owns
    <3>2. ~Owns(F[x], DOMAIN assigned, assigned)
      BY <1>12, <2>2 DEF Owns
    <3>. QED  BY <1>10, <1>13, <3>1, <3>2
  <2>3. placing' /\ todo' = todo /\ reviews' = reviews /\ count' = count
    BY <1>1
  <2>. QED  BY <1>13, <1>14, <2>1, <2>2, <2>3 DEF Fitting
<1>16. Searched'
  BY <1>1 DEF Searched
<1>. QED  BY <1>5, <1>11, <1>15, <1>16 DEF CountInv

LEMMA AssignKeeps == CountInv /\ Assign => CountInv'
<1>. SUFFICES ASSUME CountInv, Assign PROVE CountInv'
  OBVIOUS
<1>. DEFINE n == Len(stack)
            F == Flip(assigned, stack)
            w == stack[n].origin
            t == stack[n].text
<1>1. /\ stack # <<>> /\ placing /\ stack' = Popped
      /\ assigned' = [x \in DOMAIN assigned \cup {t} |-> IF x = t THEN w ELSE assigned[x]]
      /\ todo' = todo \ Served /\ placing' = (n > 1)
      /\ count' = IF Served = {} THEN count ELSE count + 1
      /\ UNCHANGED <<reviews, seen>>
  BY DEF Assign, Top
<1>2. /\ stack' \in Seq(Frames) /\ Len(stack') = n - 1 /\ n \in Nat \ {0}
      /\ \A i \in 1..(n - 1) : stack'[i] = stack[i]
      /\ n = 1 <=> stack' = <<>>
  BY <1>1, PoppedFrames DEF CountInv
<1>3. Served = IF n = 1 THEN {stack[1].origin} ELSE {}
  BY DEF Served, Top
<1>4. DOMAIN stack = 1..n /\ DOMAIN stack' = 1..(n - 1) /\ w \in OriginsIn(reviews) /\ n \in 1..n
  <2>1. stack \in Seq(Frames)
    BY DEF CountInv, CountTypes
  <2>2. n \in 1..n
    BY <1>2
  <2>3. stack[n] \in Frames
    BY <2>1, <2>2, ElementOfSeq
  <2>. QED  BY <1>2, <2>1, <2>2, <2>3, LenProperties DEF Frames
<1>. HIDE DEF n, F, w, t
<1>5. /\ n \in Int
      /\ \A i \in 1..(n - 1) : i \in 1..n /\ i # n /\ i + 1 \in 1..n
      /\ \A i \in 1..(n - 2) : i \in 1..(n - 1) /\ i + 1 \in 1..(n - 1)
  BY <1>2
<1>6. /\ \A i \in 1..n :
            /\ stack[i].text \in Graph(reviews, stack[i].origin) /\ stack[i].text \in seen
            /\ stack[i].left \subseteq Graph(reviews, stack[i].origin)
      /\ \A i \in 1..(n - 1) :
            stack[i].text \in DOMAIN assigned /\ stack[i + 1].origin = assigned[stack[i].text]
      /\ \A i, j \in 1..n : stack[i].text = stack[j].text => i = j
      /\ stack[1].origin \in todo
  <2>1. Asked_for = n
    BY <1>1 DEF Asked_for, n
  <2>. QED  BY <1>1, <2>1 DEF CountInv, Chained, n
<1>7. placing' \in BOOLEAN /\ (placing' <=> n # 1)
  <2>1. placing' = (n > 1)
    BY <1>1
  <2>2. n = 1 => ~(n > 1)
    OBVIOUS
  <2>3. n # 1 => n > 1
    BY <1>2
  <2>4. (n > 1) \in BOOLEAN
    OBVIOUS
  <2>5. placing' \in BOOLEAN /\ (placing' <=> n > 1)
    BY <2>1, <2>4, Zenon
  <2>. QED  BY <2>2, <2>3, <2>5
<1>8. CountTypes'
  <2>1. (stack \in Seq(Frames))'
    BY <1>1, <1>2 DEF Frames
  <2>2. /\ assigned \in [DOMAIN assigned -> OriginsIn(reviews)] /\ IsFiniteSet(DOMAIN assigned)
        /\ \A x \in DOMAIN assigned : x \in Graph(reviews, assigned[x])
        /\ reviews \in ReviewSets /\ todo \subseteq OriginsIn(reviews) /\ count \in Nat
    BY DEF CountInv, CountTypes
  <2>3. DOMAIN assigned' = DOMAIN assigned \cup {t} /\ IsFiniteSet(DOMAIN assigned')
    BY <1>1, <2>2, FS_AddElement
  <2>4. assigned' \in [DOMAIN assigned' -> OriginsIn(reviews)]
    BY <1>1, <1>4, <2>2, <2>3
  <2>5. ASSUME NEW x \in DOMAIN assigned' PROVE x \in Graph(reviews, assigned'[x])
    <3>1. t \in Graph(reviews, w)
      BY <1>4, <1>6 DEF t, w
    <3>. QED  BY <1>1, <2>2, <3>1
  <2>6. count' \in Nat /\ todo' \subseteq OriginsIn(reviews) /\ reviews' = reviews
    BY <1>1, <2>2
  <2>7. stack' = <<>> => ~placing'
    BY <1>2, <1>7
  <2>. QED  BY <1>7, <2>1, <2>2, <2>3, <2>4, <2>5, <2>6, <2>7 DEF CountTypes
<1>9. Chained'
  <2>1. Len(stack') - 1 = n - 2 /\ (Asked_for' = n - 1 \/ (n = 1 /\ Asked_for' = n - 2))
    BY <1>2, <1>7 DEF Asked_for
  <2>2. \A i \in 1..Asked_for' : i \in 1..(n - 1)
    BY <1>2, <2>1
  <2>3. stack' # <<>> => stack'[1].origin \in todo'
    <3>1. n # 1 => 1 \in 1..(n - 1)
      BY <1>2
    <3>. QED  BY <1>1, <1>2, <1>3, <1>6, <3>1
  <2>4. \A i \in 1..(n - 1) :
           /\ stack'[i].left \subseteq Graph(reviews, stack'[i].origin)
           /\ stack'[i].text \in Graph(reviews, stack'[i].origin) /\ stack'[i].text \in seen
    BY <1>2, <1>5, <1>6
  <2>5. ASSUME NEW i \in 1..(n - 2)
        PROVE  /\ stack'[i].text \in DOMAIN assigned'
               /\ stack'[i + 1].origin = assigned'[stack'[i].text]
    <3>1. i \in 1..(n - 1) /\ i + 1 \in 1..(n - 1) /\ i \in 1..n /\ i # n
      BY <1>5
    <3>2. stack[i].text # t
      BY <1>4, <1>6, <3>1 DEF t
    <3>3. stack[i].text \in DOMAIN assigned /\ stack[i + 1].origin = assigned[stack[i].text]
      BY <1>6, <3>1
    <3>. QED  BY <1>1, <1>2, <3>1, <3>2, <3>3
  <2>6. \A i, j \in 1..(n - 1) : stack'[i].text = stack'[j].text => i = j
    BY <1>2, <1>5, <1>6
  <2>. QED  BY <1>1, <1>2, <2>1, <2>2, <2>3, <2>4, <2>5, <2>6 DEF Chained
\* What will be assigned in the end is what it was.
<1>10. Settled = F /\ Settled' = F
  <2>. DEFINE A == assigned
              B == assigned'
              K == stack
              L == stack'
  <2>1. Settled = F
    BY <1>1 DEF Settled, F
  <2>2. /\ n \in Nat \ {0} /\ DOMAIN K = 1..n /\ Differing(K)
        /\ DOMAIN L = 1..(n - 1) /\ \A i \in 1..(n - 1) : L[i] = K[i]
        /\ B = [x \in DOMAIN A \cup {K[n].text} |-> IF x = K[n].text THEN K[n].origin ELSE A[x]]
    BY <1>1, <1>2, <1>4, <1>6 DEF Differing, t, w
  <2>. HIDE DEF A, B, K, L
  <2>3. Flip(B, L) = Flip(A, K)
    <3>1. Returned(A, K, n, B, L)
      BY <2>2 DEF Returned
    <3>. QED  BY <3>1, FlipPopped
  <2>4. n = 1 => Flip(B, L) = B
    <3>. SUFFICES ASSUME n = 1 PROVE Flip(B, L) = B
      OBVIOUS
    <3>1. DOMAIN L = {}
      BY <2>2
    <3>2. Flip(B, L) = [x \in DOMAIN B |-> B[x]]
      BY <3>1 DEF Flip
    <3>. QED  BY <2>2, <3>2
  <2>. QED  BY <1>7, <2>1, <2>3, <2>4 DEF Settled, A, B, K, L, F
<1>11. /\ \A x : x \in DOMAIN F <=> x \in DOMAIN assigned \/ \E i \in 1..n : stack[i].text = x
       /\ \A i \in 1..n : F[stack[i].text] = stack[i].origin
  <2>1. Differing(stack)
    BY <1>4, <1>6 DEF Differing
  <2>. QED  BY <1>4, <2>1, FlipMeans DEF F
<1>12. /\ OneEach(F)
       /\ \A x \in DOMAIN F : F[x] \in todo => F[x] = stack[1].origin
       /\ Cardinality(DOMAIN F) = count + 1
       /\ \E D \in SUBSET DOMAIN F : Stuck(D, F, reviews, todo)
  BY <1>1, <1>10 DEF CountInv, Fitting
<1>13. Fitting'
  <2>1. ASSUME NEW x \in DOMAIN F, F[x] \in todo'
        PROVE  placing' /\ F[x] = stack'[1].origin
    <3>1. F[x] = stack[1].origin
      BY <1>1, <1>12, <2>1
    <3>2. n # 1
      BY <1>1, <1>3, <2>1, <3>1
    <3>3. 1 \in 1..(n - 1)
      BY <1>2, <3>2
    <3>. QED  BY <1>2, <1>7, <3>1, <3>2, <3>3
  <2>2. Cardinality(DOMAIN F) = count' + (IF placing' THEN 1 ELSE 0)
    <3>1. count \in Nat
      BY DEF CountInv, CountTypes
    <3>2. CASE n = 1
      <4>1. Served # {} /\ ~placing'
        BY <1>3, <1>7, <3>2
      <4>2. count' = count + 1
        BY <1>1, <4>1
      <4>. QED  BY <1>12, <3>1, <4>1, <4>2
    <3>3. CASE n # 1
      <4>1. Served = {} /\ placing'
        BY <1>3, <1>7, <3>3
      <4>2. count' = count
        BY <1>1, <4>1
      <4>. QED  BY <1>12, <3>1, <4>1, <4>2
    <3>. QED  BY <3>2, <3>3
  <2>3. \E D \in SUBSET DOMAIN F : Stuck(D, F, reviews, todo')
    <3>1. PICK D \in SUBSET DOMAIN F : Stuck(D, F, reviews, todo)
      BY <1>12
    <3>2. Owns(stack[1].origin, DOMAIN F, F)
      <4>1. 1 \in 1..n
        BY <1>2
      <4>. QED  BY <1>11, <4>1 DEF Owns
    <3>3. ASSUME NEW o \in OriginsIn(reviews), o \notin todo', ~Owns(o, DOMAIN F, F)
          PROVE  o \notin todo
      BY <1>1, <1>3, <3>2, <3>3
    <3>4. Stuck(D, F, reviews, todo')
      BY <3>1, <3>3 DEF Stuck
    <3>. QED  BY <3>4
  <2>4. reviews' = reviews
    BY <1>1
  <2>. QED  BY <1>10, <1>12, <2>1, <2>2, <2>3, <2>4 DEF Fitting
<1>14. Searched'
  BY <1>2, <1>7 DEF Searched
<1>. QED  BY <1>8, <1>9, <1>13, <1>14 DEF CountInv

\* A step of a count leaves it what a count is in the middle of.
LEMMA CountKeeps == CountInv /\ [CountNext]_cvars => CountInv'
<1>. SUFFICES ASSUME CountInv, [CountNext]_cvars PROVE CountInv'
  OBVIOUS
<1>1. CASE NextOrigin
  BY <1>1, NextOriginKeeps
<1>2. ASSUME NEW t \in Top.left, Skip(t) PROVE CountInv'
  BY <1>2, SkipKeeps
<1>3. ASSUME NEW t \in Top.left, Take(t) PROVE CountInv'
  BY <1>3, TakeKeeps
<1>4. ASSUME NEW t \in Top.left, AskOwner(t) PROVE CountInv'
  BY <1>4, AskOwnerKeeps
<1>5. CASE GiveUp
  BY <1>5, GiveUpKeeps
<1>6. CASE Assign
  BY <1>6, AssignKeeps
<1>7. CASE UNCHANGED cvars
  <2>. USE <1>7 DEF cvars
  <2>1. CountTypes'
    BY DEF CountInv, CountTypes, Frames
  <2>2. Chained'
    BY DEF CountInv, Chained, Asked_for
  <2>3. Fitting'
    BY DEF CountInv, Fitting, Settled
  <2>4. Searched'
    BY DEF CountInv, Searched
  <2>. QED  BY <2>1, <2>2, <2>3, <2>4 DEF CountInv
<1>. QED  BY <1>1, <1>2, <1>3, <1>4, <1>5, <1>6, <1>7 DEF CountNext

-----------------------------------------------------------------------------
(* A largest matching                                                      *)

\* One review for each text that is owned, of its owner: no two share anything.
LEMMA OwnersCorroborate ==
  ASSUME NEW R, NEW S, IsFiniteSet(DOMAIN S), OneEach(S),
         \A x \in DOMAIN S : x \in Graph(R, S[x])
  PROVE  \E M \in SUBSET R : Independent(M) /\ Cardinality(M) = Cardinality(DOMAIN S)
<1>. DEFINE X == DOMAIN S
            g == [x \in X |-> CHOOSE r \in R : r.origin = S[x] /\ r.digest = x]
            M == {g[x] : x \in X}
<1>1. ASSUME NEW x \in X PROVE g[x] \in R /\ g[x].origin = S[x] /\ g[x].digest = x
  <2>1. \E r \in R : r.origin = S[x] /\ r.digest = x
    BY DEF Graph
  <2>. QED  BY <2>1
<1>2. g \in [X -> M] /\ \A m \in M : \E x \in X : g[x] = m
  OBVIOUS
<1>. HIDE DEF g
<1>3. M \in SUBSET R
  BY <1>1
<1>. HIDE DEF M
<1>4. Independent(M)
  <2>. SUFFICES ASSUME NEW r \in M, NEW q \in M, r # q
                PROVE  r.origin # q.origin /\ r.digest # q.digest
    BY DEF Independent
  <2>1. PICK x \in X : g[x] = r
    BY <1>2
  <2>2. PICK y \in X : g[y] = q
    BY <1>2
  <2>3. x # y /\ S[x] # S[y]
    BY <2>1, <2>2 DEF OneEach
  <2>. QED  BY <1>1, <2>1, <2>2, <2>3
<1>5. ExistsBijection(X, M)
  <2>1. \A x, y \in X : g[x] = g[y] => x = y
    BY <1>1
  <2>2. g \in Injection(X, M) /\ g \in Surjection(X, M)
    BY <1>2, <2>1 DEF Injection, Surjection, IsInjective
  <2>. QED  BY <2>2 DEF ExistsBijection, Bijection
<1>6. Cardinality(M) = Cardinality(X)
  BY <1>5, FS_Bijection
<1>. QED  BY <1>3, <1>4, <1>6

\* Stuck texts are a bound: a review of one of them is told by its text, and the origin of
\* any other owns a text that is not stuck.
LEMMA StuckBounds ==
  ASSUME NEW R, NEW S, NEW D \in SUBSET DOMAIN S, IsFiniteSet(DOMAIN S), Stuck(D, S, R, {}),
         NEW N \in SUBSET R, Independent(N)
  PROVE  Cardinality(N) \in Nat /\ Cardinality(N) <= Cardinality(DOMAIN S)
<1>. DEFINE X == DOMAIN S
            f == [r \in N |-> IF r.digest \in D THEN r.digest
                                ELSE CHOOSE x \in X : S[x] = r.origin]
<1>1. ASSUME NEW r \in N, r.digest \in D PROVE f[r] = r.digest /\ f[r] \in X /\ f[r] \in D
  BY <1>1
<1>2. ASSUME NEW r \in N, r.digest \notin D
      PROVE  f[r] \in X /\ S[f[r]] = r.origin /\ f[r] \notin D
  <2>1. r.origin \in OriginsIn(R) /\ ~(Graph(R, r.origin) \subseteq D)
    BY <1>2 DEF OriginsIn, Graph
  <2>2. Owns(r.origin, X, S) /\ ~Owns(r.origin, D, S)
    BY <2>1 DEF Stuck
  <2>3. \E x \in X : S[x] = r.origin
    BY <2>2 DEF Owns
  <2>4. f[r] = CHOOSE x \in X : S[x] = r.origin
    BY <1>2
  <2>5. f[r] \in X /\ S[f[r]] = r.origin
    BY <2>3, <2>4
  <2>. QED  BY <2>2, <2>5 DEF Owns
<1>3. f \in [N -> X]
  <2>1. \A r \in N : f[r] \in X
    BY <1>1, <1>2
  <2>. QED  BY <2>1
<1>. HIDE DEF f
<1>4. ASSUME NEW r \in N, NEW q \in N, f[r] = f[q] PROVE r = q
  BY <1>1, <1>2, <1>4 DEF Independent
<1>5. f \in Injection(N, X)
  BY <1>3, <1>4 DEF Injection, IsInjective
<1>6. IsFiniteSet(N) /\ Cardinality(N) <= Cardinality(X)
  BY <1>5, FS_Injection
<1>. QED  BY <1>6, FS_CardinalityType

\* An assignment with stuck texts and nobody left to be counted is a largest matching.
LEMMA StuckIsLargest ==
  ASSUME NEW R, NEW S, NEW D \in SUBSET DOMAIN S, IsFiniteSet(DOMAIN S), OneEach(S),
         \A x \in DOMAIN S : x \in Graph(R, S[x]), Stuck(D, S, R, {})
  PROVE  Corroboration(R) = Cardinality(DOMAIN S)
<1>. DEFINE n == Cardinality(DOMAIN S)
            Sizes == {Cardinality(M) : M \in {N \in SUBSET R : Independent(N)}}
<1>1. n \in Sizes
  <2>1. PICK M \in SUBSET R : Independent(M) /\ Cardinality(M) = n
    BY OwnersCorroborate
  <2>. QED  BY <2>1
<1>2. \A y \in Sizes : y \in Nat /\ y <= n
  BY StuckBounds
<1>3. Corroboration(R) = CHOOSE x \in Sizes : \A y \in Sizes : x >= y
  BY DEF Corroboration, Max
<1>. HIDE DEF Sizes, n
<1>. DEFINE c == CHOOSE x \in Sizes : \A y \in Sizes : x >= y
<1>4. n \in Nat /\ \A y \in Sizes : n >= y
  BY <1>1, <1>2
<1>5. c \in Sizes /\ \A y \in Sizes : c >= y
  BY <1>1, <1>4
<1>. HIDE DEF c
<1>6. c = n
  BY <1>1, <1>2, <1>4, <1>5
<1>. QED  BY <1>3, <1>6 DEF c, n

\* A count that has ended is one.
LEMMA CountedIsLargest == CountInv => CountIsCorroboration
<1>. SUFFICES ASSUME CountInv, stack = <<>>, todo = {}
              PROVE  count = Corroboration(reviews)
  BY DEF CountIsCorroboration, Counted
<1>1. ~placing /\ count \in Nat /\ IsFiniteSet(DOMAIN assigned)
      /\ \A x \in DOMAIN assigned : x \in Graph(reviews, assigned[x])
  BY DEF CountInv, CountTypes
<1>2. Settled = assigned
  BY <1>1 DEF Settled
<1>3. /\ OneEach(assigned) /\ Cardinality(DOMAIN assigned) = count + 0
      /\ \E D \in SUBSET DOMAIN assigned : Stuck(D, assigned, reviews, {})
  BY <1>1, <1>2 DEF CountInv, Fitting
<1>4. PICK D \in SUBSET DOMAIN assigned : Stuck(D, assigned, reviews, {})
  BY <1>3
<1>5. Corroboration(reviews) = Cardinality(DOMAIN assigned)
  BY <1>1, <1>3, <1>4, StuckIsLargest
<1>. QED  BY <1>1, <1>3, <1>5

\* independent_count counts what there is to count: whatever reviews there are, however
\* many of them share an origin or a text, and in whatever order the texts come, the
\* number it ends with is the size of the largest set of reviews no two of which share
\* either (source_reviews.py independent_count, augment).
THEOREM OriginsAreCounted == CountSpec => []CountIsCorroboration
<1>. QED  BY CountStarts, CountKeeps, CountedIsLargest, PTL DEF CountSpec
=============================================================================
