------------------------------ MODULE Evidence ------------------------------
(***************************************************************************)
(* How supplied evidence is weighed: the claims a model's answer makes     *)
(* about it (fair/quality/claims.py) and the operator's reviews of it      *)
(* (fair/quality/source_reviews.py), each next to what it stands for.      *)
(* A dossier, request.evidence, maps source ids to a text, known by its    *)
(* digest, and the review it names.                                        *)
(***************************************************************************)
EXTENDS Origins, Sequences, SequencesExt

CONSTANTS
    Facts,      \* the facts each text states, in order: records of key and value
    Reviews,    \* the registry: a function of review ids
    NoReview

Texts == DOMAIN Facts

Decisions == {"APPROVED", "REJECTED"}
Classes   == {"PRIMARY", "SECONDARY"}

\* SourceReview.chronology; texts and origins are numbers, sorted as the code sorts them.
ASSUME EvidenceAssumption ==
    /\ NoReview \notin DOMAIN Reviews /\ Texts \subseteq Nat
    /\ \A t \in Texts : IsFiniteSet(DOMAIN Facts[t])
    /\ \A id \in DOMAIN Reviews :
          LET r == Reviews[id] IN
          /\ IsFiniteSet(r.clients) /\ r.clients # {} /\ r.digest \in Texts /\ r.origin \in Nat
          /\ r.class \in Classes /\ r.decision \in Decisions
          /\ {r.observed, r.reviewed, r.expires} \subseteq Int
          /\ r.observed <= r.reviewed /\ r.reviewed < r.expires

-----------------------------------------------------------------------------
(* Claims *)

\* fact_index: what the evidence states under a key, and where.
Records(evidence, key) ==
    UNION {{[value |-> Facts[evidence[s].text][i].value, at |-> <<s, i>>] :
              i \in {j \in DOMAIN Facts[evidence[s].text] : Facts[evidence[s].text][j].key = key}}
           : s \in DOMAIN evidence}

Values(records) == {r.value : r \in records}
Places(records) == {r.at : r \in records}

Missing   == [status |-> "missing", value |-> "none", sources |-> <<>>]
Abstained == [status |-> "abstained", value |-> "none", sources |-> <<>>]
Answered(value, sources) == [status |-> "answered", value |-> value, sources |-> sources]

\* The status of one requested claim, in the order of the code's tests.
Bug_ClaimStatus(answer, records) ==
    CASE answer.status = "missing"    -> "MISSING"
      [] answer.status = "abstained"  ->
            IF records = {} THEN "INSUFFICIENT_EVIDENCE"
            ELSE IF Cardinality(Values(records)) > 1 THEN "CONFLICTING_EVIDENCE" ELSE "ABSTAINED"
      [] OTHER ->
            IF records = {} THEN "UNSUPPORTED"
            ELSE IF answer.value \notin Values(records) THEN "CONTRADICTED"
            ELSE IF ToSet(answer.sources) # Places(records) THEN "INVALID_PROVENANCE"
            ELSE "SUPPORTED"
ClaimStatus(answer, records) ==
    CASE answer.status = "missing"    -> "MISSING"
      [] answer.status = "abstained"  ->
            IF records = {} THEN "INSUFFICIENT_EVIDENCE"
            ELSE IF Cardinality(Values(records)) > 1 THEN "CONFLICTING_EVIDENCE" ELSE "ABSTAINED"
      [] OTHER ->
            IF records = {} THEN "UNSUPPORTED"
            ELSE IF Cardinality(Values(records)) > 1 THEN "CLAIM_OVER_CONFLICTING_EVIDENCE"
            ELSE IF answer.value \notin Values(records) THEN "CONTRADICTED"
            ELSE IF \/ ~IsInjective(answer.sources)
                    \/ ToSet(answer.sources) # Places(records) THEN "INVALID_PROVENANCE"
            ELSE "SUPPORTED"

Neutral == {"INSUFFICIENT_EVIDENCE", "CONFLICTING_EVIDENCE", "ABSTAINED"}

\* What the answers (claim ids to answers) hold for a claim of the contract.
Given(answers, claim) == IF claim \in DOMAIN answers THEN answers[claim] ELSE Missing

\* validate_claims of answers in the required format: TRUE, FALSE or None.
Bug_validate_claims(answers, claims, evidence) ==
    LET statuses == {ClaimStatus(Given(answers, c), Records(evidence, claims[c])) : c \in DOMAIN claims}
    IN IF ~(DOMAIN answers \subseteq DOMAIN claims) \/ ~(statuses \subseteq Neutral \cup {"SUPPORTED"})
         THEN "FAIL" ELSE "PASS"
validate_claims(answers, claims, evidence) ==
    LET statuses == {ClaimStatus(Given(answers, c), Records(evidence, claims[c])) : c \in DOMAIN claims}
    IN IF ~(DOMAIN answers \subseteq DOMAIN claims) \/ ~(statuses \subseteq Neutral \cup {"SUPPORTED"})
         THEN "FAIL"
       ELSE IF statuses = {"SUPPORTED"} THEN "PASS" ELSE "INCOMPLETE"

\* What it stands for: every requested claim is answered with what all the evidence
\* agrees on, citing every fact that states it exactly once, and nothing else is
\* said.  A claim may instead be left open, which proves nothing either way.
Witnessed(answer, records) ==
    /\ answer.status = "answered" /\ records # {}
    /\ \A r \in records : r.value = answer.value
    /\ Len(answer.sources) = Cardinality(records)
    /\ \A r \in records : \E i \in DOMAIN answer.sources : answer.sources[i] = r.at
ClaimsMeaning(answers, claims, evidence) ==
    LET Holds(c) == c \in DOMAIN answers /\ Witnessed(answers[c], Records(evidence, claims[c]))
        Open(c)  == c \in DOMAIN answers /\ answers[c].status = "abstained"
    IN IF \/ DOMAIN answers \ DOMAIN claims # {}
          \/ \E c \in DOMAIN claims : ~Holds(c) /\ ~Open(c) THEN "FAIL"
       ELSE IF \E c \in DOMAIN claims : Open(c) THEN "INCOMPLETE" ELSE "PASS"

-----------------------------------------------------------------------------
(* Reviews *)

\* The status of one source under a policy at a time.
Bug_ReviewStatus(item, client, policy, now) ==
    IF item.review = NoReview \/ client \notin Reviews[item.review].clients
      THEN "REVIEW_UNAVAILABLE"
    ELSE LET r == Reviews[item.review] IN
         IF item.text # r.digest               THEN "CONTENT_MISMATCH"
         ELSE IF r.decision # "APPROVED"       THEN "REJECTED"
         ELSE IF now < r.reviewed              THEN "FUTURE_REVIEW"
         ELSE IF now > r.expires               THEN "EXPIRED"
         ELSE IF now - r.observed > policy.max_age  THEN "STALE"
         ELSE IF r.class \notin policy.classes THEN "SOURCE_CLASS_DISALLOWED"
         ELSE "REVIEWED"
ReviewStatus(item, client, policy, now) ==
    IF item.review = NoReview \/ client \notin Reviews[item.review].clients
      THEN "REVIEW_UNAVAILABLE"
    ELSE LET r == Reviews[item.review] IN
         IF item.text # r.digest               THEN "CONTENT_MISMATCH"
         ELSE IF r.decision # "APPROVED"       THEN "REJECTED"
         ELSE IF now < r.reviewed              THEN "FUTURE_REVIEW"
         ELSE IF now >= r.expires              THEN "EXPIRED"
         ELSE IF now - r.observed > policy.max_age  THEN "STALE"
         ELSE IF r.class \notin policy.classes THEN "SOURCE_CLASS_DISALLOWED"
         ELSE "REVIEWED"

\* evaluate, with the request's policy alone: the sources it rests each claim or
\* field on must be reviewed, all of them, and independent in number: as many as
\* independent_count finds, which is what OriginCount's search ends with.
Passes(evidence, targets, client, policy, now) ==
    LET reviewed == {s \in DOMAIN evidence :
                       ReviewStatus(evidence[s], client, policy, now) = "REVIEWED"}
    IN /\ DOMAIN evidence # {} /\ reviewed = DOMAIN evidence
       /\ \A t \in DOMAIN targets :
             Corroboration({Reviews[evidence[s].review] : s \in targets[t] \cap reviewed})
                >= policy.min_origins
=============================================================================
