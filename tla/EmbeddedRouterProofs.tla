------------------------ MODULE EmbeddedRouterProofs ------------------------
(***************************************************************************)
(* Theorems about EmbeddedRouter for every value of its constants.         *)
(***************************************************************************)
EXTENDS EmbeddedRouter, FiniteSetTheorems, SequenceTheorems, TLAPS

-----------------------------------------------------------------------------
(* The inductive invariant: what is true of each solve's local variables   *)

SolveType ==
    [phase: Phases, request: Requests, route: Routes \cup {NoRoute},
     primary: Routes \cup {NoRoute}, tried: SUBSET Routes, answered: Nat, unanswered: Nat,
     checks: Nat, attempts: Seq(Attempted), mark: Nat, cross_check: Verdicts,
     status: Statuses, reason: Reasons]

\* The places in the log of the attempts in one role that ended in some way.
Entries(v, role, dispositions) ==
    {i \in DOMAIN v.attempts : v.attempts[i].role = role
                               /\ v.attempts[i].disposition \in dispositions}

Answered == Dispositions \ {"INFRA_FAILURE", "QUOTA_FAILURE", "CAPABILITY_MISMATCH"}

\* The log of a solve: each route once, as many entries as its counters say.
LogKept(v) ==
    /\ \A i \in DOMAIN v.attempts : v.attempts[i].route \in v.tried
    /\ \A i, j \in DOMAIN v.attempts : v.attempts[i].route = v.attempts[j].route => i = j
    /\ Cardinality(Entries(v, "PRIMARY", Answered)) = v.answered
    /\ Cardinality(Entries(v, "PRIMARY", Unanswered)) = v.unanswered
    /\ Cardinality(Entries(v, "CROSS_CHECK", Dispositions)) <= v.checks
    /\ v.answered <= MaxAttempts /\ v.unanswered <= MaxUnanswered + 1
    /\ v.checks <= MaxVerification

NoneAccepted(v) == \A i \in DOMAIN v.attempts : v.attempts[i].disposition # "ACCEPTED"

\* The answer to be cross-checked is in the log.
PrimaryLogged(v) ==
    /\ v.request = "cross_check" /\ v.primary \in Routes /\ v.cross_check = "UNAVAILABLE"
    /\ \E i \in DOMAIN v.attempts :
          /\ v.attempts[i].route = v.primary
          /\ v.attempts[i].role = "PRIMARY" /\ v.attempts[i].disposition = "ACCEPTED"

\* What CorroboratedWhenRequired asks of one solve's log.
Corroborated(v) ==
    \E i, j \in DOMAIN v.attempts :
        /\ i < j /\ v.attempts[i].role = "PRIMARY" /\ v.attempts[j].role = "CROSS_CHECK"
        /\ v.attempts[i].disposition = "ACCEPTED" /\ v.attempts[j].disposition = "ACCEPTED"
        /\ \A f \in {"provider", "model", "group"} : v.attempts[i].route[f] # v.attempts[j].route[f]

\* What ReasonFitsLog asks of one solve's log, case by case, and of its status.
ReasonFits(v) ==
    /\ v.reason = "NO_ELIGIBLE_FREE_MODELS" => v.attempts = <<>>
    /\ v.reason = "ALL_FREE_MODELS_UNAVAILABLE" =>
          ~Logged(v, {"ACCEPTED", "QUALITY_FAILURE", "UNVERIFIED"})
    /\ v.reason = "ALL_FREE_MODELS_FAILED_QUALITY" =>
          Logged(v, {"QUALITY_FAILURE"}) /\ ~Logged(v, {"UNVERIFIED"})
    /\ v.reason = "VALIDATION_SERVICE_FAILED" =>
          v.cross_check = "SERVICE_FAILED" \/ Logged(v, {"UNVERIFIED"})
    /\ StatusIsReason(v)

\* A solve may be left for the reason, as its cross-check and its log stand.
MayLeave(v, reason) ==
    /\ v.cross_check = "SERVICE_FAILED" => reason = "VALIDATION_SERVICE_FAILED"
    /\ v.cross_check = "PASSED" => reason = "QUALITY_THRESHOLD_MET"
    /\ reason \in Answers => v.cross_check \in {"NOT_RUN", "PASSED"}
    /\ reason = "VALIDATION_SERVICE_FAILED" =>
          v.cross_check = "SERVICE_FAILED" \/ Logged(v, {"UNVERIFIED"})
    /\ reason # "QUOTA_LEDGER_UNAVAILABLE"

Searching(v) == NoneAccepted(v) /\ WithinBudgets(v)

Verifying(v) ==
    PrimaryLogged(v) /\ Cardinality(Entries(v, "CROSS_CHECK", Dispositions)) < v.checks

\* What is true of the local variables v of every solve, phase by phase.
SolveInv(v) ==
    /\ v \in SolveType
    /\ LogKept(v)
    /\ v.phase # "done" => v.status = "NONE" /\ v.reason = "NO_ELIGIBLE_FREE_MODELS"
    /\ v.phase \notin {"choosing", "verifying", "done"} => v.cross_check = "NOT_RUN"
    /\ v.phase = "new" => v = Fresh
    /\ v.phase \in {"selecting", "calling"} => Searching(v)
    /\ v.phase \in {"choosing", "verifying"} => Verifying(v)
    /\ v.phase \in {"calling", "verifying"} => v.route \in Routes \ v.tried
    /\ v.phase = "verifying" => Independent(v.primary, v.route)
    /\ v.phase = "done" =>
          /\ v.request = "cross_check" /\ Given(v) => Corroborated(v)
          /\ ReasonFits(v)

-----------------------------------------------------------------------------
(* Operators that leave the log of a solve alone *)

SameWork(w, v) ==
    /\ w.attempts = v.attempts /\ w.tried = v.tried /\ w.request = v.request
    /\ w.answered = v.answered /\ w.unanswered = v.unanswered /\ w.checks = v.checks

\* Settings are whole numbers, and some attempts are allowed.
LEMMA SettingFacts ==
    /\ MaxAttempts \in Nat \ {0} /\ MaxUnanswered \in Nat /\ MaxVerification \in Nat \ {0}
    /\ MaxLedgerFailures \in Nat /\ NoRoute \notin Routes /\ IsFiniteSet(Routes)
  BY RouterAssumption

\* A log is finite.
LEMMA EntriesFinite ==
    ASSUME NEW v \in SolveType, NEW role, NEW D
    PROVE  /\ v.attempts \in Seq(Attempted) /\ Len(v.attempts) \in Nat
           /\ DOMAIN v.attempts = 1..Len(v.attempts)
           /\ IsFiniteSet(Entries(v, role, D)) /\ Cardinality(Entries(v, role, D)) \in Nat
  <1>1. v.attempts \in Seq(Attempted)
    BY DEF SolveType
  <1>2. Len(v.attempts) \in Nat /\ DOMAIN v.attempts = 1..Len(v.attempts)
    BY <1>1, LenProperties
  <1>3. Entries(v, role, D) \in SUBSET (1..Len(v.attempts))
    BY <1>2 DEF Entries
  <1>4. IsFiniteSet(1..Len(v.attempts))
    BY <1>2, FS_Interval
  <1>5. IsFiniteSet(Entries(v, role, D))
    BY <1>3, <1>4, FS_Subset
  <1>6. QED  BY <1>1, <1>2, <1>5, FS_CardinalityType

\* What is said of a log is said of every solve with the same log.
LEMMA SameLog ==
    ASSUME NEW v, NEW w, SameWork(w, v)
    PROVE  /\ LogKept(v) => LogKept(w)
           /\ NoneAccepted(w) <=> NoneAccepted(v)
           /\ Corroborated(w) <=> Corroborated(v)
           /\ WithinBudgets(w) <=> WithinBudgets(v)
  <1>1. \A role, D : Entries(w, role, D) = Entries(v, role, D)
    BY DEF SameWork, Entries
  <1>2. LogKept(v) => LogKept(w)
    BY <1>1 DEF SameWork, LogKept
  <1>3. /\ NoneAccepted(w) <=> NoneAccepted(v)
        /\ Corroborated(w) <=> Corroborated(v)
        /\ WithinBudgets(w) <=> WithinBudgets(v)
    BY DEF SameWork, NoneAccepted, Corroborated, WithinBudgets
  <1>4. QED  BY <1>2, <1>3

\* The reason reported when the loop is left without one.
LEMMA FinalReasonFits ==
    ASSUME NEW v \in SolveType
    PROVE  /\ FinalReason(v) \in Reasons
           /\ v.reason # "NO_ELIGIBLE_FREE_MODELS" => FinalReason(v) = v.reason
           /\ v.reason = "NO_ELIGIBLE_FREE_MODELS" =>
                FinalReason(v) \notin Answers \cup FailedReasons
           /\ FinalReason(v) = "NO_ELIGIBLE_FREE_MODELS" => v.attempts = <<>>
           /\ v.reason = "NO_ELIGIBLE_FREE_MODELS" /\ NoneAccepted(v)
                /\ FinalReason(v) = "ALL_FREE_MODELS_UNAVAILABLE" =>
                ~Logged(v, {"ACCEPTED", "QUALITY_FAILURE", "UNVERIFIED"})
           /\ v.reason = "NO_ELIGIBLE_FREE_MODELS"
                /\ FinalReason(v) = "ALL_FREE_MODELS_FAILED_QUALITY" =>
                Logged(v, {"QUALITY_FAILURE"}) /\ ~Logged(v, {"UNVERIFIED"})
  <1>1. v.reason \in Reasons
    BY DEF SolveType
  <1>2. FinalReason(v) =
          IF v.reason # "NO_ELIGIBLE_FREE_MODELS" \/ v.attempts = <<>> THEN v.reason
          ELSE IF Logged(v, {"UNVERIFIED"}) THEN "QUALITY_VERIFICATION_UNAVAILABLE"
          ELSE IF Logged(v, {"QUALITY_FAILURE"}) THEN "ALL_FREE_MODELS_FAILED_QUALITY"
          ELSE "ALL_FREE_MODELS_UNAVAILABLE"
    BY DEF FinalReason
  <1>3. NoneAccepted(v) /\ ~Logged(v, {"UNVERIFIED"}) /\ ~Logged(v, {"QUALITY_FAILURE"}) =>
          ~Logged(v, {"ACCEPTED", "QUALITY_FAILURE", "UNVERIFIED"})
    BY DEF NoneAccepted, Logged
  <1>4. QED  BY <1>1, <1>2, <1>3 DEF Reasons, Answers, FailedReasons

\* The response of a solve that leaves the loop.
LEMMA ReturnedFields ==
    ASSUME NEW v \in SolveType
    PROVE  LET w == Returned(v) IN
           /\ w \in SolveType /\ SameWork(w, v) /\ w.phase = "done"
           /\ Given(w) => v.reason \in Answers
           /\ w.reason \in {"QUOTA_LEDGER_UNAVAILABLE", FinalReason(v)}
           /\ w.cross_check = v.cross_check
           /\ MayLeave(v, v.reason) => StatusIsReason(w)
  <1> DEFINE answer == v.reason \in Answers
             blamed == ~answer /\ ledger_failures > v.mark
             failed == v.reason = "VALIDATION_SERVICE_FAILED"
             reason == IF blamed THEN "QUOTA_LEDGER_UNAVAILABLE"
                       ELSE IF answer THEN v.reason ELSE FinalReason(v)
             status == IF blamed \/ failed \/ v.reason = "ROUTER_INTERNAL_ERROR" THEN "FAILED"
                       ELSE IF v.reason = "RETURNED_WITHOUT_VERIFICATION"
                         THEN "ACCEPTED_UNVERIFIED"
                       ELSE IF answer THEN "ACCEPTED" ELSE "ESCALATION_REQUIRED"
             w == [v EXCEPT !.phase = "done", !.route = NoRoute, !.status = status,
                            !.reason = reason]
  <1>1. Returned(v) = w
    BY DEF Returned
  <1>2. answer => v.reason = FinalReason(v)
    BY FinalReasonFits DEF Answers
  <1>3. reason \in {"QUOTA_LEDGER_UNAVAILABLE", FinalReason(v)}
    BY <1>2
  <1>4. reason \in Reasons
    BY <1>3, FinalReasonFits DEF Reasons
  <1>5. status \in Statuses
    BY DEF Statuses
  <1>6. status \in {"ACCEPTED", "ACCEPTED_UNVERIFIED"} => v.reason \in Answers
    BY DEF Answers
  <1>10. MayLeave(v, v.reason) =>
           /\ status = "FAILED" <=> reason \in FailedReasons
           /\ v.cross_check = "SERVICE_FAILED" => status = "FAILED"
           /\ status \in {"ACCEPTED", "ACCEPTED_UNVERIFIED"} =>
                v.cross_check \in {"NOT_RUN", "PASSED"}
           /\ v.cross_check = "PASSED" => status = "ACCEPTED"
    <2> SUFFICES ASSUME MayLeave(v, v.reason)
                 PROVE  /\ status = "FAILED" <=> reason \in FailedReasons
                        /\ v.cross_check = "SERVICE_FAILED" => status = "FAILED"
                        /\ v.cross_check = "PASSED" => status = "ACCEPTED"
      BY <1>6 DEF MayLeave
    <2>1. v.reason \notin FailedReasons \/ answer \/ failed
          \/ v.reason = "ROUTER_INTERNAL_ERROR"
      BY DEF MayLeave, FailedReasons
    <2>2. answer => v.reason \notin FailedReasons
      BY DEF Answers, FailedReasons
    <2>3. ~answer => (FinalReason(v) \in FailedReasons <=> v.reason \in FailedReasons)
      BY FinalReasonFits DEF FailedReasons
    <2>4. "QUOTA_LEDGER_UNAVAILABLE" \in FailedReasons
          /\ (failed \/ v.reason = "ROUTER_INTERNAL_ERROR" => v.reason \in FailedReasons)
      BY DEF FailedReasons
    <2>5. status = "FAILED" <=> reason \in FailedReasons
      BY <2>1, <2>2, <2>3, <2>4
    <2>6. v.cross_check = "SERVICE_FAILED" => status = "FAILED"
      BY DEF MayLeave
    <2>7. v.cross_check = "PASSED" => status = "ACCEPTED"
      BY DEF MayLeave, Answers
    <2>8. QED  BY <2>5, <2>6, <2>7
  <1> HIDE DEF reason, status
  <1>7. w \in SolveType
    BY <1>4, <1>5 DEF SolveType, Phases
  <1>8. w.phase = "done" /\ w.status = status /\ w.reason = reason /\ SameWork(w, v)
        /\ w.cross_check = v.cross_check
    BY DEF SolveType, SameWork
  <1> HIDE DEF w
  <1>11. MayLeave(v, v.reason) => StatusIsReason(w)
    BY <1>8, <1>10 DEF StatusIsReason, Given
  <1>9. QED  BY <1>1, <1>3, <1>6, <1>7, <1>8, <1>11 DEF Given

\* A solve left for a reason of its own is done, and its log bears it out.
LEMMA LeaveDone ==
    ASSUME NEW v \in SolveType, LogKept(v),
           NEW reason \in Reasons \ {"NO_ELIGIBLE_FREE_MODELS", "ALL_FREE_MODELS_UNAVAILABLE",
                                     "ALL_FREE_MODELS_FAILED_QUALITY"},
           v.request = "cross_check" /\ reason \in Answers => Corroborated(v),
           MayLeave(v, reason)
    PROVE  /\ SolveInv(Leave(v, reason))
           /\ Given(Leave(v, reason)) => reason \in Answers
  <1> DEFINE u == [v EXCEPT !.reason = reason]
             w == Returned(u)
  <1>1. u \in SolveType /\ u.reason = reason /\ SameWork(u, v)
        /\ u.cross_check = v.cross_check
    BY DEF SolveType, SameWork
  <1>2. Leave(v, reason) = w
    BY DEF Leave
  <1> HIDE DEF u
  <1>3. /\ w \in SolveType /\ SameWork(w, u) /\ w.phase = "done"
        /\ Given(w) => u.reason \in Answers
        /\ w.reason \in {"QUOTA_LEDGER_UNAVAILABLE", FinalReason(u)}
        /\ w.cross_check = u.cross_check
        /\ MayLeave(u, u.reason) => StatusIsReason(w)
    BY <1>1, ReturnedFields
  <1>4. FinalReason(u) = reason
    BY <1>1, FinalReasonFits
  <1> HIDE DEF w
  <1>5. SameWork(w, v)
    BY <1>1, <1>3 DEF SameWork
  <1>6. LogKept(w) /\ (Corroborated(w) <=> Corroborated(v))
    BY <1>5, SameLog
  <1>7. ReasonFits(w)
    <2>1. \A D : Logged(w, D) <=> Logged(v, D)
      BY <1>5 DEF SameWork, Logged
    <2>2. MayLeave(u, u.reason)
      BY <1>1 DEF MayLeave, SameWork, Logged
    <2>3. QED  BY <1>1, <1>3, <1>4, <2>1, <2>2 DEF ReasonFits, MayLeave
  <1>8. w.request = v.request
    BY <1>5 DEF SameWork
  <1>9. QED  BY <1>1, <1>2, <1>3, <1>6, <1>7, <1>8 DEF SolveInv

\* A solve that runs out of routes or budget is done without an answer.
LEMMA ReturnedDone ==
    ASSUME NEW v \in SolveType, LogKept(v), NoneAccepted(v),
           v.reason = "NO_ELIGIBLE_FREE_MODELS", v.cross_check = "NOT_RUN"
    PROVE  SolveInv(Returned(v)) /\ ~Given(Returned(v))
  <1> DEFINE w == Returned(v)
  <1>1. /\ w \in SolveType /\ SameWork(w, v) /\ w.phase = "done"
        /\ Given(w) => v.reason \in Answers
        /\ w.reason \in {"QUOTA_LEDGER_UNAVAILABLE", FinalReason(v)}
        /\ MayLeave(v, v.reason) => StatusIsReason(w)
    BY ReturnedFields
  <1> HIDE DEF w
  <1>2. LogKept(w) /\ ~Given(w)
    BY <1>1, SameLog DEF Answers
  <1>3. w.attempts = v.attempts /\ (\A D : Logged(w, D) <=> Logged(v, D))
    BY <1>1 DEF SameWork, Logged
  <1>4. ReasonFits(w)
    <2>1. MayLeave(v, v.reason)
      BY DEF MayLeave, Answers
    <2>2. w.reason # "VALIDATION_SERVICE_FAILED"
      BY <1>1, FinalReasonFits DEF FailedReasons
    <2>3. QED  BY <1>1, <1>3, <2>1, <2>2, FinalReasonFits DEF ReasonFits
  <1>5. QED  BY <1>1, <1>2, <1>4 DEF SolveInv, w

\* The top of the loop: on to the selection, or back to the caller unanswered.
LEMMA LoopedGood ==
    ASSUME NEW v \in SolveType, LogKept(v), NoneAccepted(v),
           v.reason = "NO_ELIGIBLE_FREE_MODELS", v.status = "NONE", v.cross_check = "NOT_RUN"
    PROVE  SolveInv(Looped(v)) /\ ~Given(Looped(v))
  <1>1. CASE ~WithinBudgets(v)
    BY <1>1, ReturnedDone DEF Looped
  <1>2. CASE WithinBudgets(v) /\ stopped
    <2>1. "SYSTEM_STOPPED" \in Reasons \ {"NO_ELIGIBLE_FREE_MODELS",
             "ALL_FREE_MODELS_UNAVAILABLE", "ALL_FREE_MODELS_FAILED_QUALITY"}
          /\ "SYSTEM_STOPPED" \notin Answers /\ MayLeave(v, "SYSTEM_STOPPED")
      BY DEF Reasons, Answers, MayLeave
    <2>2. Looped(v) = Leave(v, "SYSTEM_STOPPED")
      BY <1>2 DEF Looped
    <2>3. QED  BY <2>1, <2>2, LeaveDone
  <1>3. CASE WithinBudgets(v) /\ ~stopped
    <2> DEFINE w == [v EXCEPT !.phase = "selecting", !.route = NoRoute]
    <2>1. w \in SolveType /\ w.phase = "selecting" /\ SameWork(w, v) /\ w.reason = v.reason
          /\ w.status = v.status /\ w.cross_check = v.cross_check
      BY DEF SolveType, Phases, SameWork
    <2>2. Looped(v) = w
      BY <1>3 DEF Looped
    <2> HIDE DEF w
    <2>3. LogKept(w) /\ Searching(w)
      BY <1>3, <2>1, SameLog DEF Searching
    <2>4. QED  BY <2>1, <2>2, <2>3 DEF SolveInv, Given
  <1>4. QED  BY <1>1, <1>2, <1>3

\* The top of _cross_check's loop, likewise.
LEMMA CheckingGood ==
    ASSUME NEW v \in SolveType, LogKept(v), PrimaryLogged(v),
           v.reason = "NO_ELIGIBLE_FREE_MODELS", v.status = "NONE"
    PROVE  SolveInv(Checking(v)) /\ ~Given(Checking(v))
  <1>1. /\ {"SYSTEM_STOPPED", "INDEPENDENT_VERIFIER_UNAVAILABLE"} \subseteq
             Reasons \ {"NO_ELIGIBLE_FREE_MODELS", "ALL_FREE_MODELS_UNAVAILABLE",
                        "ALL_FREE_MODELS_FAILED_QUALITY"}
        /\ "SYSTEM_STOPPED" \notin Answers
        /\ "INDEPENDENT_VERIFIER_UNAVAILABLE" \notin Answers
        /\ MayLeave(v, "INDEPENDENT_VERIFIER_UNAVAILABLE")
    BY DEF Reasons, Answers, MayLeave, PrimaryLogged
  <1>2. CASE v.checks = MaxVerification
    BY <1>1, <1>2, LeaveDone DEF Checking
  <1>3. CASE v.checks # MaxVerification /\ stopped
    <2> DEFINE u == [v EXCEPT !.cross_check = "STOPPED"]
    <2>1. u \in SolveType /\ SameWork(u, v) /\ u.cross_check = "STOPPED"
      BY DEF SolveType, Verdicts, SameWork
    <2>2. Checking(v) = Leave(u, "SYSTEM_STOPPED")
      BY <1>3 DEF Checking
    <2> HIDE DEF u
    <2>3. LogKept(u) /\ MayLeave(u, "SYSTEM_STOPPED")
      BY <2>1, SameLog DEF MayLeave, Answers
    <2>4. QED  BY <1>1, <2>1, <2>2, <2>3, LeaveDone
  <1>4. CASE v.checks # MaxVerification /\ ~stopped
    <2> DEFINE n == v.checks + 1
               w == [v EXCEPT !.phase = "choosing", !.checks = n]
    <2>1. v.checks \in Nat /\ n \in Nat
      BY DEF SolveType
    <2>2. Checking(v) = w
      BY <1>4 DEF Checking, SolveType
    <2>3. n = v.checks + 1
      OBVIOUS
    <2> HIDE DEF n
    <2>4. w \in SolveType
      BY <2>1 DEF SolveType, Phases
    <2>5. /\ w.phase = "choosing" /\ w.checks = n /\ w.attempts = v.attempts
          /\ w.tried = v.tried /\ w.answered = v.answered /\ w.unanswered = v.unanswered
          /\ w.reason = v.reason /\ w.status = v.status /\ w.request = v.request
          /\ w.cross_check = v.cross_check
          /\ w.primary = v.primary
      BY DEF SolveType
    <2> HIDE DEF w
    <2>6. \A role, D : Entries(w, role, D) = Entries(v, role, D)
      BY <2>5 DEF Entries
    <2>7. Cardinality(Entries(v, "CROSS_CHECK", Dispositions)) \in Nat
      BY EntriesFinite
    <2>8. LogKept(w) /\ Verifying(w)
      <3>1. v.checks <= MaxVerification
            /\ Cardinality(Entries(v, "CROSS_CHECK", Dispositions)) <= v.checks
        BY DEF LogKept
      <3>2. n <= MaxVerification /\ Cardinality(Entries(v, "CROSS_CHECK", Dispositions)) < n
        BY <1>4, <2>1, <2>3, <2>7, <3>1, SettingFacts
      <3>3. Cardinality(Entries(v, "CROSS_CHECK", Dispositions)) <= n
        BY <2>1, <2>7, <3>2
      <3>4. QED
        BY <2>5, <2>6, <3>2, <3>3 DEF LogKept, Verifying, PrimaryLogged
    <2>9. QED  BY <2>2, <2>4, <2>5, <2>8 DEF SolveInv, Given
  <1>5. QED  BY <1>2, <1>3, <1>4

-----------------------------------------------------------------------------
(* Operators that change the log *)

\* A route that lost its race is not tried again.
LEMMA TriedAgainKept ==
    ASSUME NEW v \in SolveType, LogKept(v), NEW r \in Routes
    PROVE  LET w == TriedAgain(v, r) IN
           /\ w \in SolveType /\ LogKept(w)
           /\ NoneAccepted(w) <=> NoneAccepted(v)
           /\ PrimaryLogged(w) <=> PrimaryLogged(v)
           /\ w.reason = v.reason /\ w.status = v.status /\ w.request = v.request
           /\ w.cross_check = v.cross_check
  <1> DEFINE n == v.tried \cup {r}
             w == [v EXCEPT !.tried = n]
  <1>1. n \in SUBSET Routes /\ TriedAgain(v, r) = w
    BY DEF SolveType, TriedAgain
  <1>2. v.tried \subseteq n
    OBVIOUS
  <1> HIDE DEF n
  <1>3. w \in SolveType
    BY <1>1 DEF SolveType
  <1>4. /\ w.tried = n /\ w.attempts = v.attempts /\ w.answered = v.answered
        /\ w.unanswered = v.unanswered /\ w.checks = v.checks
        /\ w.reason = v.reason /\ w.status = v.status /\ w.request = v.request
        /\ w.cross_check = v.cross_check
        /\ w.primary = v.primary
    BY DEF SolveType
  <1> HIDE DEF w
  <1>5. \A role, D : Entries(w, role, D) = Entries(v, role, D)
    BY <1>4 DEF Entries
  <1>6. LogKept(w)
    BY <1>2, <1>4, <1>5 DEF LogKept
  <1>7. /\ NoneAccepted(w) <=> NoneAccepted(v)
        /\ PrimaryLogged(w) <=> PrimaryLogged(v)
    BY <1>4 DEF NoneAccepted, PrimaryLogged
  <1>8. QED  BY <1>1, <1>3, <1>4, <1>6, <1>7

\* An attempt's ending has a disposition.
LEMMA DispositionType ==
    ASSUME NEW ending \in Endings
    PROVE  /\ Disposition(ending) \in Dispositions
           /\ Disposition(ending) = "ACCEPTED" <=> ending = "ACCEPTED"
  BY DEF Disposition, Endings, Dispositions

\* w is v with an attempt recorded at the end of its log.
Recorded(w, v, r, ending, role) ==
    LET n == Len(v.attempts) + 1 IN
    /\ w \in SolveType
    /\ w.tried = v.tried \cup {r}
    /\ w.answered = v.answered /\ w.unanswered = v.unanswered /\ w.checks = v.checks
    /\ w.reason = v.reason /\ w.status = v.status /\ w.request = v.request
    /\ w.cross_check = v.cross_check
    /\ w.primary = v.primary /\ w.route = v.route
    /\ n \in Nat /\ n \notin DOMAIN v.attempts
    /\ DOMAIN w.attempts = DOMAIN v.attempts \cup {n}
    /\ \A i \in DOMAIN v.attempts : w.attempts[i] = v.attempts[i] /\ i < n
    /\ w.attempts[n] = [route |-> r, disposition |-> Disposition(ending), role |-> role]

\* What the log holds once an attempt is recorded.
LEMMA RecordFields ==
    ASSUME NEW v \in SolveType, NEW r \in Routes, NEW ending \in Endings, NEW role \in Roles
    PROVE  Recorded(Record(v, r, ending, role), v, r, ending, role)
  <1> DEFINE e == [route |-> r, disposition |-> Disposition(ending), role |-> role]
             d == v.tried \cup {r}
             q == Append(v.attempts, e)
             x == [v EXCEPT !.tried = d, !.attempts = q]
             n == Len(v.attempts) + 1
  <1>1. e \in Attempted
    BY DispositionType DEF Attempted
  <1>2. d \in SUBSET Routes
    BY DEF SolveType
  <1>3. Record(v, r, ending, role) = x
    BY DEF Record, SolveType
  <1>4. /\ v.attempts \in Seq(Attempted) /\ Len(v.attempts) \in Nat
        /\ DOMAIN v.attempts = 1..Len(v.attempts)
    BY EntriesFinite
  <1>5. e = [route |-> r, disposition |-> Disposition(ending), role |-> role]
    OBVIOUS
  <1> HIDE DEF e
  <1>6. /\ q \in Seq(Attempted) /\ Len(q) = n /\ DOMAIN q = 1..n
        /\ \A i \in 1..Len(v.attempts) : q[i] = v.attempts[i]
        /\ q[n] = e
    BY <1>1, <1>4, AppendProperties, LenProperties
  <1>7. /\ n \in Nat /\ n \notin DOMAIN v.attempts /\ 1..n = DOMAIN v.attempts \cup {n}
        /\ \A i \in DOMAIN v.attempts : i < n
    BY <1>4
  <1> HIDE DEF q, d, n
  <1>8. x \in SolveType
    BY <1>2, <1>6 DEF SolveType
  <1>9. /\ x.tried = d /\ x.attempts = q
        /\ x.answered = v.answered /\ x.unanswered = v.unanswered /\ x.checks = v.checks
        /\ x.reason = v.reason /\ x.status = v.status /\ x.request = v.request
        /\ x.cross_check = v.cross_check
        /\ x.primary = v.primary /\ x.route = v.route
    BY DEF SolveType
  <1> HIDE DEF x
  <1>10. QED  BY <1>3, <1>4, <1>5, <1>6, <1>7, <1>8, <1>9
       DEF Recorded, d, n

\* The entries of one role and kind, once an attempt is recorded.
LEMMA RecordEntries ==
    ASSUME NEW v \in SolveType, NEW r \in Routes, NEW ending \in Endings, NEW role \in Roles,
           NEW role2, NEW D
    PROVE  LET w == Record(v, r, ending, role) IN
           Cardinality(Entries(w, role2, D)) =
             IF role = role2 /\ Disposition(ending) \in D
               THEN Cardinality(Entries(v, role2, D)) + 1
               ELSE Cardinality(Entries(v, role2, D))
  <1> DEFINE w == Record(v, r, ending, role)
             n == Len(v.attempts) + 1
  <1>0. Recorded(w, v, r, ending, role)
    BY RecordFields
  <1> HIDE DEF w
  <1>1. /\ n \notin DOMAIN v.attempts
        /\ DOMAIN w.attempts = DOMAIN v.attempts \cup {n}
        /\ \A i \in DOMAIN v.attempts : w.attempts[i] = v.attempts[i]
        /\ w.attempts[n].role = role /\ w.attempts[n].disposition = Disposition(ending)
    BY <1>0 DEF Recorded
  <1> HIDE DEF n
  <1>2. Entries(w, role2, D) = IF role = role2 /\ Disposition(ending) \in D
                                 THEN Entries(v, role2, D) \cup {n} ELSE Entries(v, role2, D)
    BY <1>1 DEF Entries
  <1>3. n \notin Entries(v, role2, D)
    BY <1>1 DEF Entries
  <1>4. IsFiniteSet(Entries(v, role2, D)) /\ Cardinality(Entries(v, role2, D)) \in Nat
    BY EntriesFinite
  <1>5. Cardinality(Entries(v, role2, D) \cup {n}) = Cardinality(Entries(v, role2, D)) + 1
    BY <1>3, <1>4, FS_AddElement
  <1>6. QED  BY <1>2, <1>5 DEF w

\* The routes of a log with a new one recorded.
LEMMA RecordRoutes ==
    ASSUME NEW v \in SolveType, LogKept(v), NEW r \in Routes \ v.tried, NEW ending \in Endings,
           NEW role \in Roles
    PROVE  LET w == Record(v, r, ending, role) IN
           /\ \A i \in DOMAIN w.attempts : w.attempts[i].route \in w.tried
           /\ \A i, j \in DOMAIN w.attempts : w.attempts[i].route = w.attempts[j].route => i = j
  <1> DEFINE w == Record(v, r, ending, role)
             n == Len(v.attempts) + 1
  <1>0. Recorded(w, v, r, ending, role)
    BY RecordFields
  <1> HIDE DEF w
  <1>1. /\ w.tried = v.tried \cup {r}
        /\ n \notin DOMAIN v.attempts
        /\ DOMAIN w.attempts = DOMAIN v.attempts \cup {n}
        /\ \A i \in DOMAIN v.attempts : w.attempts[i] = v.attempts[i]
        /\ w.attempts[n].route = r
    BY <1>0 DEF Recorded
  <1> HIDE DEF n
  <1>2. QED  BY <1>1 DEF LogKept, w

\* A primary attempt recorded and charged to its budget.
LEMMA ChargedKept ==
    ASSUME NEW v \in SolveType, LogKept(v), WithinBudgets(v), NEW r \in Routes \ v.tried,
           NEW ending \in Endings
    PROVE  LET w == Charged(Record(v, r, ending, "PRIMARY"), Disposition(ending)) IN
           /\ w \in SolveType /\ LogKept(w)
           /\ w.attempts = Record(v, r, ending, "PRIMARY").attempts
           /\ w.reason = v.reason /\ w.status = v.status /\ w.request = v.request
           /\ w.cross_check = v.cross_check
           /\ w.route = v.route
  <1> DEFINE d == Disposition(ending)
             u == Record(v, r, ending, "PRIMARY")
             w == Charged(u, d)
             plus == u.answered + 1
             minus == u.unanswered + 1
  <1>0. "PRIMARY" \in Roles /\ Recorded(u, v, r, ending, "PRIMARY") 
    BY RecordFields DEF Roles
  <1>1. d \in Dispositions /\ "PRIMARY" \in Roles
    BY <1>0, DispositionType
  <1> HIDE DEF u
  <1>2. /\ u \in SolveType
        /\ u.answered = v.answered /\ u.unanswered = v.unanswered /\ u.checks = v.checks
        /\ u.reason = v.reason /\ u.status = v.status /\ u.request = v.request
        /\ u.cross_check = v.cross_check
        /\ u.route = v.route
    BY <1>0 DEF Recorded
  <1>3. /\ Cardinality(Entries(u, "PRIMARY", Answered)) =
             IF d \in Answered THEN Cardinality(Entries(v, "PRIMARY", Answered)) + 1
                               ELSE Cardinality(Entries(v, "PRIMARY", Answered))
        /\ Cardinality(Entries(u, "PRIMARY", Unanswered)) =
             IF d \in Unanswered THEN Cardinality(Entries(v, "PRIMARY", Unanswered)) + 1
                                 ELSE Cardinality(Entries(v, "PRIMARY", Unanswered))
        /\ Cardinality(Entries(u, "CROSS_CHECK", Dispositions)) =
             Cardinality(Entries(v, "CROSS_CHECK", Dispositions))
    BY <1>1, RecordEntries DEF u
  <1>4. /\ \A i \in DOMAIN u.attempts : u.attempts[i].route \in u.tried
        /\ \A i, j \in DOMAIN u.attempts : u.attempts[i].route = u.attempts[j].route => i = j
    BY <1>1, RecordRoutes DEF u
  <1>5. /\ d \in Unanswered => d \notin Answered
        /\ d = "CAPABILITY_MISMATCH" => d \notin Answered
        /\ d \notin Unanswered /\ d # "CAPABILITY_MISMATCH" => d \in Answered
    BY <1>1 DEF Unanswered, Answered
  <1>6. /\ Cardinality(Entries(v, "PRIMARY", Answered)) = v.answered
        /\ Cardinality(Entries(v, "PRIMARY", Unanswered)) = v.unanswered
        /\ Cardinality(Entries(v, "CROSS_CHECK", Dispositions)) <= v.checks
        /\ v.answered \in Nat /\ v.unanswered \in Nat /\ v.checks \in Nat
        /\ v.answered < MaxAttempts /\ v.unanswered <= MaxUnanswered /\ v.checks <= MaxVerification
    BY DEF LogKept, WithinBudgets, SolveType
  <1>7. /\ plus = v.answered + 1 /\ minus = v.unanswered + 1 /\ plus \in Nat /\ minus \in Nat
        /\ plus <= MaxAttempts /\ minus <= MaxUnanswered + 1
        /\ v.answered <= MaxAttempts /\ v.unanswered <= MaxUnanswered + 1
    BY <1>2, <1>6, SettingFacts
  <1> DEFINE a == [u EXCEPT !.unanswered = minus]
             b == [u EXCEPT !.answered = plus]
  <1>8. w = IF d \in Unanswered THEN a ELSE IF d # "CAPABILITY_MISMATCH" THEN b ELSE u
    BY <1>2 DEF Charged, SolveType
  <1> HIDE DEF d, plus, minus
  <1>9. /\ a \in SolveType /\ a.unanswered = minus /\ a.answered = u.answered
        /\ a.checks = u.checks /\ a.attempts = u.attempts /\ a.tried = u.tried
        /\ a.reason = u.reason /\ a.status = u.status /\ a.request = u.request
        /\ a.cross_check = u.cross_check
        /\ a.route = u.route
    BY <1>2, <1>7 DEF SolveType
  <1>10. /\ b \in SolveType /\ b.unanswered = u.unanswered /\ b.answered = plus
         /\ b.checks = u.checks /\ b.attempts = u.attempts /\ b.tried = u.tried
         /\ b.reason = u.reason /\ b.status = u.status /\ b.request = u.request
         /\ b.cross_check = u.cross_check
         /\ b.route = u.route
    BY <1>2, <1>7 DEF SolveType
  <1> HIDE DEF a, b, w
  <1>11. /\ w \in SolveType /\ w.checks = u.checks /\ w.attempts = u.attempts
         /\ w.tried = u.tried /\ w.reason = u.reason /\ w.status = u.status
         /\ w.cross_check = u.cross_check
         /\ w.request = u.request /\ w.route = u.route
         /\ w.unanswered = IF d \in Unanswered THEN minus ELSE u.unanswered
         /\ w.answered = IF d \in Answered THEN plus ELSE u.answered
    BY <1>2, <1>5, <1>8, <1>9, <1>10
  <1>12. \A role, D : Entries(w, role, D) = Entries(u, role, D)
    BY <1>11 DEF Entries
  <1>13. LogKept(w)
    BY <1>2, <1>3, <1>4, <1>6, <1>7, <1>11, <1>12 DEF LogKept
  <1>14. QED  BY <1>2, <1>11, <1>13 DEF w, u, d

\* A verifier's attempt recorded: one of the checks the solve has begun.
LEMMA VerifierRecorded ==
    ASSUME NEW v \in SolveType, LogKept(v), Verifying(v), NEW ending \in Endings,
           v.route \in Routes \ v.tried, Independent(v.primary, v.route)
    PROVE  LET w == Record(v, v.route, ending, "CROSS_CHECK") IN
           /\ w \in SolveType /\ LogKept(w) /\ PrimaryLogged(w)
           /\ w.reason = v.reason /\ w.status = v.status /\ w.cross_check = v.cross_check
           /\ ending = "ACCEPTED" => Corroborated(w)
  <1> DEFINE w == Record(v, v.route, ending, "CROSS_CHECK")
             n == Len(v.attempts) + 1
             d == Disposition(ending)
  <1>1. "CROSS_CHECK" \in Roles /\ "CROSS_CHECK" # "PRIMARY" /\ d \in Dispositions
    BY DispositionType DEF Roles
  <1>2. Recorded(w, v, v.route, ending, "CROSS_CHECK")
    BY <1>1, RecordFields
  <1>3. /\ \A i \in DOMAIN w.attempts : w.attempts[i].route \in w.tried
        /\ \A i, j \in DOMAIN w.attempts : w.attempts[i].route = w.attempts[j].route => i = j
    BY <1>1, RecordRoutes
  <1>4. /\ \A D : Cardinality(Entries(w, "PRIMARY", D)) = Cardinality(Entries(v, "PRIMARY", D))
        /\ Cardinality(Entries(w, "CROSS_CHECK", Dispositions)) =
             Cardinality(Entries(v, "CROSS_CHECK", Dispositions)) + 1
    BY <1>1, RecordEntries
  <1> HIDE DEF w
  <1>5. /\ w \in SolveType /\ w.answered = v.answered /\ w.unanswered = v.unanswered
        /\ w.checks = v.checks /\ w.reason = v.reason /\ w.status = v.status
        /\ w.cross_check = v.cross_check
        /\ w.request = v.request /\ w.primary = v.primary
        /\ n \notin DOMAIN v.attempts /\ DOMAIN w.attempts = DOMAIN v.attempts \cup {n}
        /\ \A i \in DOMAIN v.attempts : w.attempts[i] = v.attempts[i] /\ i < n
        /\ w.attempts[n].route = v.route /\ w.attempts[n].role = "CROSS_CHECK"
        /\ w.attempts[n].disposition = d
    BY <1>2 DEF Recorded
  <1>6. Cardinality(Entries(v, "CROSS_CHECK", Dispositions)) \in Nat /\ v.checks \in Nat
    BY EntriesFinite DEF SolveType
  <1>7. Cardinality(Entries(w, "CROSS_CHECK", Dispositions)) <= w.checks
    BY <1>4, <1>5, <1>6 DEF Verifying
  <1>8. LogKept(w)
    BY <1>3, <1>4, <1>5, <1>7 DEF LogKept
  <1> HIDE DEF n, d
  <1>9. PICK i \in DOMAIN v.attempts :
          /\ v.attempts[i].route = v.primary
          /\ v.attempts[i].role = "PRIMARY" /\ v.attempts[i].disposition = "ACCEPTED"
    BY DEF Verifying, PrimaryLogged
  <1>10. PrimaryLogged(w)
    BY <1>5, <1>9 DEF Verifying, PrimaryLogged
  <1>11. ending = "ACCEPTED" => d = "ACCEPTED"
    BY DispositionType DEF d
  <1>12. \A f \in {"provider", "model", "group"} : v.primary[f] # v.route[f]
    BY DEF Independent
  <1>13. d = "ACCEPTED" => Corroborated(w)
    BY <1>5, <1>9, <1>12 DEF Corroborated
  <1>14. QED  BY <1>5, <1>8, <1>10, <1>11, <1>13 DEF w

-----------------------------------------------------------------------------
(* The steps of one solve *)

RouterInv ==
    /\ stopped \in BOOLEAN
    /\ ledger_failures \in 0..MaxLedgerFailures
    /\ solve \in [Solves -> SolveType]
    /\ \A s \in Solves : SolveInv(solve[s])

\* A step leaves a solve in order, and answers only while the router is not stopped.
Good(w) == SolveInv(w) /\ (Given(w) => ~stopped)

\* A solve's local variables are in order before it begins.
LEMMA FreshGood ==
    /\ Fresh \in SolveType /\ LogKept(Fresh) /\ NoneAccepted(Fresh)
    /\ SolveInv(Fresh) /\ SolveInv([Fresh EXCEPT !.phase = "cancelled"])
  <1> DEFINE w == [Fresh EXCEPT !.phase = "cancelled"]
  <1>1. Fresh \in SolveType /\ Fresh.attempts = <<>> /\ Fresh.answered = 0
        /\ Fresh.unanswered = 0 /\ Fresh.checks = 0 /\ Fresh.phase = "new"
        /\ Fresh.status = "NONE" /\ Fresh.cross_check = "NOT_RUN"
        /\ Fresh.reason = "NO_ELIGIBLE_FREE_MODELS"
    BY SettingFacts DEF Fresh, SolveType, Phases, Requests, Verdicts, Statuses, Reasons
  <1>2. w \in SolveType /\ SameWork(w, Fresh) /\ w.phase = "cancelled" /\ w.status = "NONE"
        /\ w.reason = "NO_ELIGIBLE_FREE_MODELS" /\ w.cross_check = "NOT_RUN"
    BY <1>1 DEF SolveType, Phases, SameWork
  <1> HIDE DEF w
  <1>3. \A role, D : Entries(Fresh, role, D) = {}
    BY <1>1 DEF Entries
  <1>4. LogKept(Fresh) /\ NoneAccepted(Fresh)
    <2>1. DOMAIN Fresh.attempts = {}
      BY <1>1
    <2>2. \A role, D : Cardinality(Entries(Fresh, role, D)) = 0
      BY <1>3, FS_EmptySet
    <2>3. 0 <= MaxAttempts /\ 0 <= MaxUnanswered + 1 /\ 0 <= MaxVerification
      BY SettingFacts
    <2>4. QED  BY <1>1, <2>1, <2>2, <2>3 DEF LogKept, NoneAccepted
  <1>5. LogKept(w)
    BY <1>2, <1>4, SameLog
  <1>6. QED  BY <1>1, <1>2, <1>4, <1>5 DEF SolveInv, w

\* Between its attempts a search keeps no answer back.
LEMMA SearchingGood ==
    ASSUME NEW v, SolveInv(v), v.phase \in {"selecting", "calling"}
    PROVE  /\ v \in SolveType /\ LogKept(v) /\ NoneAccepted(v) /\ WithinBudgets(v)
           /\ v.reason = "NO_ELIGIBLE_FREE_MODELS" /\ v.status = "NONE" /\ ~Given(v)
           /\ v.cross_check = "NOT_RUN"
           /\ v.phase = "calling" => v.route \in Routes \ v.tried
  BY DEF SolveInv, Searching, Given

\* Nor does a cross-check.
LEMMA VerifyingGood ==
    ASSUME NEW v, SolveInv(v), v.phase \in {"choosing", "verifying"}
    PROVE  /\ v \in SolveType /\ LogKept(v) /\ Verifying(v) /\ PrimaryLogged(v)
           /\ v.reason = "NO_ELIGIBLE_FREE_MODELS" /\ v.status = "NONE" /\ ~Given(v)
           /\ v.phase = "verifying" => /\ v.route \in Routes \ v.tried
                                       /\ Independent(v.primary, v.route)
  BY DEF SolveInv, Verifying, Given

\* The first pass through the loop.
LEMMA BeginGood ==
    ASSUME NEW v, SolveInv(v), v.phase = "new", NEW kind \in Requests,
           ledger_failures \in Nat
    PROVE  Good(Looped([v EXCEPT !.request = kind, !.mark = ledger_failures]))
  <1> DEFINE w == [v EXCEPT !.request = kind, !.mark = ledger_failures]
  <1>1. v = Fresh
    BY DEF SolveInv
  <1>2. v \in SolveType /\ v.attempts = <<>> /\ LogKept(v)
        /\ v.reason = "NO_ELIGIBLE_FREE_MODELS" /\ v.status = "NONE"
        /\ v.cross_check = "NOT_RUN"
    BY <1>1, FreshGood DEF Fresh
  <1>3. w \in SolveType /\ w.attempts = v.attempts /\ w.tried = v.tried
        /\ w.answered = v.answered /\ w.unanswered = v.unanswered /\ w.checks = v.checks
        /\ w.reason = v.reason /\ w.status = v.status /\ w.cross_check = v.cross_check
    BY <1>2 DEF SolveType
  <1> HIDE DEF w
  <1>4. \A role, D : Entries(w, role, D) = Entries(v, role, D)
    BY <1>3 DEF Entries
  <1>5. LogKept(w) /\ NoneAccepted(w)
    BY <1>2, <1>3, <1>4 DEF LogKept, NoneAccepted
  <1>6. QED  BY <1>2, <1>3, <1>5, LoopedGood DEF Good, w

\* A re-validated answer from the cache is nobody's cross-checked one.
LEMMA CacheHitGood ==
    ASSUME NEW v, SolveInv(v), v.phase = "new", NEW kind \in Requests, kind # "cross_check",
           ~stopped
    PROVE  Good([v EXCEPT !.phase = "done", !.request = kind, !.status = "ACCEPTED",
                          !.reason = "EXACT_CACHE_HIT"])
  <1> DEFINE w == [v EXCEPT !.phase = "done", !.request = kind, !.status = "ACCEPTED",
                            !.reason = "EXACT_CACHE_HIT"]
  <1>1. v \in SolveType /\ LogKept(v) /\ v.cross_check = "NOT_RUN"
    BY DEF SolveInv
  <1>2. w \in SolveType /\ w.attempts = v.attempts /\ w.tried = v.tried
        /\ w.answered = v.answered /\ w.unanswered = v.unanswered /\ w.checks = v.checks
        /\ w.reason = "EXACT_CACHE_HIT" /\ w.request = kind /\ w.phase = "done"
        /\ w.cross_check = "NOT_RUN" /\ w.status = "ACCEPTED"
    BY <1>1 DEF SolveType, Phases, Statuses, Reasons
  <1> HIDE DEF w
  <1>3. \A role, D : Entries(w, role, D) = Entries(v, role, D)
    BY <1>2 DEF Entries
  <1>4. LogKept(w)
    BY <1>1, <1>2, <1>3 DEF LogKept
  <1>5. ReasonFits(w)
    BY <1>2 DEF ReasonFits, StatusIsReason, FailedReasons
  <1>6. QED  BY <1>2, <1>4, <1>5 DEF SolveInv, Good, w

\* The reasons that say something of the log.
Special == {"NO_ELIGIBLE_FREE_MODELS", "ALL_FREE_MODELS_UNAVAILABLE",
            "ALL_FREE_MODELS_FAILED_QUALITY"}

\* A judged attempt ends the solve, sends it on or has it cross-checked.
LEMMA JudgedGood ==
    ASSUME NEW v \in SolveType, LogKept(v), v.route \in Routes,
           v.reason = "NO_ELIGIBLE_FREE_MODELS", v.status = "NONE",
           v.cross_check = "NOT_RUN", NEW ending \in Endings,
           ending = "VALIDATION_FAILED" => Logged(v, {"UNVERIFIED"}),
           ending # "ACCEPTED" => NoneAccepted(v),
           ending = "ACCEPTED" =>
              \E i \in DOMAIN v.attempts :
                  /\ v.attempts[i].route = v.route
                  /\ v.attempts[i].role = "PRIMARY" /\ v.attempts[i].disposition = "ACCEPTED"
    PROVE  Good(Judged(v, ending))
  <1>1. /\ {"VALIDATION_SERVICE_FAILED", "SYSTEM_STOPPED", "RETURNED_WITHOUT_VERIFICATION",
            "QUALITY_THRESHOLD_MET"} \subseteq Reasons \ Special
        /\ "VALIDATION_SERVICE_FAILED" \notin Answers /\ "SYSTEM_STOPPED" \notin Answers
    BY DEF Reasons, Answers, Special
  <1>2. ASSUME NEW reason \in Reasons \ Special,
               v.request = "cross_check" => reason \notin Answers,
               reason \in Answers => ~stopped,
               reason = "VALIDATION_SERVICE_FAILED" => Logged(v, {"UNVERIFIED"}),
               reason # "QUOTA_LEDGER_UNAVAILABLE"
        PROVE  Good(Leave(v, reason))
    <2>0. MayLeave(v, reason)
      BY <1>2 DEF MayLeave
    <2>1. /\ SolveInv(Leave(v, reason))
          /\ Given(Leave(v, reason)) => reason \in Answers
      BY <1>2, <2>0, LeaveDone DEF Special
    <2>2. QED  BY <1>2, <2>1 DEF Good
  <1>3. CASE ending = "VALIDATION_FAILED"
    BY <1>1, <1>2, <1>3 DEF Judged
  <1>4. CASE ending # "VALIDATION_FAILED" /\ StoppedMeanwhile(v)
    BY <1>1, <1>2, <1>4 DEF Judged
  <1>5. CASE /\ ending # "VALIDATION_FAILED" /\ ~StoppedMeanwhile(v)
             /\ ending = "UNVERIFIED" /\ v.request = "accept_unverified"
    <2>1. ~stopped /\ Judged(v, ending) = Leave(v, "RETURNED_WITHOUT_VERIFICATION")
      BY <1>5 DEF Judged, StoppedMeanwhile
    <2>2. QED  BY <1>1, <1>2, <1>5, <2>1
  <1>6. CASE /\ ending # "VALIDATION_FAILED" /\ ~StoppedMeanwhile(v)
             /\ ~(ending = "UNVERIFIED" /\ v.request = "accept_unverified")
             /\ ending # "ACCEPTED"
    BY <1>6, LoopedGood DEF Judged, Good
  <1>7. CASE ending = "ACCEPTED" /\ v.request = "cross_check"
    <2> DEFINE w == [v EXCEPT !.cross_check = "UNAVAILABLE", !.primary = v.route]
    <2>1. Judged(v, ending) = Checking(w)
      BY <1>7 DEF Judged, StoppedMeanwhile
    <2>2. w \in SolveType /\ SameWork(w, v) /\ w.primary = v.route
          /\ w.cross_check = "UNAVAILABLE"
          /\ w.reason = v.reason /\ w.status = v.status
      BY DEF SolveType, Verdicts, SameWork
    <2> HIDE DEF w
    <2>3. LogKept(w) /\ PrimaryLogged(w)
      BY <1>7, <2>2, SameLog DEF PrimaryLogged, SameWork
    <2>4. QED  BY <2>1, <2>2, <2>3, CheckingGood DEF Good
  <1>8. CASE ending = "ACCEPTED" /\ v.request # "cross_check" /\ ~StoppedMeanwhile(v)
    <2>1. ~stopped /\ Judged(v, ending) = Leave(v, "QUALITY_THRESHOLD_MET")
      BY <1>8 DEF Judged, StoppedMeanwhile
    <2>2. QED  BY <1>1, <1>2, <1>8, <2>1
  <1>9. QED  BY <1>3, <1>4, <1>5, <1>6, <1>7, <1>8

\* A cross-check concludes as its verdict says.
LEMMA ConcludedGood ==
    ASSUME NEW v \in SolveType, LogKept(v),
           NEW verdict \in {"STOPPED", "SERVICE_FAILED", "DISAGREEMENT", "REJECTED", "PASSED"},
           verdict = "PASSED" => Corroborated(v) /\ ~stopped
    PROVE  Good(Concluded(v, verdict))
  <1> DEFINE u == [v EXCEPT !.cross_check = verdict]
             reason == ReasonOf(verdict)
  <1>1. u \in SolveType /\ SameWork(u, v) /\ u.cross_check = verdict
    BY DEF SolveType, Verdicts, SameWork
  <1>2. /\ reason \in Reasons \ Special /\ (reason \in Answers => verdict = "PASSED")
        /\ reason = "VALIDATION_SERVICE_FAILED" <=> verdict = "SERVICE_FAILED"
        /\ verdict = "PASSED" => reason = "QUALITY_THRESHOLD_MET"
        /\ reason # "QUOTA_LEDGER_UNAVAILABLE"
    BY DEF ReasonOf, Reasons, Answers, Special
  <1>3. Concluded(v, verdict) = Leave(u, reason)
    BY DEF Concluded
  <1> HIDE DEF u, reason
  <1>4. LogKept(u) /\ (Corroborated(u) <=> Corroborated(v))
    BY <1>1, SameLog
  <1>7. MayLeave(u, reason)
    BY <1>1, <1>2 DEF MayLeave
  <1>5. /\ SolveInv(Leave(u, reason))
        /\ Given(Leave(u, reason)) => reason \in Answers
    BY <1>1, <1>2, <1>4, <1>7, LeaveDone DEF Special
  <1>6. QED  BY <1>2, <1>3, <1>5 DEF Good

\* Step s puts in place local variables that are in order.
Steps(s) == \E w : Become(s, w) /\ Good(w)

\* The selection picks a route the solve has not tried, or none.
LEMMA SelectedGood == ASSUME RouterInv, NEW s \in Solves, Selected(s) PROVE Steps(s)
  <1> DEFINE v == solve[s]
  <1>1. SolveInv(v) /\ v.phase = "selecting"
    BY DEF RouterInv, Selected, In
  <1>2. /\ v \in SolveType /\ LogKept(v) /\ NoneAccepted(v) /\ WithinBudgets(v)
        /\ v.reason = "NO_ELIGIBLE_FREE_MODELS" /\ v.status = "NONE"
        /\ v.cross_check = "NOT_RUN"
    BY <1>1, SearchingGood
  <1>3. ASSUME NEW r \in Routes \ v.tried,
               Become(s, [v EXCEPT !.phase = "calling", !.route = r])
        PROVE  Steps(s)
    <2> DEFINE w == [v EXCEPT !.phase = "calling", !.route = r]
    <2> HIDE DEF v
    <2>1. w \in SolveType /\ SameWork(w, v) /\ w.phase = "calling" /\ w.route = r
          /\ w.reason = v.reason /\ w.status = v.status /\ w.cross_check = v.cross_check
      BY <1>2 DEF SolveType, Phases, SameWork
    <2>2. Become(s, w)
      BY <1>3
    <2> HIDE DEF w
    <2>3. LogKept(w) /\ Searching(w) /\ w.route \in Routes \ w.tried
      BY <1>2, <1>3, <2>1, SameLog DEF Searching, SameWork
    <2>4. Good(w)
      BY <1>2, <2>1, <2>3 DEF Good, SolveInv, Given
    <2>5. QED  BY <2>2, <2>4 DEF Steps
  <1>4. CASE Become(s, Returned(v))
    <2>1. Good(Returned(v))
      BY <1>2, ReturnedDone DEF Good
    <2>2. QED  BY <1>4, <2>1 DEF Steps
  <1>5. QED  BY <1>3, <1>4 DEF Selected

\* A lost race sends the solve round the loop once more.
LEMMA LostRaceGood == ASSUME RouterInv, NEW s \in Solves, LostRace(s) PROVE Steps(s)
  <1> DEFINE v == solve[s]
             w == TriedAgain(v, v.route)
  <1>1. SolveInv(v) /\ v.phase = "calling" /\ Become(s, Looped(w))
    BY DEF RouterInv, LostRace, In
  <1> HIDE DEF v
  <1>2. /\ v \in SolveType /\ LogKept(v) /\ NoneAccepted(v) /\ v.route \in Routes
        /\ v.reason = "NO_ELIGIBLE_FREE_MODELS" /\ v.status = "NONE"
        /\ v.cross_check = "NOT_RUN"
    BY <1>1, SearchingGood
  <1>3. w \in SolveType /\ LogKept(w) /\ NoneAccepted(w)
        /\ w.reason = "NO_ELIGIBLE_FREE_MODELS" /\ w.status = "NONE"
        /\ w.cross_check = "NOT_RUN"
    BY <1>2, TriedAgainKept
  <1> HIDE DEF w
  <1>4. Good(Looped(w))
    BY <1>3, LoopedGood DEF Good
  <1>5. QED  BY <1>1, <1>4 DEF Steps

\* A defect of FAIR's own ends the solve without an answer.
LEMMA InternalErrorGood == ASSUME RouterInv, NEW s \in Solves, InternalError(s) PROVE Steps(s)
  <1> DEFINE v == solve[s]
  <1>1. SolveInv(v) /\ v.phase = "calling" /\ Become(s, Leave(v, "ROUTER_INTERNAL_ERROR"))
    BY DEF RouterInv, InternalError, In
  <1> HIDE DEF v
  <1>2. v \in SolveType /\ LogKept(v) /\ v.cross_check = "NOT_RUN"
    BY <1>1, SearchingGood
  <1>3. "ROUTER_INTERNAL_ERROR" \in Reasons \ Special /\ "ROUTER_INTERNAL_ERROR" \notin Answers
        /\ MayLeave(v, "ROUTER_INTERNAL_ERROR")
    BY <1>2 DEF Reasons, Special, Answers, MayLeave
  <1>4. Good(Leave(v, "ROUTER_INTERNAL_ERROR"))
    BY <1>2, <1>3, LeaveDone DEF Good, Special
  <1>5. QED  BY <1>1, <1>4 DEF Steps

\* A primary attempt, recorded, charged and judged.
LEMMA CompletedGood ==
    ASSUME RouterInv, NEW s \in Solves, NEW ending \in Endings, Completed(s, ending)
    PROVE  Steps(s)
  <1> DEFINE v == solve[s]
             u == Record(v, v.route, ending, "PRIMARY")
             w == Charged(u, Disposition(ending))
             n == Len(v.attempts) + 1
  <1>1. SolveInv(v) /\ v.phase = "calling" /\ Become(s, Judged(w, ending))
    BY DEF RouterInv, Completed, In
  <1> HIDE DEF v
  <1>2. /\ v \in SolveType /\ LogKept(v) /\ NoneAccepted(v) /\ WithinBudgets(v)
        /\ v.route \in Routes \ v.tried
        /\ v.reason = "NO_ELIGIBLE_FREE_MODELS" /\ v.status = "NONE"
        /\ v.cross_check = "NOT_RUN"
    BY <1>1, SearchingGood
  <1>3. /\ w \in SolveType /\ LogKept(w) /\ w.attempts = u.attempts
        /\ w.reason = v.reason /\ w.status = v.status /\ w.route = v.route
        /\ w.cross_check = v.cross_check
    BY <1>2, ChargedKept
  <1> HIDE DEF w
  <1>4. "PRIMARY" \in Roles
    BY DEF Roles
  <1>5. Recorded(u, v, v.route, ending, "PRIMARY")
    BY <1>2, <1>4, RecordFields
  <1> HIDE DEF u
  <1>6. /\ DOMAIN u.attempts = DOMAIN v.attempts \cup {n}
        /\ \A i \in DOMAIN v.attempts : u.attempts[i] = v.attempts[i]
        /\ u.attempts[n].route = v.route /\ u.attempts[n].role = "PRIMARY"
        /\ u.attempts[n].disposition = Disposition(ending)
    BY <1>5 DEF Recorded
  <1> HIDE DEF n
  <1>7. Disposition(ending) = "ACCEPTED" <=> ending = "ACCEPTED"
    BY DispositionType
  <1>8. ending # "ACCEPTED" => NoneAccepted(w)
    BY <1>2, <1>3, <1>6, <1>7 DEF NoneAccepted
  <1>9. ending = "ACCEPTED" =>
          \E i \in DOMAIN w.attempts :
              /\ w.attempts[i].route = w.route
              /\ w.attempts[i].role = "PRIMARY" /\ w.attempts[i].disposition = "ACCEPTED"
    BY <1>3, <1>6, <1>7
  <1>12. ending = "VALIDATION_FAILED" => Logged(w, {"UNVERIFIED"})
    BY <1>3, <1>6 DEF Disposition, Logged
  <1>10. Good(Judged(w, ending))
    BY <1>2, <1>3, <1>8, <1>9, <1>12, JudgedGood
  <1>11. QED  BY <1>1, <1>10 DEF Steps

\* The verifier chosen is independent of the route it is to check.
LEMMA ChosenGood == ASSUME RouterInv, NEW s \in Solves, Chosen(s) PROVE Steps(s)
  <1> DEFINE v == solve[s]
  <1>1. SolveInv(v) /\ v.phase = "choosing"
    BY DEF RouterInv, Chosen, In
  <1>2. /\ v \in SolveType /\ LogKept(v) /\ Verifying(v)
        /\ v.reason = "NO_ELIGIBLE_FREE_MODELS" /\ v.status = "NONE"
    BY <1>1, VerifyingGood
  <1>3. ASSUME NEW r \in Routes \ v.tried, Independent(v.primary, r),
               Become(s, [v EXCEPT !.phase = "verifying", !.route = r])
        PROVE  Steps(s)
    <2> DEFINE w == [v EXCEPT !.phase = "verifying", !.route = r]
    <2> HIDE DEF v
    <2>1. w \in SolveType /\ SameWork(w, v) /\ w.phase = "verifying" /\ w.route = r
          /\ w.reason = v.reason /\ w.status = v.status /\ w.primary = v.primary
          /\ w.cross_check = v.cross_check
      BY <1>2 DEF SolveType, Phases, SameWork
    <2>2. Become(s, w)
      BY <1>3
    <2> HIDE DEF w
    <2>3. LogKept(w) /\ w.route \in Routes \ w.tried /\ Independent(w.primary, w.route)
      BY <1>2, <1>3, <2>1, SameLog DEF SameWork
    <2>4. Verifying(w)
      BY <1>2, <2>1 DEF Verifying, PrimaryLogged, Entries, SameWork
    <2>5. Good(w)
      BY <1>2, <2>1, <2>3, <2>4 DEF Good, SolveInv, Given
    <2>6. QED  BY <2>2, <2>5 DEF Steps
  <1>4. CASE Become(s, Leave(v, "INDEPENDENT_VERIFIER_UNAVAILABLE"))
    <2>1. "INDEPENDENT_VERIFIER_UNAVAILABLE" \in Reasons \ Special
          /\ "INDEPENDENT_VERIFIER_UNAVAILABLE" \notin Answers
          /\ MayLeave(v, "INDEPENDENT_VERIFIER_UNAVAILABLE")
      BY <1>2 DEF Reasons, Special, Answers, MayLeave, Verifying, PrimaryLogged
    <2>2. Good(Leave(v, "INDEPENDENT_VERIFIER_UNAVAILABLE"))
      BY <1>2, <2>1, LeaveDone DEF Good, Special
    <2>3. QED  BY <1>4, <2>2 DEF Steps
  <1>5. QED  BY <1>3, <1>4 DEF Chosen

\* A verifier lost to a race is replaced by another, while checks are left.
LEMMA LostVerifierGood == ASSUME RouterInv, NEW s \in Solves, LostVerifier(s) PROVE Steps(s)
  <1> DEFINE v == solve[s]
             w == TriedAgain(v, v.route)
  <1>1. SolveInv(v) /\ v.phase = "verifying" /\ Become(s, Checking(w))
    BY DEF RouterInv, LostVerifier, In
  <1> HIDE DEF v
  <1>2. /\ v \in SolveType /\ LogKept(v) /\ PrimaryLogged(v) /\ v.route \in Routes
        /\ v.reason = "NO_ELIGIBLE_FREE_MODELS" /\ v.status = "NONE"
    BY <1>1, VerifyingGood
  <1>3. w \in SolveType /\ LogKept(w) /\ PrimaryLogged(w)
        /\ w.reason = "NO_ELIGIBLE_FREE_MODELS" /\ w.status = "NONE"
    BY <1>2, TriedAgainKept
  <1> HIDE DEF w
  <1>4. Good(Checking(w))
    BY <1>3, CheckingGood DEF Good
  <1>5. QED  BY <1>1, <1>4 DEF Steps

\* A defect while verifying fails the solve.
LEMMA VerifierErrorGood == ASSUME RouterInv, NEW s \in Solves, VerifierError(s) PROVE Steps(s)
  <1> DEFINE v == solve[s]
             u == [v EXCEPT !.cross_check = "SERVICE_FAILED"]
  <1>1. SolveInv(v) /\ v.phase = "verifying"
        /\ Become(s, Leave(u, "VALIDATION_SERVICE_FAILED"))
    BY DEF RouterInv, VerifierError, In
  <1> HIDE DEF v
  <1>2. v \in SolveType /\ LogKept(v)
    BY <1>1, VerifyingGood
  <1>3. u \in SolveType /\ SameWork(u, v) /\ u.cross_check = "SERVICE_FAILED"
    BY <1>2 DEF SolveType, Verdicts, SameWork
  <1> HIDE DEF u
  <1>4. LogKept(u)
    BY <1>2, <1>3, SameLog
  <1>5. "VALIDATION_SERVICE_FAILED" \in Reasons \ Special
        /\ "VALIDATION_SERVICE_FAILED" \notin Answers
        /\ MayLeave(u, "VALIDATION_SERVICE_FAILED")
    BY <1>3 DEF Reasons, Special, Answers, MayLeave
  <1>6. Good(Leave(u, "VALIDATION_SERVICE_FAILED"))
    BY <1>3, <1>4, <1>5, LeaveDone DEF Good, Special
  <1>7. QED  BY <1>1, <1>6 DEF Steps

\* A verifier's attempt passes the answer, condemns it, or says nothing of it.
LEMMA VerifiedGood ==
    ASSUME RouterInv, NEW s \in Solves, NEW ending \in Endings, NEW comparison \in Comparisons,
           Verified(s, ending, comparison)
    PROVE  Steps(s)
  <1> DEFINE v == solve[s]
             w == Record(v, v.route, ending, "CROSS_CHECK")
  <1>1. /\ SolveInv(v) /\ v.phase = "verifying"
        /\ Become(s, IF stopped THEN Concluded(w, "STOPPED")
                     ELSE IF ending = "VALIDATION_FAILED" THEN Concluded(w, "SERVICE_FAILED")
                     ELSE IF ending \in Textless THEN Checking(w)
                     ELSE Concluded(w, Verdict(ending, comparison)))
    BY DEF RouterInv, Verified, In
  <1> HIDE DEF v
  <1>2. /\ v \in SolveType /\ LogKept(v) /\ Verifying(v) /\ v.route \in Routes \ v.tried
        /\ Independent(v.primary, v.route)
        /\ v.reason = "NO_ELIGIBLE_FREE_MODELS" /\ v.status = "NONE"
    BY <1>1, VerifyingGood
  <1>3. /\ w \in SolveType /\ LogKept(w) /\ PrimaryLogged(w)
        /\ w.reason = "NO_ELIGIBLE_FREE_MODELS" /\ w.status = "NONE"
        /\ ending = "ACCEPTED" => Corroborated(w)
    BY <1>2, VerifierRecorded
  <1> HIDE DEF w
  <1>4. /\ Verdict(ending, comparison) \in {"SERVICE_FAILED", "DISAGREEMENT", "REJECTED", "PASSED"}
        /\ Verdict(ending, comparison) = "PASSED" => ending = "ACCEPTED"
    BY DEF Verdict
  <1>5. Good(Concluded(w, "STOPPED")) /\ Good(Concluded(w, "SERVICE_FAILED"))
    BY <1>3, ConcludedGood
  <1>6. Good(Checking(w))
    BY <1>3, CheckingGood DEF Good
  <1>7. ~stopped => Good(Concluded(w, Verdict(ending, comparison)))
    BY <1>3, <1>4, ConcludedGood
  <1>8. QED  BY <1>1, <1>5, <1>6, <1>7 DEF Steps

\* A solve begins, or finds its answer in the cache.
LEMMA NewGood ==
    ASSUME RouterInv, NEW s \in Solves, NEW kind \in Kinds, Begin(s, kind) \/ CacheHit(s, kind)
    PROVE  Steps(s)
  <1> DEFINE v == solve[s]
  <1>1. SolveInv(v) /\ v.phase = "new"
    BY DEF RouterInv, Begin, CacheHit, In
  <1>2. kind \in Requests /\ ledger_failures \in Nat
    BY RouterAssumption DEF RouterInv
  <1>3. CASE Begin(s, kind)
    BY <1>1, <1>2, <1>3, BeginGood DEF Begin, Steps
  <1>4. CASE CacheHit(s, kind)
    BY <1>1, <1>2, <1>4, CacheHitGood DEF CacheHit, Steps
  <1>5. QED  BY <1>3, <1>4

\* A cancelled solve knows nothing any more.
LEMMA CancelGood == ASSUME RouterInv, NEW s \in Solves, Cancel(s) PROVE Steps(s)
  <1> DEFINE w == [Fresh EXCEPT !.phase = "cancelled"]
  <1>1. Become(s, w) /\ SolveInv(w) /\ ~Given(w)
    BY FreshGood DEF Cancel, Given, Fresh
  <1>2. QED  BY <1>1 DEF Steps, Good

\* Every step of a solve.
LEMMA StepGood == ASSUME RouterInv, NEW s \in Solves, Step(s) \/ Cancel(s) PROVE Steps(s)
  BY SelectedGood, LostRaceGood, InternalErrorGood, CompletedGood, ChosenGood, LostVerifierGood,
     VerifierErrorGood, VerifiedGood, NewGood, CancelGood DEF Step

-----------------------------------------------------------------------------
(* Every step *)

\* The solves after a step are in order, and an answer is not given while stopped.
SolvesKept ==
    /\ solve' \in [Solves -> SolveType]
    /\ \A s \in Solves : SolveInv(solve[s])'
    /\ \A s \in Solves : Given(solve'[s]) /\ ~Given(solve[s]) => ~stopped

\* One solve's step leaves the others alone.
LEMMA StepsKept == ASSUME RouterInv, NEW s \in Solves, Steps(s) PROVE SolvesKept
  <1>1. PICK w : Become(s, w) /\ Good(w)
    BY DEF Steps
  <1>2. w \in SolveType /\ SolveInv(w)
    BY <1>1 DEF Good, SolveInv
  <1>3. /\ solve' \in [Solves -> SolveType] /\ solve'[s] = w
        /\ \A q \in Solves \ {s} : solve'[q] = solve[q]
    BY <1>1, <1>2 DEF RouterInv, Become
  <1>4. \A q \in Solves : SolveInv(solve'[q])
    BY <1>2, <1>3 DEF RouterInv
  <1>5. \A q \in Solves : Given(solve'[q]) /\ ~Given(solve[q]) => ~stopped
    BY <1>1, <1>3 DEF Good
  <1>6. QED  BY <1>3, <1>4, <1>5 DEF SolvesKept

\* What goes on around the solves leaves them alone.
LEMMA AroundKept ==
    ASSUME RouterInv,
           LedgerFails \/ (\E value \in BOOLEAN : SetStopped(value)) \/ UNCHANGED vars
    PROVE  SolvesKept
  <1>1. solve' = solve
    BY DEF LedgerFails, SetStopped, vars
  <1>2. QED  BY <1>1 DEF RouterInv, SolvesKept

\* Every step.
LEMMA NextKept == ASSUME RouterInv, [Next]_vars PROVE SolvesKept
  <1>1. ASSUME NEW s \in Solves, Step(s) \/ Cancel(s) PROVE SolvesKept
    BY <1>1, StepGood, StepsKept
  <1>2. QED  BY <1>1, AroundKept DEF Next

\* The invariant holds at first.
LEMMA RouterInit == Init => RouterInv
  <1> SUFFICES ASSUME Init PROVE RouterInv
    OBVIOUS
  <1>1. stopped = FALSE /\ ledger_failures = 0 /\ solve = [s \in Solves |-> Fresh]
    BY DEF Init
  <1>2. \A s \in Solves : solve[s] = Fresh
    BY <1>1
  <1>3. 0 \in 0..MaxLedgerFailures
    BY SettingFacts
  <1>4. Fresh \in SolveType /\ SolveInv(Fresh)
    BY FreshGood
  <1>5. solve \in [Solves -> SolveType] /\ \A s \in Solves : SolveInv(solve[s])
    BY <1>1, <1>2, <1>4
  <1>6. QED  BY <1>1, <1>3, <1>5 DEF RouterInv

\* Every step keeps the invariant.
LEMMA RouterNext == RouterInv /\ [Next]_vars => RouterInv'
  <1> SUFFICES ASSUME RouterInv, [Next]_vars PROVE RouterInv'
    OBVIOUS
  <1>1. SolvesKept
    BY NextKept
  <1>2. ASSUME NEW s \in Solves, Step(s) \/ Cancel(s)
        PROVE  UNCHANGED <<stopped, ledger_failures>>
    BY <1>2 DEF Step, Cancel, Begin, CacheHit, Selected, LostRace, InternalError, Chosen,
       LostVerifier, VerifierError, Completed, Verified
  <1>3. stopped' \in BOOLEAN /\ ledger_failures' \in 0..MaxLedgerFailures
    <2>1. CASE LedgerFails
      BY <2>1, SettingFacts DEF LedgerFails, RouterInv
    <2>2. ASSUME NEW value \in BOOLEAN, SetStopped(value)
          PROVE  stopped' \in BOOLEAN /\ ledger_failures' \in 0..MaxLedgerFailures
      BY <2>2 DEF SetStopped, RouterInv
    <2>3. CASE UNCHANGED vars
      BY <2>3 DEF vars, RouterInv
    <2>4. QED  BY <1>2, <2>1, <2>2, <2>3 DEF Next, RouterInv
  <1>4. QED  BY <1>1, <1>3 DEF RouterInv, SolvesKept

\* Whatever solves are under way, the invariant is true of each.
LEMMA RouterInvariance == Spec => []RouterInv
  <1>1. QED  BY RouterInit, RouterNext, PTL DEF Spec

-----------------------------------------------------------------------------
(* The properties *)

\* The variables keep their types.
THEOREM RouterTypes == Spec => []TypeOK
  <1>1. RouterInv => TypeOK
    BY DEF RouterInv, TypeOK, SolveType
  <1>2. QED  BY <1>1, RouterInvariance, PTL

\* A solve that asked for a cross-check answers only with two accepted entries
\* in its log, the later a verifier's, from routes that differ in provider,
\* model and independence group.
THEOREM Corroboration == Spec => []CorroboratedWhenRequired
  <1>1. RouterInv => CorroboratedWhenRequired
    <2> SUFFICES ASSUME RouterInv, NEW s \in Solves, solve[s].request = "cross_check",
                        Given(solve[s])
                 PROVE  Corroborated(solve[s])
      BY DEF CorroboratedWhenRequired, Corroborated, Log
    <2>1. SolveInv(solve[s])
      BY DEF RouterInv
    <2>2. solve[s].phase = "done"
      BY <2>1 DEF SolveInv, Given
    <2>3. QED  BY <2>1, <2>2 DEF SolveInv
  <1>2. QED  BY <1>1, RouterInvariance, PTL

\* No solve spends more attempts than its budgets, nor one on a route twice.
THEOREM BudgetsAreHeld == Spec => []BudgetsHold
  <1>1. RouterInv => BudgetsHold
    <2> SUFFICES ASSUME RouterInv, NEW s \in Solves
                 PROVE  /\ SpentOn(s, Answered) <= MaxAttempts
                        /\ SpentOn(s, Unanswered) <= MaxUnanswered + 1
                        /\ Cardinality({i \in DOMAIN Log(s) : Log(s)[i].role = "CROSS_CHECK"})
                             <= MaxVerification
                        /\ \A i, j \in DOMAIN Log(s) : Log(s)[i].route = Log(s)[j].route => i = j
      BY DEF BudgetsHold, Answered, Unanswered
    <2> DEFINE v == solve[s]
    <2>1. SolveInv(v) /\ Log(s) = v.attempts
      BY DEF RouterInv, Log
    <2>2. SpentOn(s, Answered) = Cardinality(Entries(v, "PRIMARY", Answered))
          /\ SpentOn(s, Unanswered) = Cardinality(Entries(v, "PRIMARY", Unanswered))
      BY DEF SpentOn, Entries, Log
    <2>3. v \in SolveType /\ LogKept(v)
      BY <2>1 DEF SolveInv
    <2>4. {i \in DOMAIN Log(s) : Log(s)[i].role = "CROSS_CHECK"}
            = Entries(v, "CROSS_CHECK", Dispositions)
      <3>1. \A i \in DOMAIN v.attempts : v.attempts[i].disposition \in Dispositions
        <4>1. v.attempts \in Seq(Attempted) /\ DOMAIN v.attempts = 1..Len(v.attempts)
          BY <2>3, EntriesFinite
        <4>2. \A i \in 1..Len(v.attempts) : v.attempts[i] \in Attempted
          BY <4>1, ElementOfSeq
        <4>3. QED  BY <4>1, <4>2 DEF Attempted
      <3>2. QED  BY <2>1, <3>1 DEF Entries
    <2> HIDE DEF v
    <2>5. Cardinality(Entries(v, "CROSS_CHECK", Dispositions)) \in Nat /\ v.checks \in Nat
          /\ MaxVerification \in Nat
      BY <2>3, EntriesFinite, SettingFacts DEF SolveType
    <2>6. SpentOn(s, Answered) <= MaxAttempts /\ SpentOn(s, Unanswered) <= MaxUnanswered + 1
      BY <2>2, <2>3 DEF LogKept
    <2>7. Cardinality(Entries(v, "CROSS_CHECK", Dispositions)) <= MaxVerification
      <3>1. /\ Cardinality(Entries(v, "CROSS_CHECK", Dispositions)) <= v.checks
            /\ v.checks <= MaxVerification
        BY <2>3 DEF LogKept
      <3>2. QED  BY <2>5, <3>1
    <2>8. \A i, j \in DOMAIN v.attempts : v.attempts[i].route = v.attempts[j].route => i = j
      BY <2>3 DEF LogKept
    <2>9. QED  BY <2>1, <2>4, <2>6, <2>7, <2>8
  <1>2. QED  BY <1>1, RouterInvariance, PTL

\* The reason a response gives is borne out by its log, and its status and its
\* account of the cross-check agree with it, whatever failed on the way.
THEOREM ReasonsFit == Spec => []ReasonFitsLog
  <1>1. RouterInv => ReasonFitsLog
    <2> SUFFICES ASSUME RouterInv, NEW s \in Solves, solve[s].phase = "done"
                 PROVE  ReasonIsLogged(solve[s]) /\ StatusIsReason(solve[s])
      BY DEF ReasonFitsLog
    <2>1. ReasonFits(solve[s])
      BY DEF RouterInv, SolveInv
    <2>2. QED  BY <2>1 DEF ReasonFits, ReasonIsLogged
  <1>2. QED  BY <1>1, RouterInvariance, PTL

\* No solve hands out an answer once the router is stopped.
THEOREM StopWithholds == Spec => StopWithholdsAnswers
  <1>1. RouterInv /\ [Next]_vars =>
          \A s \in Solves : Given(solve'[s]) /\ ~Given(solve[s]) => ~stopped
    BY NextKept DEF SolvesKept
  <1>2. QED  BY <1>1, RouterInvariance, PTL DEF Spec, StopWithholdsAnswers
===============================================================================
