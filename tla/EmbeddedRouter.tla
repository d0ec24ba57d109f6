--------------------------- MODULE EmbeddedRouter ---------------------------
(***************************************************************************)
(* The routing loop of fair/embedded/router.py: EmbeddedRouter.solve and   *)
(* _cross_check, for several concurrent solves.  A solve is a coroutine:   *)
(* an action is what it does between two awaits (of the selection, or of   *)
(* one attempt); between them others run, and the system may be stopped.   *)
(* Which routes the selector admits, in which order, and how an attempt    *)
(* ends are free choices here: QuotaGovernor models where they come from.  *)
(***************************************************************************)
EXTENDS Integers, Sequences, FiniteSets

CONSTANTS
    Solves,             \* concurrent calls of solve
    Routes,             \* records of provider, model and independence group
    NoRoute,
    Kinds,              \* kinds of request that may arrive
    MaxAttempts, MaxUnanswered, MaxVerification,   \* settings.max_..._attempts
    MaxLedgerFailures   \* bound on failures of the shared ledger

\* How _attempt may end: what came back, and what the quality engine said.
\* WITHHELD is an unverified answer whose source policy was not met; NO_TEXT a
\* quality failure with no response, the provider having refused its own JSON.
Endings == {"ACCEPTED", "QUALITY_FAILURE", "NO_TEXT", "UNVERIFIED", "WITHHELD",
            "VALIDATION_FAILED", "INFRA_FAILURE", "COST_VIOLATION", "QUOTA_FAILURE",
            "CAPABILITY_MISMATCH"}

\* What a request asks for; SolveRequest refuses one that asks for both.
Requests == {"plain", "cross_check", "accept_unverified"}

ASSUME RouterAssumption ==
    /\ \A r \in Routes : {"provider", "model", "group"} = DOMAIN r
    /\ NoRoute \notin Routes /\ IsFiniteSet(Routes)
    /\ Kinds \subseteq Requests
    /\ MaxAttempts \in Nat \ {0} /\ MaxUnanswered \in Nat /\ MaxVerification \in Nat \ {0}
    /\ MaxLedgerFailures \in Nat

VARIABLES
    stopped,          \* router.stopped
    ledger_failures,  \* quota.ledger_failures
    solve             \* the local variables of each solve

vars == <<stopped, ledger_failures, solve>>

\* The disposition an attempt is logged with.  Operators named Bug_... are
\* mutated forms of the definition that follows them: plausible slips, kept to
\* show which property notices each one.
Disposition(ending) ==
    CASE ending = "NO_TEXT"                         -> "QUALITY_FAILURE"
      [] ending \in {"WITHHELD", "VALIDATION_FAILED"} -> "UNVERIFIED"
      [] ending = "COST_VIOLATION"                  -> "INFRA_FAILURE"
      [] OTHER                                      -> ending

Dispositions == {"ACCEPTED", "QUALITY_FAILURE", "UNVERIFIED", "INFRA_FAILURE", "QUOTA_FAILURE",
                 "CAPABILITY_MISMATCH"}
Roles        == {"PRIMARY", "CROSS_CHECK"}
Attempted    == [route: Routes, disposition: Dispositions, role: Roles]
Phases       == {"new", "selecting", "calling", "choosing", "verifying", "done", "cancelled"}
Verdicts     == {"NOT_RUN", "UNAVAILABLE", "STOPPED", "SERVICE_FAILED", "DISAGREEMENT",
                 "PASSED", "REJECTED"}
Statuses     == {"NONE", "FAILED", "ACCEPTED", "ACCEPTED_UNVERIFIED", "ESCALATION_REQUIRED"}
Reasons      ==
    {"NO_ELIGIBLE_FREE_MODELS", "SYSTEM_STOPPED", "ROUTER_INTERNAL_ERROR",
     "RETURNED_WITHOUT_VERIFICATION", "QUALITY_THRESHOLD_MET", "MODEL_DISAGREEMENT",
     "CROSS_CHECK_REJECTED", "INDEPENDENT_VERIFIER_UNAVAILABLE", "VALIDATION_SERVICE_FAILED",
     "QUOTA_LEDGER_UNAVAILABLE", "QUALITY_VERIFICATION_UNAVAILABLE",
     "ALL_FREE_MODELS_FAILED_QUALITY", "ALL_FREE_MODELS_UNAVAILABLE", "EXACT_CACHE_HIT"}

TypeOK ==
    /\ stopped \in BOOLEAN
    /\ ledger_failures \in 0..MaxLedgerFailures
    /\ solve \in [Solves ->
         [phase: Phases, request: Requests, route: Routes \cup {NoRoute}, primary: Routes \cup {NoRoute},
          tried: SUBSET Routes,
          answered: Nat, unanswered: Nat, checks: Nat, attempts: Seq(Attempted),
          mark: Nat, cross_check: Verdicts, status: Statuses, reason: Reasons]]

-----------------------------------------------------------------------------

\* fair/quality/consensus.py, independent.
Bug_Independent(r, q) == r.provider # q.provider /\ r.model # q.model
Independent(r, q) == r.provider # q.provider /\ r.model # q.model /\ r.group # q.group

\* The local variables of a solve that has not begun.
Fresh ==
    [phase |-> "new", request |-> "plain", route |-> NoRoute, primary |-> NoRoute,
     tried |-> {}, answered |-> 0, unanswered |-> 0, checks |-> 0, attempts |-> <<>>,
     mark |-> 0, cross_check |-> "NOT_RUN", status |-> "NONE",
     reason |-> "NO_ELIGIBLE_FREE_MODELS"]

Init ==
    /\ stopped = FALSE
    /\ ledger_failures = 0
    /\ solve = [s \in Solves |-> Fresh]

In(s, phases) == solve[s].phase \in phases
Become(s, v)  == solve' = [solve EXCEPT ![s] = v]

Logged(v, dispositions) ==
    \E i \in DOMAIN v.attempts : v.attempts[i].disposition \in dispositions

\* The reason a solve without an answer reports, once the loop is left.
Bug_FinalReason(v) ==
    IF v.reason # "NO_ELIGIBLE_FREE_MODELS" \/ v.attempts = <<>> THEN v.reason
    ELSE IF Logged(v, {"QUALITY_FAILURE"}) THEN "ALL_FREE_MODELS_FAILED_QUALITY"
    ELSE "ALL_FREE_MODELS_UNAVAILABLE"
FinalReason(v) ==
    IF v.reason # "NO_ELIGIBLE_FREE_MODELS" \/ v.attempts = <<>> THEN v.reason
    ELSE IF Logged(v, {"UNVERIFIED"}) THEN "QUALITY_VERIFICATION_UNAVAILABLE"
    ELSE IF Logged(v, {"QUALITY_FAILURE"}) THEN "ALL_FREE_MODELS_FAILED_QUALITY"
    ELSE "ALL_FREE_MODELS_UNAVAILABLE"

Answers == {"QUALITY_THRESHOLD_MET", "RETURNED_WITHOUT_VERIFICATION"}

\* From the end of the loop to the response; reading ledger_failures once more.
Bug_Returned(v) ==
    LET answer == v.reason \in Answers
        blamed == ledger_failures > v.mark
    IN [v EXCEPT !.phase = "done", !.route = NoRoute,
                 !.reason = IF blamed THEN "QUOTA_LEDGER_UNAVAILABLE" ELSE FinalReason(v),
                 !.status =
                   IF v.reason \in {"VALIDATION_SERVICE_FAILED", "ROUTER_INTERNAL_ERROR"}
                     THEN "FAILED"
                   ELSE IF v.reason = "RETURNED_WITHOUT_VERIFICATION" THEN "ACCEPTED_UNVERIFIED"
                   ELSE IF answer THEN "ACCEPTED" ELSE "ESCALATION_REQUIRED"]
Returned(v) ==
    LET answer  == v.reason \in Answers
        blamed  == ~answer /\ ledger_failures > v.mark
        failed  == v.reason = "VALIDATION_SERVICE_FAILED"
        reason  == IF blamed THEN "QUOTA_LEDGER_UNAVAILABLE"
                   ELSE IF answer THEN v.reason ELSE FinalReason(v)
        status  == IF blamed \/ failed \/ v.reason = "ROUTER_INTERNAL_ERROR" THEN "FAILED"
                   ELSE IF v.reason = "RETURNED_WITHOUT_VERIFICATION" THEN "ACCEPTED_UNVERIFIED"
                   ELSE IF answer THEN "ACCEPTED" ELSE "ESCALATION_REQUIRED"
    IN [v EXCEPT !.phase = "done", !.route = NoRoute, !.status = status, !.reason = reason]

Leave(v, reason) == Returned([v EXCEPT !.reason = reason])

\* The top of the loop.  It returns to its caller, or awaits the selection.
Bug_WithinBudgets(v) == v.answered < MaxAttempts
WithinBudgets(v) == v.answered < MaxAttempts /\ v.unanswered <= MaxUnanswered

Looped(v) ==
    IF ~WithinBudgets(v) THEN Returned(v)
    ELSE IF stopped THEN Leave(v, "SYSTEM_STOPPED")
    ELSE [v EXCEPT !.phase = "selecting", !.route = NoRoute]

Bug_TriedAgain(v, r) == v
TriedAgain(v, r) == [v EXCEPT !.tried = @ \cup {r}]

-----------------------------------------------------------------------------
(* One solve *)

\* Profiling, and a cache that misses: no await comes before the selection.
Begin(s, kind) ==
    /\ In(s, {"new"})
    /\ Become(s, Looped([solve[s] EXCEPT !.request = kind, !.mark = ledger_failures]))
    /\ UNCHANGED <<stopped, ledger_failures>>

\* cache.get found a re-validated answer; a cross-check is never cached.
CacheHit(s, kind) ==
    /\ In(s, {"new"}) /\ kind # "cross_check" /\ ~stopped
    /\ Become(s, [solve[s] EXCEPT !.phase = "done", !.request = kind, !.status = "ACCEPTED",
                                  !.reason = "EXACT_CACHE_HIT"])
    /\ UNCHANGED <<stopped, ledger_failures>>

\* candidates_async returned: the first of what it admits, if it admits any.
Selected(s) ==
    /\ In(s, {"selecting"})
    /\ \/ \E r \in Routes \ solve[s].tried :
            Become(s, [solve[s] EXCEPT !.phase = "calling", !.route = r])
       \/ Become(s, Returned(solve[s]))
    /\ UNCHANGED <<stopped, ledger_failures>>

\* _attempt found its reservation refused, or the model benched meanwhile.
LostRace(s) ==
    /\ In(s, {"calling"})
    /\ Become(s, Looped(TriedAgain(solve[s], solve[s].route)))
    /\ UNCHANGED <<stopped, ledger_failures>>

\* An escape from _attempt is a defect of FAIR's own.
InternalError(s) ==
    /\ In(s, {"calling"})
    /\ Become(s, Leave(solve[s], "ROUTER_INTERNAL_ERROR"))
    /\ UNCHANGED <<stopped, ledger_failures>>

Bug_Record(v, r, ending, role) ==
    [v EXCEPT !.attempts = Append(@, [route |-> r, disposition |-> Disposition(ending),
                                      role |-> role])]
Record(v, r, ending, role) ==
    [v EXCEPT !.tried = @ \cup {r},
              !.attempts = Append(@, [route |-> r, disposition |-> Disposition(ending),
                                      role |-> role])]

Unanswered == {"INFRA_FAILURE", "QUOTA_FAILURE"}

\* Counting one logged attempt against the budgets.
Charged(v, disposition) ==
    IF disposition \in Unanswered THEN [v EXCEPT !.unanswered = @ + 1]
    ELSE IF disposition # "CAPABILITY_MISMATCH" THEN [v EXCEPT !.answered = @ + 1]
    ELSE v

\* stopped is read again after the attempt, unless a cross-check will read it.
Bug_StoppedMeanwhile(v) == FALSE
StoppedMeanwhile(v) == stopped /\ v.request # "cross_check"

\* The top of _cross_check's loop: it ends the solve unless the verifiers are asked.
Checking(v) ==
    IF v.checks = MaxVerification THEN Leave(v, "INDEPENDENT_VERIFIER_UNAVAILABLE")
    ELSE IF stopped THEN Leave([v EXCEPT !.cross_check = "STOPPED"], "SYSTEM_STOPPED")
    ELSE [v EXCEPT !.phase = "choosing", !.checks = @ + 1]

Judged(v, ending) ==
    IF ending = "VALIDATION_FAILED" THEN Leave(v, "VALIDATION_SERVICE_FAILED")
    ELSE IF StoppedMeanwhile(v) THEN Leave(v, "SYSTEM_STOPPED")
    ELSE IF ending = "UNVERIFIED" /\ v.request = "accept_unverified"
      THEN Leave(v, "RETURNED_WITHOUT_VERIFICATION")
    ELSE IF ending # "ACCEPTED" THEN Looped(v)
    ELSE IF v.request = "cross_check"
      THEN Checking([v EXCEPT !.cross_check = "UNAVAILABLE", !.primary = v.route])
    ELSE Leave(v, "QUALITY_THRESHOLD_MET")

\* A primary attempt was logged: decide, without an await, what comes next.
Completed(s, ending) ==
    LET r == solve[s].route
        v == Charged(Record(solve[s], r, ending, "PRIMARY"), Disposition(ending))
    IN /\ In(s, {"calling"})
       /\ Become(s, Judged(v, ending))
       /\ UNCHANGED <<stopped, ledger_failures>>

-----------------------------------------------------------------------------
(* The cross-check *)

Chosen(s) ==
    /\ In(s, {"choosing"})
    /\ \/ \E r \in Routes \ solve[s].tried :
            /\ Independent(solve[s].primary, r)
            /\ Become(s, [solve[s] EXCEPT !.phase = "verifying", !.route = r])
       \/ Become(s, Leave(solve[s], "INDEPENDENT_VERIFIER_UNAVAILABLE"))
    /\ UNCHANGED <<stopped, ledger_failures>>

LostVerifier(s) ==
    /\ In(s, {"verifying"})
    /\ Become(s, Checking(TriedAgain(solve[s], solve[s].route)))
    /\ UNCHANGED <<stopped, ledger_failures>>

VerifierError(s) ==
    /\ In(s, {"verifying"})
    /\ Become(s, Leave([solve[s] EXCEPT !.cross_check = "SERVICE_FAILED"],
                       "VALIDATION_SERVICE_FAILED"))
    /\ UNCHANGED <<stopped, ledger_failures>>

\* What compare says of the two texts: they agree, they differ, it cannot tell
\* (a free-form request), or it fails.
Comparisons == {"AGREE", "DIFFER", "NOT_ASSESSED", "FAILED"}

Textless == {"NO_TEXT", "INFRA_FAILURE", "COST_VIOLATION", "QUOTA_FAILURE", "CAPABILITY_MISMATCH"}

Bug_Verdict(ending, comparison) ==
    CASE comparison = "FAILED" -> "SERVICE_FAILED"
      [] comparison = "DIFFER" -> "DISAGREEMENT"
      [] comparison \in {"AGREE", "NOT_ASSESSED"} -> "PASSED"
Verdict(ending, comparison) ==
    CASE comparison = "FAILED" -> "SERVICE_FAILED"
      [] comparison = "DIFFER" -> "DISAGREEMENT"
      [] comparison = "AGREE" /\ ending = "ACCEPTED" -> "PASSED"
      [] OTHER -> "REJECTED"

ReasonOf(verdict) ==
    CASE verdict = "PASSED"         -> "QUALITY_THRESHOLD_MET"
      [] verdict = "DISAGREEMENT"   -> "MODEL_DISAGREEMENT"
      [] verdict = "REJECTED"       -> "CROSS_CHECK_REJECTED"
      [] verdict = "STOPPED"        -> "SYSTEM_STOPPED"
      [] verdict = "SERVICE_FAILED" -> "VALIDATION_SERVICE_FAILED"

Concluded(v, verdict) == Leave([v EXCEPT !.cross_check = verdict], ReasonOf(verdict))

Verified(s, ending, comparison) ==
    LET v == Record(solve[s], solve[s].route, ending, "CROSS_CHECK") IN
    /\ In(s, {"verifying"})
    /\ Become(s, IF stopped THEN Concluded(v, "STOPPED")
                 ELSE IF ending = "VALIDATION_FAILED" THEN Concluded(v, "SERVICE_FAILED")
                 ELSE IF ending \in Textless THEN Checking(v)
                 ELSE Concluded(v, Verdict(ending, comparison)))
    /\ UNCHANGED <<stopped, ledger_failures>>

-----------------------------------------------------------------------------
(* Around the solves *)

Awaiting == {"selecting", "calling", "choosing", "verifying"}

\* The caller's cancellation is raised at whatever the solve awaits, and what
\* the solve knew goes with it.
Cancel(s) ==
    /\ In(s, Awaiting)
    /\ Become(s, [Fresh EXCEPT !.phase = "cancelled"])
    /\ UNCHANGED <<stopped, ledger_failures>>

\* A ledger operation of this process fails, in this solve or in any other.
LedgerFails ==
    /\ ledger_failures < MaxLedgerFailures
    /\ ledger_failures' = ledger_failures + 1
    /\ UNCHANGED <<stopped, solve>>

\* close, and the FAIR.stopped property, which its owner may also clear.
SetStopped(value) ==
    /\ stopped' = value
    /\ UNCHANGED <<ledger_failures, solve>>

Step(s) ==
    \/ \E kind \in Kinds : Begin(s, kind) \/ CacheHit(s, kind)
    \/ Selected(s) \/ LostRace(s) \/ InternalError(s)
    \/ Chosen(s) \/ LostVerifier(s) \/ VerifierError(s)
    \/ \E ending \in Endings :
         \/ Completed(s, ending)
         \/ \E comparison \in Comparisons : Verified(s, ending, comparison)

Next ==
    \/ \E s \in Solves : Step(s) \/ Cancel(s)
    \/ LedgerFails
    \/ \E value \in BOOLEAN : SetStopped(value)

\* Every await of a solve ends: attempts have a deadline, the ledger a timeout.
Fairness == \A s \in Solves : WF_vars(Step(s))

Spec     == Init /\ [][Next]_vars
FairSpec == Spec /\ Fairness

-----------------------------------------------------------------------------
(* Properties *)

Ended(s) == solve[s].phase \in {"done", "cancelled"}
Log(s)   == solve[s].attempts
Given(v) == v.status \in {"ACCEPTED", "ACCEPTED_UNVERIFIED"}

\* An answer to a solve that needs a cross-check was accepted from two routes of
\* different providers, models and independence groups, the second a verifier.
CorroboratedWhenRequired ==
    \A s \in Solves : solve[s].request = "cross_check" /\ Given(solve[s]) =>
        \E i, j \in DOMAIN Log(s) :
            /\ i < j /\ Log(s)[i].role = "PRIMARY" /\ Log(s)[j].role = "CROSS_CHECK"
            /\ Log(s)[i].disposition = "ACCEPTED" /\ Log(s)[j].disposition = "ACCEPTED"
            /\ \A f \in {"provider", "model", "group"} : Log(s)[i].route[f] # Log(s)[j].route[f]

\* Once the router is stopped no solve hands out an answer, though its attempt
\* was under way and came back good.
StopWithholdsAnswers ==
    [][\A s \in Solves : Given(solve'[s]) /\ ~Given(solve[s]) => ~stopped]_vars

\* The two budgets bound what a solve spends, and the verifiers theirs: one
\* unanswered attempt beyond the tolerated ones ends the search, and "every
\* (provider, model) pair is tried at most once per solve", by either loop and
\* whatever the races between them and the governor.
SpentOn(s, dispositions) ==
    Cardinality({i \in DOMAIN Log(s) : Log(s)[i].role = "PRIMARY"
                                       /\ Log(s)[i].disposition \in dispositions})
BudgetsHold ==
    \A s \in Solves :
        /\ SpentOn(s, Dispositions \ {"INFRA_FAILURE", "QUOTA_FAILURE", "CAPABILITY_MISMATCH"})
             <= MaxAttempts
        /\ SpentOn(s, {"INFRA_FAILURE", "QUOTA_FAILURE"}) <= MaxUnanswered + 1
        /\ Cardinality({i \in DOMAIN Log(s) : Log(s)[i].role = "CROSS_CHECK"}) <= MaxVerification
        /\ \A i, j \in DOMAIN Log(s) : Log(s)[i].route = Log(s)[j].route => i = j

\* What a response says happened is what its log shows: no model eligible only
\* when none was attempted, all unavailable only when none was judged, all
\* failed on quality only when none went unverified.
ReasonIsLogged(v) ==
    CASE v.reason = "NO_ELIGIBLE_FREE_MODELS" -> v.attempts = <<>>
      [] v.reason = "ALL_FREE_MODELS_UNAVAILABLE" ->
           ~Logged(v, {"ACCEPTED", "QUALITY_FAILURE", "UNVERIFIED"})
      [] v.reason = "ALL_FREE_MODELS_FAILED_QUALITY" ->
           Logged(v, {"QUALITY_FAILURE"}) /\ ~Logged(v, {"UNVERIFIED"})
      [] v.reason = "VALIDATION_SERVICE_FAILED" ->
           v.cross_check = "SERVICE_FAILED" \/ Logged(v, {"UNVERIFIED"})
      [] OTHER -> TRUE

\* Its status and its account of the cross-check say nothing else than its
\* reason, though they are set in different places and a ledger that failed
\* meanwhile overrides the reason at the end: a failed service is never
\* reported as an escalation, no answer comes beside a cross-check it did not
\* pass, and an answer that passed is not lost to the failure.
FailedReasons ==
    {"VALIDATION_SERVICE_FAILED", "QUOTA_LEDGER_UNAVAILABLE", "ROUTER_INTERNAL_ERROR"}
StatusIsReason(v) ==
    /\ v.status = "FAILED" <=> v.reason \in FailedReasons
    /\ v.cross_check = "SERVICE_FAILED" => v.status = "FAILED"
    /\ Given(v) => v.cross_check \in {"NOT_RUN", "PASSED"}
    /\ v.cross_check = "PASSED" => v.status = "ACCEPTED"

ReasonFitsLog ==
    \A s \in Solves : solve[s].phase = "done" =>
        ReasonIsLogged(solve[s]) /\ StatusIsReason(solve[s])

\* Every solve that begins comes back, whatever races its reservations lose:
\* a route that keeps being refused is not selected for ever.
SolvesEnd == \A s \in Solves : solve[s].phase # "new" ~> Ended(s)
=============================================================================
