--------------------------- MODULE QuotaGovernor ---------------------------
(***************************************************************************)
(* What one FAIR process knows of one provider (fair/embedded/quota.py,    *)
(* class MemoryQuotaGovernor) and how the router's attempts drive it       *)
(* (fair/embedded/router.py, EmbeddedRouter._attempt).  Attempts are       *)
(* coroutines: an action is what one of them does between two awaits.      *)
(* With a shared ledger every reservation, report and refund is a thread   *)
(* hop during which the others run; without one only the provider's call   *)
(* is awaited.  The ledger's answers are free choices here: its own state  *)
(* is the subject of SharedQuotaLedger.                                    *)
(*                                                                         *)
(* A probe token is the attempt that claimed it: an attempt claims at most *)
(* one, so the code's sequence number distinguishes nothing more.          *)
(***************************************************************************)
EXTENDS QuotaWindows, Sequences, FiniteSets

CONSTANTS
    Attempts,         \* attempts that may be in flight at once
    Models,           \* the provider's models
    Provider,         \* no one model: the provider-wide key of _minute_strikes
    Limit, Window,    \* request_limit and request_limit_window of the provider
    NoLimit, NoWindow, NoReset, NoProbe,   \* the code's None, or 0, per use
    Cooldown,         \* settings.cooldown_seconds
    CircuitFailures, CircuitWindow,        \* settings.circuit_failures, ..._window_seconds
    Lease,            \* how long a probe is owned: the attempt's deadline and a margin
    MinuteWindow,     \* _PER_MINUTE_WINDOW_SECONDS
    ExhaustionRetry,  \* _EXHAUSTION_RETRY_SECONDS
    Waits,            \* Retry-After values a refusal may state, 0 for none usable
    ReportedResets,   \* resets a provider may report
    MaxClock,         \* bound on time
    MaxUsed           \* bound on requests counted when there is no limit

Circuits == {"CLOSED", "OPEN", "HALF_OPEN"}
Phases   == {"idle", "reserving", "calling", "observing", "exhausting", "releasing", "declining"}
Resets   == Nat \cup {NoReset}
States   ==
    [used: Nat, exhausted: BOOLEAN, security_blocked: BOOLEAN, blocked_until: Nat,
     throttled_until: Nat, reset_at: Resets, circuit_state: Circuits, probe_until: Nat,
     probe_token: Attempts \cup {NoProbe}, failures: Seq(Nat),
     \* Not in the code, and kept without a ledger only: windows cleared, requests of this
     \* one sent, refunds of earlier ones lost to it; was no recorded reset moved earlier?
     window: Nat, sent: Nat, lost: Nat, regular: BOOLEAN]

ASSUME GovernorAssumption ==
    /\ IsFiniteSet(Attempts)
    /\ Limit \in (Nat \ {0}) \cup {NoLimit} /\ Window \in Windows \cup {NoWindow}
    /\ Limit # NoLimit => Window # NoWindow
    /\ NoLimit \notin Nat /\ NoWindow \notin Windows /\ NoReset \notin Nat
    /\ NoProbe \notin Attempts /\ Provider \notin Models
    /\ {Cooldown, CircuitFailures, CircuitWindow, Lease, MinuteWindow, ExhaustionRetry}
         \subseteq Nat \ {0}
    /\ Waits \subseteq Nat /\ ReportedResets \subseteq Nat
    /\ MaxClock \in Nat /\ MaxUsed \in Nat

VARIABLES
    shared,          \* is a shared ledger configured? Fixed when the process starts
    clock,           \* the process's clock
    state,           \* the provider's QuotaState
    model_blocks,    \* model -> when its own bench ends, 0 for never benched
    minute_strikes,  \* key -> per-minute refusals in a row, and when their bench ends
    attempt          \* what each attempt is doing, for which model, counted in which window

vars == <<shared, clock, state, model_blocks, minute_strikes, attempt>>

TypeOK ==
    /\ shared \in BOOLEAN
    /\ clock \in Nat
    /\ state \in States
    /\ state.circuit_state = "HALF_OPEN" => state.probe_token # NoProbe
    /\ model_blocks \in [Models -> Nat]
    /\ minute_strikes \in [Models \cup {Provider} -> [count: 0..3, until: Nat]]
    /\ attempt \in [Attempts ->
         [phase: Phases, model: Models \cup {Provider}, local_window: Resets, window: Nat]]

-----------------------------------------------------------------------------
(* Operations of the governor, as functions of the QuotaState s they find. *)
(* Operators named Bug_... are mutated forms of the definition that follows *)
(* them: plausible slips, kept to show which property notices each one.    *)

WindowOver(s) == s.reset_at # NoReset /\ clock >= s.reset_at

Cleared(s) ==
    IF WindowOver(s)
      THEN [s EXCEPT !.used = 0, !.exhausted = FALSE, !.reset_at = NoReset,
                     !.window = IF shared THEN @ ELSE @ + 1, !.sent = 0, !.lost = 0]
      ELSE s

Bug_LeaseOver(s) == FALSE
LeaseOver(s) == s.circuit_state = "HALF_OPEN" /\ clock >= s.probe_until

Opened(s) ==
    [s EXCEPT !.circuit_state = "OPEN", !.blocked_until = clock + Cooldown,
              !.probe_until = 0, !.probe_token = NoProbe]

\* _recover, which every operation runs first.
Recovered(s) == IF LeaseOver(s) THEN Opened(Cleared(s)) ELSE Cleared(s)

Bug_HasRoom(s) == Limit = NoLimit \/ s.used <= Limit
HasRoom(s) == IF Limit = NoLimit THEN s.used < MaxUsed ELSE s.used < Limit

AvailableLocal(s) ==
    /\ ~s.exhausted
    /\ ~s.security_blocked
    /\ s.circuit_state # "HALF_OPEN"
    /\ clock >= s.blocked_until
    /\ clock >= s.throttled_until
    /\ shared \/ HasRoom(s)

Bug_Claimed(s, a) ==
    IF s.circuit_state = "OPEN"
      THEN [s EXCEPT !.circuit_state = "HALF_OPEN", !.probe_until = clock + Lease]
      ELSE s
Claimed(s, a) ==
    IF s.circuit_state = "OPEN"
      THEN [s EXCEPT !.circuit_state = "HALF_OPEN", !.probe_token = a,
                     !.probe_until = clock + Lease]
      ELSE s

Bug_ProbeReleased(s, a) == s
ProbeReleased(s, a) ==
    IF s.circuit_state = "HALF_OPEN" /\ s.probe_token = a
      THEN [s EXCEPT !.circuit_state = "OPEN", !.probe_until = 0, !.probe_token = NoProbe]
      ELSE s

Counted(s) ==
    [s EXCEPT !.used = @ + 1,
              !.reset_at = IF @ = NoReset /\ Limit # NoLimit /\ Window # NoWindow
                             THEN next_window_reset(Window, clock) ELSE @]

\* An outcome of an attempt that does not own the half-open slot.
Bug_StaleOutcome(s, a) == FALSE
StaleOutcome(s, a) == s.circuit_state = "HALF_OPEN" /\ s.probe_token # a

\* The failures are recorded in the order of time: those that count are the last.
RecentFailures(s) ==
    LET old == {i \in DOMAIN s.failures : s.failures[i] < clock - CircuitWindow}
    IN SubSeq(s.failures, Cardinality(old) + 1, Len(s.failures))

Failed(s, a) ==
    LET recent == Append(RecentFailures(s), clock)
        failed == [s EXCEPT !.failures = recent]
    IN IF StaleOutcome(s, a) THEN s
       ELSE IF s.circuit_state = "HALF_OPEN" \/ Len(recent) >= CircuitFailures
         THEN Opened(failed) ELSE failed

Bug_Succeeded(s, a) ==
    IF StaleOutcome(s, a) THEN s
    ELSE [s EXCEPT !.circuit_state = "CLOSED", !.probe_until = 0, !.probe_token = NoProbe,
                   !.blocked_until = 0]
Succeeded(s, a) ==
    IF StaleOutcome(s, a) THEN s
    ELSE [s EXCEPT !.failures = <<>>, !.circuit_state = "CLOSED", !.probe_until = 0,
                   !.probe_token = NoProbe, !.blocked_until = 0]

ReopenedIfProbing(s) == IF s.circuit_state = "HALF_OPEN" THEN Opened(s) ELSE s

Throttled(s, until) ==
    [ReopenedIfProbing(s) EXCEPT !.throttled_until = AtLeast(@, until)]

\* For `regular', which only the local count needs.
NotEarlier(s, r) == ~shared /\ s.reset_at # NoReset => r >= s.reset_at

\* _exhaustion_reset: the provider's word if it lies ahead, else FAIR's window.
ExhaustionReset(reset) ==
    IF reset # NoReset /\ reset > clock THEN reset
    ELSE IF Window # NoWindow THEN next_window_reset(Window, clock)
    ELSE clock + ExhaustionRetry

\* The reset is overwritten, whether or not an exhaustion is already on record.
Exhausted(s, reset) ==
    LET r == ExhaustionReset(reset) IN
    ReopenedIfProbing([s EXCEPT !.exhausted = TRUE, !.reset_at = r,
                                !.regular = @ /\ NotEarlier(s, r)])

Usable(reset) == reset # NoReset /\ clock < reset /\ reset <= clock + Day

\* Within _observe: a first report overrides the reset, sooner or later; a second
\* one of a known exhaustion only defers it, and a positive one then moves nothing.
Bug_KnownReset(s, remaining, reset) == IF Usable(reset) THEN reset ELSE s.reset_at
KnownReset(s, remaining, reset) ==
    IF ~Usable(reset) THEN s.reset_at
    ELSE IF ~s.exhausted \/ s.reset_at = NoReset THEN reset
    ELSE IF remaining = 0 THEN AtLeast(s.reset_at, reset) ELSE s.reset_at

ResetAfterObserving(s, remaining, reset) ==
    LET known == KnownReset(s, remaining, reset) IN
    IF remaining = 0 /\ known = NoReset THEN ExhaustionReset(NoReset) ELSE known

Observed(s, remaining, reset) ==
    LET r == ResetAfterObserving(s, remaining, reset) IN
    [s EXCEPT !.used = IF shared \/ Limit = NoLimit \/ remaining > Limit THEN @
                         ELSE AtLeast(@, Limit - remaining),
              !.exhausted = @ \/ remaining = 0,
              !.reset_at = r,
              !.regular = @ /\ NotEarlier(s, r)]

\* unblock_security leaves exhaustion, benches and a claimed slot's token alone.
Resumed(s) ==
    [s EXCEPT !.security_blocked = FALSE, !.failures = <<>>, !.circuit_state = "CLOSED",
              !.blocked_until = 0, !.throttled_until = 0]

-----------------------------------------------------------------------------
(* Rate limits: how long a refusal benches its key (_throttle_until).      *)

Refusal(key, wait) ==
    LET old    == minute_strikes[key]
        stated == IF wait = 0 THEN MinuteWindow ELSE wait
        again  == old.count > 0 /\ clock - old.until <= MinuteWindow
        count  == IF ~again THEN 1 ELSE IF old.count = 3 THEN 3 ELSE old.count + 1
        hold   == CASE count = 1 -> stated
                    [] count = 2 -> AtLeast(wait, MinuteWindow)
                    [] OTHER     -> AtLeast(AtLeast(wait, MinuteWindow), Cooldown)
    IN IF old.count > 0 /\ clock < old.until
         THEN [old EXCEPT !.until = AtLeast(@, clock + stated)]
         ELSE [count |-> count, until |-> clock + hold]

ThrottleUntil(key, wait, per_minute) ==
    IF per_minute THEN Refusal(key, wait).until ELSE clock + AtLeast(Cooldown, wait)

StrikesAfter(key, wait, per_minute) ==
    IF per_minute THEN [minute_strikes EXCEPT ![key] = Refusal(key, wait)] ELSE minute_strikes

NoStrike == [count |-> 0, until |-> 0]

\* answered: the model's own refusals and the provider's are over.
Answered(m) == [minute_strikes EXCEPT ![m] = NoStrike, ![Provider] = NoStrike]

Bug_Benched(m, until) == [model_blocks EXCEPT ![m] = until]
Benched(m, until) == [model_blocks EXCEPT ![m] = AtLeast(@, until)]

Bug_ModelAvailable(m) == TRUE
ModelAvailable(m) == clock >= model_blocks[m]

-----------------------------------------------------------------------------
(* One attempt, from its reservation to the end of _attempt's finally.     *)

Idle == [phase |-> "idle", model |-> Provider, local_window |-> NoReset, window |-> 0]

Init ==
    /\ shared \in BOOLEAN
    /\ clock = 0
    /\ state = [used |-> 0, exhausted |-> FALSE, security_blocked |-> FALSE,
                blocked_until |-> 0, throttled_until |-> 0, reset_at |-> NoReset,
                circuit_state |-> "CLOSED", probe_until |-> 0, probe_token |-> NoProbe,
                failures |-> <<>>, window |-> 0, sent |-> 0, lost |-> 0,
                regular |-> TRUE]
    /\ model_blocks = [m \in Models |-> 0]
    /\ minute_strikes = [k \in Models \cup {Provider} |-> NoStrike]
    /\ attempt = [a \in Attempts |-> Idle]

In(a, phases) == attempt[a].phase \in phases
Becomes(a, phase) == attempt' = [attempt EXCEPT ![a].phase = phase]
Ends(a) == attempt' = [attempt EXCEPT ![a] = Idle]

\* The attempt ends with its request counted as sent; finally gives the slot back.
Sent(s, a) == IF attempt[a].window = s.window /\ ~shared THEN [s EXCEPT !.sent = @ + 1] ELSE s
Finish(s, a) ==
    /\ state' = ProbeReleased(Sent(Recovered(s), a), a)
    /\ Ends(a)

Tick ==
    /\ clock < MaxClock
    /\ clock' = clock + 1
    /\ UNCHANGED <<shared, state, model_blocks, minute_strikes, attempt>>

\* available, state, effective_status, and a reservation refused out of hand.
Look ==
    /\ Recovered(state) # state
    /\ state' = Recovered(state)
    /\ UNCHANGED <<shared, clock, model_blocks, minute_strikes, attempt>>

\* reserve_probe: with a ledger the slot is claimed before its answer is
\* awaited, else the request is counted and dispatched at once.  The selector
\* saw the model unbenched, with a ledger some awaits ago.
reserve_probe(a, m) ==
    LET s       == Recovered(state)
        claimed == Claimed(s, a)
        counted == IF shared THEN claimed ELSE Counted(claimed)
    IN /\ In(a, {"idle"})
       /\ AvailableLocal(s)
       /\ shared \/ ModelAvailable(m)
       /\ state' = counted
       /\ attempt' = [attempt EXCEPT ![a] =
            [phase |-> IF shared THEN "reserving" ELSE "calling", model |-> m,
             local_window |-> counted.reset_at, window |-> counted.window]]
       /\ UNCHANGED <<shared, clock, model_blocks, minute_strikes>>

\* The ledger granted: nothing of the provider's own state is looked at again,
\* only whether the model was benched meanwhile (then the grant is given back).
Granted(a) ==
    /\ In(a, {"reserving"})
    /\ IF ModelAvailable(attempt[a].model)
         THEN Becomes(a, "calling") /\ UNCHANGED state
         ELSE Becomes(a, "declining") /\ state' = ProbeReleased(Recovered(state), a)
    /\ UNCHANGED <<shared, clock, model_blocks, minute_strikes>>

\* The ledger refused or failed, or the attempt was cancelled waiting for it.
Refused(a) ==
    /\ In(a, {"reserving"})
    /\ state' = ProbeReleased(state, a)
    /\ Ends(a)
    /\ UNCHANGED <<shared, clock, model_blocks, minute_strikes>>

\* The refund of a declined grant returned, or was cancelled.
Declined(a) ==
    /\ In(a, {"declining"})
    /\ Ends(a)
    /\ UNCHANGED <<shared, clock, state, model_blocks, minute_strikes>>

\* success and answered, once what the answer says of the quota is taken in.
success(s, a) ==
    /\ Finish(Succeeded(Recovered(s), a), a)
    /\ minute_strikes' = Answered(attempt[a].model)
    /\ UNCHANGED <<shared, clock>>

AnsweredPlainly(a) ==
    /\ In(a, {"calling", "observing"})
    /\ success(state, a)
    /\ UNCHANGED model_blocks

\* observe_model: a per-model allowance with nothing left benches the model.
AnsweredWithModelQuota(a, reset) ==
    /\ In(a, {"calling"})
    /\ success(state, a)
    /\ model_blocks' = Benched(attempt[a].model, ExhaustionReset(reset))

AnsweredWithQuota(a, remaining, reset) ==
    LET s == Observed(Recovered(state), remaining, reset) IN
    /\ In(a, {"calling"})
    /\ IF shared
         THEN /\ state' = s
              /\ Becomes(a, "observing")
              /\ UNCHANGED <<shared, clock, minute_strikes>>
         ELSE success(s, a)
    /\ UNCHANGED model_blocks

\* RateLimited.
throttle(a, wait, per_minute) ==
    /\ In(a, {"calling"})
    /\ Finish(Throttled(Recovered(state), ThrottleUntil(Provider, wait, per_minute)), a)
    /\ minute_strikes' = StrikesAfter(Provider, wait, per_minute)
    /\ UNCHANGED <<shared, clock, model_blocks>>

throttle_model(a, wait, per_minute) ==
    LET m == attempt[a].model IN
    /\ In(a, {"calling"})
    /\ Finish(state, a)
    /\ model_blocks' = Benched(m, ThrottleUntil(m, wait, per_minute))
    /\ minute_strikes' = StrikesAfter(m, wait, per_minute)
    /\ UNCHANGED <<shared, clock>>

\* QuotaExceeded.
exhaust(a, reset) ==
    LET s == Exhausted(Recovered(state), reset) IN
    /\ In(a, {"calling"})
    /\ IF shared THEN state' = s /\ Becomes(a, "exhausting") ELSE Finish(s, a)
    /\ UNCHANGED <<shared, clock, model_blocks, minute_strikes>>

exhaust_model(a, reset) ==
    /\ In(a, {"calling"})
    /\ Finish(state, a)
    /\ model_blocks' = Benched(attempt[a].model, ExhaustionReset(reset))
    /\ UNCHANGED <<shared, clock, minute_strikes>>

\* RequestNotSupported, ModelUnavailable: nothing was sent, so the probe and,
\* while its window is current, the request are given back.
Bug_Refundable(s, a) == TRUE
Refundable(s, a) == s.reset_at = attempt[a].local_window

Refunded(n) == AtLeast(n - 1, 0)

\* A refund of a request that an earlier window counted is lost to this one.
GivenBack(s, a) ==
    LET left == Refunded(s.used) IN
    IF ~Refundable(s, a) THEN s
    ELSE [s EXCEPT !.used = left,
                   !.lost = IF attempt[a].window = s.window THEN @ ELSE @ + (s.used - left)]

NotSent(a) ==
    LET s == ProbeReleased(Recovered(state), a) IN
    /\ In(a, {"calling"})
    /\ IF shared
         THEN state' = s /\ Becomes(a, "releasing")
         ELSE state' = GivenBack(s, a) /\ Ends(a)
    /\ UNCHANGED <<shared, clock, model_blocks, minute_strikes>>

\* The ledger took the refund or the exhaustion, or the attempt was cancelled
\* in that await; or the outcome says nothing of the provider: too large,
\* denied, refused by its schema, a defect of FAIR's, a cancellation.
NoVerdict(a) ==
    /\ In(a, {"calling", "observing", "exhausting", "releasing"})
    /\ Finish(state, a)
    /\ UNCHANGED <<shared, clock, model_blocks, minute_strikes>>

\* BillingViolation, AuthenticationFailed.
block_security(a) ==
    /\ In(a, {"calling"})
    /\ Finish([Recovered(state) EXCEPT !.security_blocked = TRUE], a)
    /\ UNCHANGED <<shared, clock, model_blocks, minute_strikes>>

\* Any other error, the attempt's own deadline included.
failure(a) ==
    /\ In(a, {"calling"})
    /\ Finish(Failed(Recovered(state), a), a)
    /\ UNCHANGED <<shared, clock, model_blocks, minute_strikes>>

\* The operator's resume_provider.
unblock_security ==
    /\ state' = Resumed(Recovered(state))
    /\ UNCHANGED <<shared, clock, model_blocks, minute_strikes, attempt>>

Outcome(a) ==
    \/ AnsweredPlainly(a) \/ NotSent(a) \/ NoVerdict(a) \/ block_security(a) \/ failure(a)
    \/ \E reset \in ReportedResets \cup {NoReset} :
         \/ AnsweredWithModelQuota(a, reset) \/ exhaust(a, reset) \/ exhaust_model(a, reset)
         \/ \E remaining \in 0..1 : AnsweredWithQuota(a, remaining, reset)
    \/ \E wait \in Waits, per_minute \in BOOLEAN :
         throttle(a, wait, per_minute) \/ throttle_model(a, wait, per_minute)

Next ==
    \/ Tick
    \/ Look
    \/ unblock_security
    \/ \E a \in Attempts :
         \/ \E m \in Models : reserve_probe(a, m)
         \/ Granted(a) \/ Refused(a) \/ Declined(a)
         \/ Outcome(a)

\* Time passes, and selection looks at every provider on every solve.
Fairness == WF_vars(Tick) /\ WF_vars(Look)

Spec     == Init /\ [][Next]_vars
FairSpec == Spec /\ Fairness

-----------------------------------------------------------------------------
(* Properties *)

Live == {a \in Attempts : In(a, {"calling"}) /\ attempt[a].window = state.window}

\* Without a ledger the local counter covers the requests of the current window
\* that were sent or may yet be, and a window sends no more than the provider's
\* limit, save one for each refund of an earlier window taken off it; and none is
\* as long as no report or refusal moved the reset on record to an earlier time.
LocalWithinTier ==
    ~shared /\ Limit # NoLimit =>
        LET taken == state.sent + Cardinality(Live) IN
        /\ taken <= state.used + state.lost
        /\ taken <= Limit + state.lost
        /\ state.regular => state.lost = 0

\* A half-open slot is always owned by an attempt still in flight: however an
\* attempt ends (cancelled waiting for the ledger, refused, benched meanwhile,
\* a defect), it does not leave the provider sidelined with nobody probing it.
\* And a closed circuit never holds as many recent failures as open it, so one
\* failure after a recovery does not reopen it on the strength of old ones.
CircuitConsistent ==
    /\ state.circuit_state = "HALF_OPEN" =>
          \E a \in Attempts :
              state.probe_token = a /\ In(a, {"reserving", "calling", "observing"})
    /\ state.circuit_state = "CLOSED" => Len(state.failures) < CircuitFailures

\* While a probe's lease runs, the half-open circuit is closed by the end of the
\* attempt that owns it, or by the operator: a reply to a request sent before the outage does not
\* declare the provider recovered while the real probe is still out.
OnlyOwnerCloses ==
    [][state.circuit_state = "HALF_OPEN" /\ ~LeaseOver(state)
       /\ state'.circuit_state = "CLOSED" =>
         attempt' = attempt \/ \E a \in Attempts : state.probe_token = a /\ attempt'[a] = Idle]_vars

Dispatched(a) == ~In(a, {"calling"}) /\ attempt'[a].phase = "calling"

\* No request is sent to a model while its own bench runs, though the bench may
\* have begun after the model was selected; so a per-minute refusal that finds
\* a bench running belongs to a request sent before it, as _throttle_until says.
DispatchHonoursBench ==
    [][\A a \in Attempts : Dispatched(a) =>
         LET m == attempt'[a].model
         IN clock >= model_blocks[m] /\ clock >= minute_strikes[m].until]_vars

\* An attempt is told that the provider's quota is exceeded.
ExhaustAnswered ==
    \E a \in Attempts, reset \in ReportedResets \cup {NoReset} : exhaust(a, reset)

\* Outcomes arriving in any order never shorten a model's own bench, nor the
\* provider's throttle, which only the operator lifts; and nobody ends a known
\* exhaustion before the reset on record.  That reset is moved earlier by nothing
\* a response reports, stale or first, but by another refusal: exhaust takes the
\* latest one's reset, or FAIR's guess, where the ledger's exhaust keeps the later.
BenchesNeverShortened ==
    [][/\ \A m \in Models : model_blocks'[m] >= model_blocks[m]
       /\ state'.throttled_until < state.throttled_until => attempt' = attempt
       /\ state.exhausted /\ ~WindowOver(state) =>
            /\ state'.exhausted /\ clock < state'.reset_at
            /\ state'.reset_at >= state.reset_at \/ ExhaustAnswered]_vars

\* A half-open slot whose lease ends within the modelled time does not stay
\* taken, even if the attempt that owns it never returns.
ProbeSlotReturns ==
    state.circuit_state = "HALF_OPEN" ~>
        state.circuit_state # "HALF_OPEN" \/ state.probe_until > MaxClock
=============================================================================
