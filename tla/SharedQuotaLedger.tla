------------------------- MODULE SharedQuotaLedger -------------------------
(***************************************************************************)
(* The SQLite ledger that independent FAIR processes share                 *)
(* (fair/embedded/quota.py, class SharedQuotaLedger).  Every public method *)
(* is one BEGIN IMMEDIATE transaction, hence one action here.  What is not *)
(* atomic is the caller's clock: MemoryQuotaGovernor evaluates clock() on  *)
(* the event loop and the transaction runs later, on a worker thread and   *)
(* after up to five seconds of busy timeout.  MaxLag bounds that delay in  *)
(* ticks; each transaction takes some `now' no older than that.            *)
(*                                                                         *)
(* History variables, which are not in the database and no guard reads:    *)
(* held, spent and lastGrant record what was really granted, lost the      *)
(* refunds taken from a window they do not belong to, and ended and        *)
(* regular in which order the pool's windows ended, so that the counters   *)
(* can be compared with what happened.                                     *)
(***************************************************************************)
EXTENDS QuotaWindows, FiniteSets

CONSTANTS
    Pools,           \* quota pools, one provider specification each
    Applications,    \* the applications that share the ledger
    Attempts,        \* reservations that may be outstanding at once
    Limit,           \* Pools -> request_limit, or NoLimit
    Window,          \* Pools -> request_limit_window, or NoWindow
    NoLimit, NoWindow, NoReset, NoGrant,   \* the code's None, per use
    ObservedLimits,  \* limits a provider's headers may report
    ReportedResets,  \* reset times a provider may report
    MaxLag,          \* bound on the age of a transaction's clock reading
    MaxClock,        \* bound on time
    MaxUsed          \* bound on grants of a pool that has no limit

Resets  == Nat \cup {NoReset}
Grants  == [pool: Pools, app: Applications, stamp: Resets, live: BOOLEAN]

\* domain.py refuses a provider with a limit and no window, and a limit of 0.
ASSUME LimitAssumption ==
    /\ Limit \in [Pools -> (Nat \ {0}) \cup {NoLimit}]
    /\ Window \in [Pools -> Windows \cup {NoWindow}]
    /\ \A p \in Pools : Limit[p] # NoLimit => Window[p] # NoWindow
ASSUME NoneAssumption ==
    NoLimit \notin Nat /\ NoWindow \notin Windows /\ NoReset \notin Nat /\ NoGrant \notin Grants
ASSUME TimeAssumption ==
    /\ MaxLag \in Nat /\ MaxClock \in Nat /\ MaxUsed \in Nat
ASSUME InputAssumption ==
    /\ ObservedLimits \subseteq Nat /\ ReportedResets \subseteq Nat
    /\ IsFiniteSet(Attempts)

VARIABLES
    clock,      \* wall-clock time
    used,       \* quota_pool_state.used
    exhausted,  \* quota_pool_state.exhausted
    resetAt,    \* quota_pool_state.reset_at
    appUsed,    \* quota_application_usage.used, 0 for an absent row
    held,       \* the reservation each attempt still holds
    spent,      \* grants of the current window whose request was sent
    lastGrant,  \* when the current window's latest grant was made, 0 for none
    lost,       \* refunds of earlier windows taken off the current one's count
    ended,      \* the reset of the last window that was cleared, 0 for none
    regular     \* have the resets recorded for the pool only moved forward?

table   == <<used, exhausted, resetAt, appUsed>>
history == <<spent, lastGrant, lost, ended, regular>>
vars    == <<clock, table, held, history>>

TypeOK ==
    /\ clock \in Nat
    /\ used \in [Pools -> Nat]
    /\ exhausted \in [Pools -> BOOLEAN]
    /\ resetAt \in [Pools -> Resets]
    /\ appUsed \in [Pools -> [Applications -> Nat]]
    /\ held \in [Attempts -> Grants \cup {NoGrant}]
    /\ spent \in [Pools -> Nat]
    /\ lastGrant \in [Pools -> Nat]
    /\ lost \in [Pools -> Nat]
    /\ ended \in [Pools -> Nat]
    /\ regular \in [Pools -> BOOLEAN]

-----------------------------------------------------------------------------
\* The clock readings a transaction that commits now may carry.
Readings == {t \in 0..clock : clock - t <= MaxLag}

-----------------------------------------------------------------------------
(* _recover: the row as every operation sees it at `now'.                  *)
(* Operators named Bug_... are mutated forms of the definition that follows *)
(* them: plausible slips, kept to show which property notices each one.    *)

Bug_DueEarly(p, now)     == resetAt[p] # NoReset /\ now + 1 >= resetAt[p]
Bug_DueAfter(p, now)     == resetAt[p] # NoReset /\ now > resetAt[p]
Bug_DueUnlessSpent(p, now) == resetAt[p] # NoReset /\ now >= resetAt[p] /\ ~exhausted[p]
Bug_SharesKept(p, now)   == appUsed[p]

Due(p, now)            == resetAt[p] # NoReset /\ now >= resetAt[p]
UsedAt(p, now)         == IF Due(p, now) THEN 0 ELSE used[p]
ExhaustedAt(p, now)    == exhausted[p] /\ ~Due(p, now)
ResetAtTime(p, now)    == IF Due(p, now) THEN NoReset ELSE resetAt[p]
AppUsedAt(p, now)      == IF Due(p, now) THEN [x \in Applications |-> 0] ELSE appUsed[p]
SpentAt(p, now)        == IF Due(p, now) THEN 0 ELSE spent[p]
LastGrantAt(p, now)    == IF Due(p, now) THEN 0 ELSE lastGrant[p]
LostAt(p, now)         == IF Due(p, now) THEN 0 ELSE lost[p]
EndedAt(p, now)        == IF Due(p, now) THEN resetAt[p] ELSE ended[p]

\* A cleared window makes the reservations counted in it stale.
HeldAfterClearing(S) ==
    [a \in Attempts |-> IF held[a] # NoGrant /\ held[a].pool \in S
                          THEN [held[a] EXCEPT !.live = FALSE] ELSE held[a]]
HeldAt(p, now) == IF Due(p, now) THEN HeldAfterClearing({p}) ELSE held

WriteRow(p, u, e, r) ==
    /\ used' = [used EXCEPT ![p] = u]
    /\ exhausted' = [exhausted EXCEPT ![p] = e]
    /\ resetAt' = [resetAt EXCEPT ![p] = r]

\* A recorded reset moves forward when it lies after the end of the last window,
\* and no earlier than the reset it replaces.
Forward(p, r, now) ==
    r # NoReset => /\ r > EndedAt(p, now)
                   /\ ResetAtTime(p, now) # NoReset => r >= ResetAtTime(p, now)

\* The history of a pool whose reset becomes r, with n refunds of other windows.
Record(p, r, n, now) ==
    /\ spent' = [spent EXCEPT ![p] = SpentAt(p, now)]
    /\ lost' = [lost EXCEPT ![p] = LostAt(p, now) + n]
    /\ ended' = [ended EXCEPT ![p] = EndedAt(p, now)]
    /\ regular' = [regular EXCEPT ![p] = @ /\ Forward(p, r, now)]

-----------------------------------------------------------------------------
(* Operations *)

Init ==
    /\ clock = 0
    /\ used = [p \in Pools |-> 0]
    /\ exhausted = [p \in Pools |-> FALSE]
    /\ resetAt = [p \in Pools |-> NoReset]
    /\ appUsed = [p \in Pools |-> [x \in Applications |-> 0]]
    /\ held = [a \in Attempts |-> NoGrant]
    /\ spent = [p \in Pools |-> 0]
    /\ lastGrant = [p \in Pools |-> 0]
    /\ lost = [p \in Pools |-> 0]
    /\ ended = [p \in Pools |-> 0]
    /\ regular = [p \in Pools |-> TRUE]

Tick ==
    /\ clock < MaxClock
    /\ clock' = clock + 1
    /\ UNCHANGED <<table, held, history>>

\* remaining, available and report read after recovering; a refused reserve
\* does no more either.  report recovers several pools in one transaction.
Read(S, now) ==
    LET cleared == {p \in S : Due(p, now)} IN
    /\ cleared # {}
    /\ used' = [p \in Pools |-> IF p \in cleared THEN 0 ELSE used[p]]
    /\ exhausted' = [p \in Pools |-> exhausted[p] /\ p \notin cleared]
    /\ resetAt' = [p \in Pools |-> IF p \in cleared THEN NoReset ELSE resetAt[p]]
    /\ appUsed' = [p \in Pools |-> IF p \in cleared THEN [x \in Applications |-> 0]
                                                    ELSE appUsed[p]]
    /\ spent' = [p \in Pools |-> IF p \in cleared THEN 0 ELSE spent[p]]
    /\ lastGrant' = [p \in Pools |-> IF p \in cleared THEN 0 ELSE lastGrant[p]]
    /\ lost' = [p \in Pools |-> IF p \in cleared THEN 0 ELSE lost[p]]
    /\ ended' = [p \in Pools |-> IF p \in cleared THEN resetAt[p] ELSE ended[p]]
    /\ held' = HeldAfterClearing(cleared)
    /\ UNCHANGED <<clock, regular>>

\* The reset a granted reservation leaves on the pool, and is stamped with.
StampFor(p, now) ==
    LET reset_at == ResetAtTime(p, now) IN
    IF reset_at = NoReset /\ Limit[p] # NoLimit /\ Window[p] # NoWindow
      THEN next_window_reset(Window[p], now) ELSE reset_at

Bug_RoomAtLimit(p, now) == IF Limit[p] = NoLimit THEN UsedAt(p, now) < MaxUsed
                                                 ELSE UsedAt(p, now) <= Limit[p]
HasRoom(p, now) == IF Limit[p] = NoLimit THEN UsedAt(p, now) < MaxUsed
                                         ELSE UsedAt(p, now) < Limit[p]

reserve(a, p, app, now) ==
    /\ held[a] = NoGrant
    /\ ~ExhaustedAt(p, now)
    /\ HasRoom(p, now)
    /\ WriteRow(p, UsedAt(p, now) + 1, FALSE, StampFor(p, now))
    /\ appUsed' = [appUsed EXCEPT ![p] = [AppUsedAt(p, now) EXCEPT ![app] = @ + 1]]
    /\ held' = [HeldAt(p, now) EXCEPT
                  ![a] = [pool |-> p, app |-> app, stamp |-> StampFor(p, now), live |-> TRUE]]
    /\ Record(p, StampFor(p, now), 0, now)
    /\ lastGrant' = [lastGrant EXCEPT ![p] = clock]
    /\ UNCHANGED clock

\* The attempt's request was sent, or may have been: its count stands.  The
\* ledger is not called (release with refund=False), or the call failed.
Send(a) ==
    /\ held[a] # NoGrant
    /\ held' = [held EXCEPT ![a] = NoGrant]
    /\ spent' = IF held[a].live THEN [spent EXCEPT ![held[a].pool] = @ + 1] ELSE spent
    /\ UNCHANGED <<clock, table, lastGrant, lost, ended, regular>>

Bug_RefundAlways(p, window, now) == TRUE
Refundable(p, window, now) == ResetAtTime(p, now) = window

Bug_RefundUnfloored(n) == n - 1
Refunded(n) == AtLeast(n - 1, 0)

release(a, now) ==
    LET p      == held[a].pool
        app    == held[a].app
        refund == Refundable(p, held[a].stamp, now)
        left   == IF refund THEN Refunded(UsedAt(p, now)) ELSE UsedAt(p, now)
    IN
    /\ held[a] # NoGrant
    /\ WriteRow(p, left, ExhaustedAt(p, now), ResetAtTime(p, now))
    /\ Record(p, ResetAtTime(p, now), IF held[a].live THEN 0 ELSE UsedAt(p, now) - left, now)
    /\ appUsed' = [appUsed EXCEPT ![p] =
                     IF refund THEN [AppUsedAt(p, now) EXCEPT ![app] = Refunded(@)]
                               ELSE AppUsedAt(p, now)]
    /\ held' = [HeldAt(p, now) EXCEPT ![a] = NoGrant]
    /\ lastGrant' = [lastGrant EXCEPT ![p] = LastGrantAt(p, now)]
    /\ UNCHANGED clock

\* The part of the window a provider's headers describe, which may leave the
\* pool another reset, moves nothing that was granted.
KeepGrants(p, r, now) ==
    /\ appUsed' = [appUsed EXCEPT ![p] = AppUsedAt(p, now)]
    /\ held' = HeldAt(p, now)
    /\ Record(p, r, 0, now)
    /\ lastGrant' = [lastGrant EXCEPT ![p] = LastGrantAt(p, now)]
    /\ UNCHANGED clock

\* A reset is taken only when it lies ahead, within a day.
Usable(reset, now) == reset # NoReset /\ now < reset /\ reset <= now + Day

ResetAfterObserving(p, remaining, reset, now) ==
    LET current == ResetAtTime(p, now) IN
    IF ~Usable(reset, now) THEN current
    ELSE IF ~ExhaustedAt(p, now) THEN reset
    ELSE IF remaining = 0 /\ current # NoReset THEN AtLeast(current, reset)
    ELSE current

\* Exhaustion is persisted only when the ledger knows how it will recover.
Bug_SpentWithoutReset(remaining, reset) == remaining = 0
ShowsSpent(remaining, reset) == remaining = 0 /\ reset # NoReset

\* The provider's own count is taken only when it is the greater.
Bug_ProviderCountWins(p, observed_limit, remaining, now) == observed_limit - remaining
CountAfterObserving(p, observed_limit, remaining, now) ==
    AtLeast(UsedAt(p, now), observed_limit - remaining)

\* A report with more remaining than its limit is ignored: it is no step.
observe(p, observed_limit, remaining, reset, now) ==
    /\ remaining <= observed_limit
    /\ LET newReset == ResetAfterObserving(p, remaining, reset, now) IN
       /\ WriteRow(p, CountAfterObserving(p, observed_limit, remaining, now),
                   ExhaustedAt(p, now) \/ ShowsSpent(remaining, newReset), newReset)
       /\ KeepGrants(p, newReset, now)

Bug_LatestReportWins(p, reset, now) == reset
ResetAfterExhausting(p, reset, now) ==
    IF ExhaustedAt(p, now) /\ ResetAtTime(p, now) # NoReset
      THEN AtLeast(reset, ResetAtTime(p, now)) ELSE reset

exhaust(p, reset, now) ==
    /\ reset > now
    /\ LET newReset == ResetAfterExhausting(p, reset, now) IN
       /\ WriteRow(p, UsedAt(p, now), TRUE, newReset)
       /\ KeepGrants(p, newReset, now)

Next ==
    \/ Tick
    \/ \E a \in Attempts : Send(a)
    \/ \E now \in Readings :
         \/ \E S \in SUBSET Pools : Read(S, now)
         \/ \E a \in Attempts, p \in Pools, app \in Applications : reserve(a, p, app, now)
         \/ \E a \in Attempts : release(a, now)
         \/ \E p \in Pools, limit \in ObservedLimits, reset \in ReportedResets \cup {NoReset} :
              \E remaining \in 0..limit : observe(p, limit, remaining, reset, now)
         \/ \E p \in Pools, reset \in ReportedResets : exhaust(p, reset, now)

\* Time passes, and every solve reads every provider's pool (selector.py calls
\* quota.available on each), so a pool that is due is eventually recovered.
Fairness == WF_vars(Tick) /\ \A p \in Pools : WF_vars(\E now \in Readings : Read({p}, now))

Spec     == Init /\ [][Next]_vars
FairSpec == Spec /\ Fairness

-----------------------------------------------------------------------------
(* Properties *)

Limited(p)  == Limit[p] # NoLimit
LiveIn(h, p) == {a \in Attempts : h[a] # NoGrant /\ h[a].pool = p /\ h[a].live}
LiveOn(p)   == LiveIn(held, p)
Consumed(p) == spent[p] + Cardinality(LiveOn(p))

\* The counter accounts for every grant of a limited pool's current window, save
\* one for each refund of an earlier window that was taken off it: no report,
\* reset, clearing or refund of the window's own loses a grant.
CountCoversGrants == \A p \in Pools : Limited(p) => Consumed(p) <= used[p] + lost[p]

\* No window of a limited pool hands out more requests than the tier's limit and
\* one for each refund wrongly taken off it, whatever the processes, clocks and
\* reports do; and as long as the resets recorded for the pool only moved
\* forward no refund is, so that the limit itself holds ("exceeds a free tier,
\* which is the one outcome this ledger exists to prevent").
WithinTier ==
    \A p \in Pools : Limited(p) => /\ Consumed(p) <= Limit[p] + lost[p]
                                   /\ regular[p] => lost[p] = 0

\* The requests attributed to each application: its n-th of the window is <<x, n>>.
SharesOf(u) == UNION {{x} \X (1..u[x]) : x \in Applications}

\* What the applications used of a pool, together.
AppTotal(p) == Cardinality(SharesOf(appUsed[p]))

\* The windows of a pool follow each other as long as the resets recorded for it
\* moved forward, and then a stamp of a limited pool names one of them: a live
\* reservation's is at most the pool's reset, a stale one's at most the end of the
\* last window, which the window that stands ends after.
StampsInOrder ==
    /\ \A p \in Pools : regular[p] /\ resetAt[p] # NoReset => ended[p] < resetAt[p]
    /\ \A a \in Attempts : LET p == held[a].pool IN
          held[a] # NoGrant /\ Limited(p) /\ regular[p] =>
             /\ held[a].stamp # NoReset
             /\ IF held[a].live THEN resetAt[p] # NoReset /\ held[a].stamp <= resetAt[p]
                                ELSE held[a].stamp <= ended[p]

\* An exhausted pool always has a reset on record; one without would strand
\* every application until the file was edited by hand (comment in observe).
ExhaustedHasReset == \A p \in Pools : exhausted[p] => resetAt[p] # NoReset

\* The reset that will clear a window lies after every grant the window holds, but
\* for the age of the clock readings: a clear wipes no request made MaxLag or more
\* after the boundary it stands for.
GrantsNearReset ==
    \A p \in Pools : resetAt[p] # NoReset => lastGrant[p] < resetAt[p] + MaxLag

\* A window ends once and whole, late clocks and moved resets included: a stamp
\* names one window, the clear that ends it wipes no later grant, and it takes the
\* applications' shares with it, so that they never add up to more than what the
\* counter accounts for, and usage_report attributes no request twice.
WindowsInOrder ==
    /\ StampsInOrder
    /\ GrantsNearReset
    /\ \A p \in Pools : AppTotal(p) <= used[p] + lost[p]

\* A block ends only once its recorded reset has come, and until then the
\* recorded reset never moves earlier: late or reordered reports of an
\* exhaustion neither lift it nor shorten it.
BlockNeverShortened ==
    [][\A p \in Pools : exhausted[p] =>
          IF exhausted'[p] THEN resetAt'[p] >= resetAt[p] ELSE clock >= resetAt[p]]_vars

\* Every block whose recorded end falls within the modelled time is lifted:
\* exhaustion is never permanent.
BlocksEnd == \A p \in Pools :
    exhausted[p] ~> (~exhausted[p] \/ (resetAt[p] # NoReset /\ resetAt[p] > MaxClock))

\* The ledger implements FreeTier: the window's grants are the live ones.
Tier == INSTANCE FreeTier WITH
            end <- resetAt, blocked <- exhausted, live <- [p \in Pools |-> LiveOn(p)],
            forward <- regular, Lag <- MaxLag
ImplementsFreeTier == Tier!Spec

\* The step lowers the pool's count without its recorded reset having come.
TakesFrom(p) == used'[p] < used[p] /\ ~(resetAt[p] # NoReset /\ clock >= resetAt[p])
GivesBack(a) == held[a] # NoGrant /\ held'[a] = NoGrant

\* release's docstring: a reservation is given back "only while the
\* reservation's own window is still current"; one whose window was cleared is
\* never subtracted from the window that followed.
RefundsInOwnWindow ==
    [][\A a \in Attempts : GivesBack(a) /\ ~held[a].live => ~TakesFrom(held[a].pool)]_vars
=============================================================================
