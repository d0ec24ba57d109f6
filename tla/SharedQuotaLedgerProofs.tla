---------------------- MODULE SharedQuotaLedgerProofs ----------------------
(***************************************************************************)
(* Theorems about SharedQuotaLedger for every value of its constants.      *)
(***************************************************************************)
EXTENDS SharedQuotaLedger, CommonLemmas, TLAPS

\* A window always clears after the moment it was opened.
LEMMA WindowAhead ==
  ASSUME NEW w \in Windows, NEW now \in Nat
  PROVE  next_window_reset(w, now) \in Nat /\ next_window_reset(w, now) > now
<1>1. 0 \in 0..Day
  BY WindowAssumption
<1>2. \A offset \in 0..Day : NextMidnight(now, offset) \in Nat /\ NextMidnight(now, offset) > now
  BY MidnightAhead, WindowAssumption DEF NextMidnight
<1>. QED  BY <1>1, <1>2, WindowAssumption DEF Windows, next_window_reset

-----------------------------------------------------------------------------
(* Type correctness *)

HeldType == [Attempts -> Grants \cup {NoGrant}]

\* Marking the grants of cleared pools as stale keeps every handle a handle.
LEMMA ClearingType ==
    ASSUME TypeOK, NEW S
    PROVE  HeldAfterClearing(S) \in HeldType
  <1>1. ASSUME NEW a \in Attempts, held[a] # NoGrant
        PROVE  [held[a] EXCEPT !.live = FALSE] \in Grants
    BY <1>1 DEF TypeOK, Grants
  <1>2. QED  BY <1>1 DEF HeldAfterClearing, HeldType, TypeOK

\* What _recover hands an operation has the types of the row it read.
LEMMA RowType ==
    ASSUME TypeOK, NEW p \in Pools, NEW now \in Nat
    PROVE  /\ UsedAt(p, now) \in Nat
           /\ ExhaustedAt(p, now) \in BOOLEAN
           /\ ResetAtTime(p, now) \in Resets
           /\ AppUsedAt(p, now) \in [Applications -> Nat]
           /\ SpentAt(p, now) \in Nat
           /\ LastGrantAt(p, now) \in Nat
           /\ HeldAt(p, now) \in HeldType
  <1>1. HeldAt(p, now) \in HeldType
    BY ClearingType DEF HeldAt, HeldType, TypeOK
  <1>2. QED
    BY <1>1 DEF TypeOK, UsedAt, ExhaustedAt, ResetAtTime, AppUsedAt, SpentAt, LastGrantAt,
                Due, Resets

\* So has what the history says of the window, and of the one before it.
LEMMA HistoryType ==
    ASSUME TypeOK, NEW p \in Pools, NEW now \in Nat
    PROVE  LostAt(p, now) \in Nat /\ EndedAt(p, now) \in Nat /\ SpentAt(p, now) \in Nat
  BY DEF TypeOK, LostAt, EndedAt, SpentAt, Due, Resets

\* The stamp a reservation carries is a reset time or None.
LEMMA StampType ==
    ASSUME TypeOK, NEW p \in Pools, NEW now \in Nat
    PROVE  StampFor(p, now) \in Resets
  <1>1. Limit[p] # NoLimit /\ Window[p] # NoWindow => Window[p] \in Windows
    BY LimitAssumption
  <1>2. QED  BY <1>1, RowType, WindowAhead DEF StampFor, Resets

\* A write of well-typed columns keeps the table well-typed.
LEMMA WriteType ==
    ASSUME TypeOK, NEW p \in Pools, NEW u \in Nat, NEW e \in BOOLEAN, NEW r \in Resets,
           WriteRow(p, u, e, r)
    PROVE  used' \in [Pools -> Nat] /\ exhausted' \in [Pools -> BOOLEAN]
           /\ resetAt' \in [Pools -> Resets]
  BY DEF TypeOK, WriteRow

\* The history a step records of a pool keeps its types.
LEMMA RecordType ==
    ASSUME TypeOK, NEW p \in Pools, NEW r, NEW n \in Nat, NEW now \in Nat, Record(p, r, n, now)
    PROVE  /\ spent' \in [Pools -> Nat] /\ lost' \in [Pools -> Nat]
           /\ ended' \in [Pools -> Nat] /\ regular' \in [Pools -> BOOLEAN]
  <1>1. SpentAt(p, now) \in Nat /\ LostAt(p, now) + n \in Nat /\ EndedAt(p, now) \in Nat
    BY HistoryType
  <1>2. (regular[p] /\ Forward(p, r, now)) \in BOOLEAN
    OBVIOUS
  <1>3. spent \in [Pools -> Nat] /\ lost \in [Pools -> Nat]
        /\ ended \in [Pools -> Nat] /\ regular \in [Pools -> BOOLEAN]
    BY DEF TypeOK
  <1> DEFINE f == regular[p] /\ Forward(p, r, now)
  <1>4. regular' = [regular EXCEPT ![p] = f]
    BY DEF Record
  <1>5. /\ spent' = [spent EXCEPT ![p] = SpentAt(p, now)]
        /\ lost' = [lost EXCEPT ![p] = LostAt(p, now) + n]
        /\ ended' = [ended EXCEPT ![p] = EndedAt(p, now)]
    BY DEF Record
  <1>6. f \in BOOLEAN
    BY <1>2
  <1> HIDE DEF f
  <1>7. regular' \in [Pools -> BOOLEAN]
    BY <1>3, <1>4, <1>6
  <1>8. QED  BY <1>1, <1>3, <1>5, <1>7

\* A transaction's clock reading is a time, however late it commits.
LEMMA ReadingsType == TypeOK => Readings \subseteq Nat
  BY DEF Readings, TypeOK

\* Every ledger operation keeps the table and the handles well-typed.
LEMMA TypeInductive == TypeOK /\ [Next]_vars => TypeOK'
  <1> SUFFICES ASSUME TypeOK, [Next]_vars PROVE TypeOK'
    OBVIOUS
  <1>1. CASE Tick
    BY <1>1 DEF Tick, TypeOK, table, history
  <1>2. ASSUME NEW a \in Attempts, Send(a) PROVE TypeOK'
    <2>1. held[a] \in Grants
      BY <1>2 DEF Send, TypeOK
    <2>2. held[a].pool \in Pools
      BY <2>1 DEF Grants
    <2>3. QED  BY <1>2, <2>2 DEF Send, TypeOK, table
  <1>3. ASSUME NEW now \in Readings, NEW S \in SUBSET Pools, Read(S, now) PROVE TypeOK'
    <2>1. held' \in HeldType
      BY <1>3, ClearingType DEF Read
    <2>2. \A p \in Pools : Due(p, now) => resetAt[p] \in Nat
      BY DEF Due, TypeOK, Resets
    <2>3. QED  BY <1>3, <2>1, <2>2 DEF Read, TypeOK, HeldType, Resets
  <1>4. ASSUME NEW now \in Readings, NEW a \in Attempts, NEW p \in Pools,
               NEW app \in Applications, reserve(a, p, app, now)
        PROVE  TypeOK'
    <2>1. now \in Nat
      BY ReadingsType
    <2>2. UsedAt(p, now) + 1 \in Nat /\ StampFor(p, now) \in Resets
      BY <2>1, RowType, StampType
    <2>3. used' \in [Pools -> Nat] /\ exhausted' \in [Pools -> BOOLEAN]
          /\ resetAt' \in [Pools -> Resets]
      BY <1>4, <2>2, WriteType DEF reserve
    <2>4. appUsed' \in [Pools -> [Applications -> Nat]]
      <3>1. AppUsedAt(p, now) \in [Applications -> Nat]
        BY <2>1, RowType
      <3>2. [AppUsedAt(p, now) EXCEPT ![app] = @ + 1] \in [Applications -> Nat]
        BY <3>1
      <3>3. QED  BY <1>4, <3>2 DEF reserve, TypeOK
    <2>5. held' \in HeldType
      <3>1. [pool |-> p, app |-> app, stamp |-> StampFor(p, now), live |-> TRUE] \in Grants
        BY <2>2 DEF Grants
      <3>2. HeldAt(p, now) \in HeldType
        BY <2>1, RowType
      <3>3. QED  BY <1>4, <3>1, <3>2 DEF reserve, HeldType
    <2>6. lastGrant' \in [Pools -> Nat] /\ clock' \in Nat
      BY <1>4, <2>1, RowType DEF reserve, TypeOK
    <2>7. spent' \in [Pools -> Nat] /\ lost' \in [Pools -> Nat]
          /\ ended' \in [Pools -> Nat] /\ regular' \in [Pools -> BOOLEAN]
      BY <1>4, <2>1, RecordType DEF reserve
    <2>8. QED  BY <2>3, <2>4, <2>5, <2>6, <2>7 DEF TypeOK, HeldType
  <1>5. ASSUME NEW now \in Readings, NEW a \in Attempts, release(a, now) PROVE TypeOK'
    <2> DEFINE p == held[a].pool
    <2>1. now \in Nat /\ p \in Pools /\ held[a].app \in Applications
      BY <1>5, ReadingsType DEF release, TypeOK, Grants
    <2>2. HeldAt(p, now) \in HeldType /\ AppUsedAt(p, now) \in [Applications -> Nat]
      BY <2>1, RowType
    <2>3. ExhaustedAt(p, now) \in BOOLEAN /\ ResetAtTime(p, now) \in Resets
          /\ SpentAt(p, now) \in Nat /\ LastGrantAt(p, now) \in Nat
          /\ UsedAt(p, now) \in Nat /\ Refunded(UsedAt(p, now)) \in Nat
      BY <2>1, RowType DEF AtLeast, Refunded
    <2>4. [AppUsedAt(p, now) EXCEPT ![held[a].app] = Refunded(@)] \in [Applications -> Nat]
      BY <2>1, <2>2 DEF AtLeast, Refunded
    <2>5. used' \in [Pools -> Nat] /\ exhausted' \in [Pools -> BOOLEAN]
          /\ resetAt' \in [Pools -> Resets]
      BY <1>5, <2>1, <2>3 DEF release, WriteRow, TypeOK
    <2>6. appUsed' \in [Pools -> [Applications -> Nat]]
      BY <1>5, <2>1, <2>2, <2>4 DEF release, TypeOK
    <2>7. held' \in HeldType
      BY <1>5, <2>2 DEF release, HeldType
    <2>8. lastGrant' \in [Pools -> Nat] /\ clock' \in Nat
      BY <1>5, <2>1, <2>3 DEF release, TypeOK
    <2>9. spent' \in [Pools -> Nat] /\ lost' \in [Pools -> Nat]
          /\ ended' \in [Pools -> Nat] /\ regular' \in [Pools -> BOOLEAN]
      <3> DEFINE r == ResetAtTime(p, now)
                 left == IF Refundable(p, held[a].stamp, now) THEN Refunded(UsedAt(p, now))
                                                              ELSE UsedAt(p, now)
                 n == IF held[a].live THEN 0 ELSE UsedAt(p, now) - left
      <3>1. n \in Nat
        BY <2>3 DEF AtLeast, Refunded
      <3>2. Record(p, r, n, now)
        BY <1>5 DEF release
      <3> HIDE DEF r, n
      <3>3. QED  BY <2>1, <3>1, <3>2, RecordType
    <2>10. QED  BY <2>5, <2>6, <2>7, <2>8, <2>9 DEF TypeOK, HeldType
  <1>6. ASSUME NEW now \in Readings, NEW p \in Pools, NEW u \in Nat, NEW e \in BOOLEAN,
               NEW r \in Resets, KeepGrants(p, r, now), WriteRow(p, u, e, r)
        PROVE  TypeOK'
    <2>1. AppUsedAt(p, now) \in [Applications -> Nat] /\ now \in Nat
          /\ LastGrantAt(p, now) \in Nat /\ HeldAt(p, now) \in HeldType
      BY RowType, ReadingsType
    <2>2. spent' \in [Pools -> Nat] /\ lost' \in [Pools -> Nat]
          /\ ended' \in [Pools -> Nat] /\ regular' \in [Pools -> BOOLEAN]
      BY <1>6, <2>1, RecordType DEF KeepGrants
    <2>3. clock' \in Nat /\ lastGrant' \in [Pools -> Nat] /\ held' \in HeldType
          /\ appUsed' \in [Pools -> [Applications -> Nat]]
      BY <1>6, <2>1 DEF KeepGrants, TypeOK
    <2>4. QED  BY <1>6, <2>2, <2>3, WriteType DEF TypeOK, HeldType
  <1>7. ASSUME NEW now \in Readings, NEW p \in Pools, NEW limit \in ObservedLimits,
               NEW reset \in ReportedResets \cup {NoReset}, NEW remaining \in 0..limit,
               observe(p, limit, remaining, reset, now)
        PROVE  TypeOK'
    <2>1. UsedAt(p, now) \in Nat /\ ResetAtTime(p, now) \in Resets /\ limit - remaining \in Nat
      BY RowType, ReadingsType, InputAssumption
    <2>2. CountAfterObserving(p, limit, remaining, now) \in Nat
      BY <2>1 DEF AtLeast, CountAfterObserving
    <2>3. reset \in Resets
      BY InputAssumption DEF Resets
    <2>4. ResetAfterObserving(p, remaining, reset, now) \in Resets
      BY <2>1, <2>3 DEF ResetAfterObserving, AtLeast
    <2>5. (ExhaustedAt(p, now)
             \/ ShowsSpent(remaining, ResetAfterObserving(p, remaining, reset, now)))
          \in BOOLEAN
      OBVIOUS
    <2>6. QED  BY <1>6, <1>7, <2>2, <2>4, <2>5 DEF observe
  <1>8. ASSUME NEW now \in Readings, NEW p \in Pools, NEW reset \in ReportedResets,
               exhaust(p, reset, now)
        PROVE  TypeOK'
    <2>1. UsedAt(p, now) \in Nat /\ ResetAtTime(p, now) \in Resets /\ reset \in Resets
      BY RowType, ReadingsType, InputAssumption DEF Resets
    <2>2. ResetAfterExhausting(p, reset, now) \in Resets
      BY <2>1 DEF ResetAfterExhausting, AtLeast
    <2>3. QED  BY <1>6, <1>8, <2>1, <2>2 DEF exhaust
  <1>9. CASE UNCHANGED vars
    BY <1>9 DEF vars, table, history, TypeOK
  <1>10. QED
    BY <1>1, <1>2, <1>3, <1>4, <1>5, <1>7, <1>8, <1>9 DEF Next

\* The ledger's columns and the reservations held against them keep their
\* types through every operation, clock lag and report.
THEOREM TypeCorrect == Spec => []TypeOK
  <1>1. Init => TypeOK
    BY DEF Init, TypeOK, Resets
  <1>2. QED  BY <1>1, TypeInductive, PTL DEF Spec

-----------------------------------------------------------------------------
(* The invariant behind the tier's limit *)

\* The two halves of WithinTier: what bounds the grants, and why nothing is lost.
TierBound == \A p \in Pools : Limited(p) => Consumed(p) <= Limit[p] + lost[p]
NoneLost  == \A p \in Pools : Limited(p) /\ regular[p] => lost[p] = 0

\* What holds of the counters alone, and with the order of the windows.
CoverInv == TypeOK /\ CountCoversGrants /\ TierBound
IInv     == CoverInv /\ StampsInOrder /\ NoneLost

\* The live reservations of a pool can be counted.
LEMMA LiveFinite ==
    ASSUME NEW h, NEW p
    PROVE  IsFiniteSet(LiveIn(h, p)) /\ Cardinality(LiveIn(h, p)) \in Nat
  <1>1. LiveIn(h, p) \subseteq Attempts
    BY DEF LiveIn
  <1>2. QED  BY <1>1, InputAssumption, FS_Subset, FS_CardinalityType

\* Clearing pools empties their live sets and leaves the others alone.
LEMMA LiveAfterClearing ==
    ASSUME TypeOK, NEW S, NEW q \in Pools
    PROVE  LiveIn(HeldAfterClearing(S), q) = IF q \in S THEN {} ELSE LiveOn(q)
  <1>1. ASSUME NEW a \in Attempts
        PROVE  LET h == HeldAfterClearing(S)[a] IN
               (h # NoGrant /\ h.pool = q /\ h.live)
                  <=> (held[a] # NoGrant /\ held[a].pool = q /\ held[a].live /\ q \notin S)
    <2>1. CASE held[a] = NoGrant
      BY <2>1 DEF HeldAfterClearing
    <2>2. CASE held[a] # NoGrant
      <3>1. held[a] \in Grants
        BY <2>2 DEF TypeOK
      <3>2. [held[a] EXCEPT !.live = FALSE] \in Grants
            /\ [held[a] EXCEPT !.live = FALSE].pool = held[a].pool
            /\ [held[a] EXCEPT !.live = FALSE].live = FALSE
        BY <3>1 DEF Grants
      <3>3. QED  BY <2>2, <3>1, <3>2, NoneAssumption DEF HeldAfterClearing
    <2>3. QED  BY <2>1, <2>2
  <1>2. QED  BY <1>1 DEF LiveIn, LiveOn

\* _recover leaves a pool that is due with no live reservation, and others with theirs.
LEMMA LiveAtTime ==
    ASSUME TypeOK, NEW p \in Pools, NEW now \in Nat, NEW q \in Pools
    PROVE  LiveIn(HeldAt(p, now), q) = IF q = p /\ Due(p, now) THEN {} ELSE LiveOn(q)
  BY LiveAfterClearing DEF HeldAt, LiveOn

\* Dropping a handle removes its attempt from the live sets.
LEMMA LiveAfterDrop ==
    ASSUME NEW h \in HeldType, NEW a \in Attempts, NEW q \in Pools
    PROVE  LiveIn([h EXCEPT ![a] = NoGrant], q) = LiveIn(h, q) \ {a}
  BY DEF LiveIn, HeldType

\* The counter as recovered covers what the recovered window holds.
LEMMA CoverAtTime ==
    ASSUME CoverInv, NEW p \in Pools, NEW now \in Nat, Limited(p)
    PROVE  SpentAt(p, now) + Cardinality(LiveIn(HeldAt(p, now), p))
             <= UsedAt(p, now) + LostAt(p, now)
  <1>1. CASE Due(p, now)
    BY <1>1, LiveAtTime, FS_EmptySet DEF CoverInv, SpentAt, UsedAt, LostAt
  <1>2. CASE ~Due(p, now)
    BY <1>2, LiveAtTime DEF CoverInv, CountCoversGrants, Consumed, SpentAt, UsedAt, LostAt
  <1>3. QED  BY <1>1, <1>2

\* An operation on pool p keeps the counts of every pool if it keeps p's and
\* changes nothing of the others.
LEMMA OnePool ==
    ASSUME CoverInv, NEW p \in Pools,
           \A q \in Pools \ {p} : /\ spent'[q] = spent[q] /\ used'[q] = used[q]
                                  /\ lost'[q] = lost[q] /\ LiveIn(held', q) = LiveOn(q),
           Limited(p) => /\ spent'[p] + Cardinality(LiveIn(held', p)) <= used'[p] + lost'[p]
                         /\ spent'[p] + Cardinality(LiveIn(held', p)) <= Limit[p] + lost'[p]
    PROVE  CountCoversGrants' /\ TierBound'
  <1>1. ASSUME NEW q \in Pools, Limited(q)
        PROVE  Consumed(q)' <= used'[q] + lost'[q] /\ Consumed(q)' <= Limit[q] + lost'[q]
    <2>1. CASE q = p
      BY <1>1, <2>1 DEF Consumed, LiveOn
    <2>2. CASE q # p
      BY <1>1, <2>2 DEF CoverInv, Consumed, LiveOn, CountCoversGrants, TierBound
    <2>3. QED  BY <2>1, <2>2
  <1>2. QED  BY <1>1 DEF CountCoversGrants, TierBound, Limited

\* What remains of the window at `now' is still within the tier.
LEMMA TierAtTime ==
    ASSUME CoverInv, NEW p \in Pools, NEW now \in Nat, Limited(p)
    PROVE  SpentAt(p, now) + Cardinality(LiveIn(HeldAt(p, now), p)) <= Limit[p] + LostAt(p, now)
  <1>1. Limit[p] \in Nat
    BY LimitAssumption DEF Limited
  <1>2. CASE Due(p, now)
    BY <1>1, <1>2, LiveAtTime, FS_EmptySet DEF CoverInv, SpentAt, LostAt
  <1>3. CASE ~Due(p, now)
    BY <1>3, LiveAtTime DEF CoverInv, TierBound, Consumed, SpentAt, LostAt
  <1>4. QED  BY <1>2, <1>3

\* Recovering a pool drops no handle.
LEMMA HandleKept ==
    ASSUME TypeOK, NEW S, NEW a \in Attempts, held[a] # NoGrant
    PROVE  HeldAfterClearing(S)[a] # NoGrant
  <1>1. held[a] \in Grants
    BY DEF TypeOK
  <1>2. [held[a] EXCEPT !.live = FALSE] \in Grants
    BY <1>1 DEF Grants
  <1>3. QED  BY <1>2, NoneAssumption DEF HeldAfterClearing

\* A reservation is given back by its own attempt's Send or release, no other step.
LEMMA GivenBack ==
    ASSUME TypeOK, [Next]_vars, NEW a \in Attempts, GivesBack(a)
    PROVE  Send(a) \/ \E now \in Readings : release(a, now)
  <1>1. held[a] # NoGrant /\ held'[a] = NoGrant
    BY DEF GivesBack
  <1>2. ASSUME NEW p \in Pools, NEW now \in Readings
        PROVE  HeldAt(p, now) \in HeldType /\ HeldAt(p, now)[a] # NoGrant
    BY <1>1, HandleKept, RowType, ReadingsType DEF HeldAt
  <1>3. CASE Tick \/ UNCHANGED vars
    BY <1>1, <1>3 DEF Tick, vars
  <1>4. ASSUME NEW b \in Attempts, Send(b) PROVE b = a
    BY <1>1, <1>4 DEF Send, TypeOK
  <1>5. ASSUME NEW now \in Readings, NEW S \in SUBSET Pools, Read(S, now) PROVE FALSE
    BY <1>1, <1>5, HandleKept DEF Read
  <1>6. ASSUME NEW now \in Readings, NEW b \in Attempts, NEW p \in Pools,
               NEW app \in Applications, reserve(b, p, app, now)
        PROVE  FALSE
    <2>1. b # a
      BY <1>1, <1>6 DEF reserve
    <2>2. held'[a] = HeldAt(p, now)[a]
      BY <1>2, <1>6, <2>1 DEF reserve, HeldType
    <2>3. QED  BY <1>1, <1>2, <2>2
  <1>7. ASSUME NEW now \in Readings, NEW b \in Attempts, release(b, now) PROVE b = a
    <2>1. held[b].pool \in Pools
      BY <1>7 DEF release, TypeOK, Grants
    <2>2. CASE b # a
      <3>1. held'[a] = HeldAt(held[b].pool, now)[a]
        BY <1>2, <1>7, <2>1, <2>2 DEF release, HeldType
      <3>2. QED  BY <1>1, <1>2, <2>1, <3>1
    <2>3. QED  BY <2>2
  <1>8. ASSUME NEW now \in Readings, NEW p \in Pools, NEW r,
               KeepGrants(p, r, now)
        PROVE  FALSE
    BY <1>1, <1>2, <1>8 DEF KeepGrants
  <1>9. QED
    BY <1>3, <1>4, <1>5, <1>6, <1>7, <1>8 DEF Next, observe, exhaust

\* Whatever clocks lag and whatever resets are reported, every step accounts for
\* the grants, and keeps them within the tier but for the refunds it records.
LEMMA CoverInductive == CoverInv /\ [Next]_vars => CoverInv'
  <1> SUFFICES ASSUME CoverInv, [Next]_vars
               PROVE  CountCoversGrants' /\ TierBound'
    BY TypeInductive DEF CoverInv
  <1>1. TypeOK /\ TypeOK'
    BY TypeInductive DEF CoverInv
  <1>2. \A now \in Readings : now \in Nat
    BY <1>1, ReadingsType
  <1>3. CASE Tick
    <2>1. held' = held /\ spent' = spent /\ used' = used /\ lost' = lost
      BY <1>3 DEF Tick, table, history
    <2>2. QED
      BY <2>1 DEF CoverInv, CountCoversGrants, TierBound, Consumed, LiveOn, LiveIn, Limited
  <1>4. ASSUME NEW a \in Attempts, Send(a) PROVE CountCoversGrants' /\ TierBound'
    <2> DEFINE p == held[a].pool
    <2>1. held[a] \in Grants /\ p \in Pools
      BY <1>1, <1>4 DEF Send, TypeOK, Grants
    <2>2. held \in HeldType
      BY <1>1 DEF TypeOK, HeldType
    <2>3. \A q \in Pools : LiveIn(held', q) = LiveOn(q) \ {a}
      BY <1>4, <2>2, LiveAfterDrop DEF Send, LiveOn
    <2>4. \A q \in Pools : a \in LiveOn(q) <=> held[a].live /\ q = p
      BY <1>4 DEF Send, LiveOn, LiveIn
    <2>5. ASSUME NEW q \in Pools \ {p}
          PROVE  /\ spent'[q] = spent[q] /\ used'[q] = used[q]
                 /\ lost'[q] = lost[q] /\ LiveIn(held', q) = LiveOn(q)
      <3>1. spent'[q] = spent[q] /\ used'[q] = used[q] /\ lost'[q] = lost[q]
        BY <1>1, <1>4, <2>1 DEF Send, table, TypeOK
      <3>2. a \notin LiveOn(q)
        BY <2>4
      <3>3. QED  BY <2>3, <3>1, <3>2
    <2>6. spent'[p] + Cardinality(LiveIn(held', p)) = Consumed(p)
      <3>1. CASE held[a].live
        <4>1. Cardinality(LiveOn(p) \ {a}) = Cardinality(LiveOn(p)) - 1
              /\ Cardinality(LiveOn(p)) \in Nat
          BY <2>1, <2>4, <3>1, LiveFinite, FS_RemoveElement DEF LiveOn
        <4>2. spent'[p] = spent[p] + 1 /\ spent[p] \in Nat
          BY <1>1, <1>4, <2>1, <3>1 DEF Send, TypeOK
        <4>3. LiveIn(held', p) = LiveOn(p) \ {a}
          BY <2>1, <2>3
        <4>4. QED  BY <4>1, <4>2, <4>3 DEF Consumed
      <3>2. CASE ~held[a].live
        <4>1. LiveIn(held', p) = LiveOn(p)
          BY <2>1, <2>3, <2>4, <3>2
        <4>2. QED  BY <1>4, <3>2, <4>1 DEF Send, Consumed
      <3>3. QED  BY <3>1, <3>2
    <2>7. used'[p] = used[p] /\ lost'[p] = lost[p]
      BY <1>4 DEF Send, table
    <2>8. QED
      BY <2>1, <2>5, <2>6, <2>7, OnePool DEF CoverInv, CountCoversGrants, TierBound
  <1>5. ASSUME NEW now \in Readings, NEW S \in SUBSET Pools, Read(S, now)
        PROVE  CountCoversGrants' /\ TierBound'
    <2> DEFINE C == {p \in S : Due(p, now)}
    <2>1. \A q \in Pools : LiveIn(held', q) = IF q \in C THEN {} ELSE LiveOn(q)
      BY <1>1, <1>5, LiveAfterClearing DEF Read
    <2>2. ASSUME NEW q \in Pools, Limited(q)
          PROVE  Consumed(q)' <= used'[q] + lost'[q] /\ Consumed(q)' <= Limit[q] + lost'[q]
      <3>1. CASE q \in C
        <4>1. Consumed(q)' = 0 /\ used'[q] = 0 /\ lost'[q] = 0
          <5>1. spent'[q] = 0 /\ used'[q] = 0 /\ lost'[q] = 0
            BY <1>5, <3>1 DEF Read
          <5>2. Cardinality(LiveIn(held', q)) = 0
            BY <2>1, <3>1, FS_EmptySet
          <5>3. QED  BY <5>1, <5>2 DEF Consumed, LiveOn
        <4>2. Limit[q] \in Nat
          BY <2>2, LimitAssumption DEF Limited
        <4>3. QED  BY <4>1, <4>2
      <3>2. CASE q \notin C
        BY <1>5, <2>1, <2>2, <3>2
        DEF Read, Consumed, LiveOn, CoverInv, CountCoversGrants, TierBound
      <3>3. QED  BY <3>1, <3>2
    <2>3. QED  BY <2>2 DEF CountCoversGrants, TierBound, Limited
  <1>6. ASSUME NEW now \in Readings, NEW a \in Attempts, NEW p \in Pools,
               NEW app \in Applications, reserve(a, p, app, now)
        PROVE  CountCoversGrants' /\ TierBound'
    <2> DEFINE g == [pool |-> p, app |-> app, stamp |-> StampFor(p, now), live |-> TRUE]
               h == HeldAt(p, now)
    <2>1. StampFor(p, now) \in Resets /\ ResetAtTime(p, now) \in Resets
          /\ h \in HeldType /\ UsedAt(p, now) \in Nat /\ SpentAt(p, now) \in Nat
      BY <1>1, <1>2, StampType, RowType
    <2>2. g \in Grants /\ g.live = TRUE /\ g.pool = p
      BY <2>1 DEF Grants
    <2>3. h[a] = NoGrant /\ held' = [h EXCEPT ![a] = g]
      BY <1>6 DEF reserve, HeldAt, HeldAfterClearing
    <2> HIDE DEF g, h
    <2>4. ASSUME NEW q \in Pools
          PROVE  LiveIn(held', q) = IF q = p THEN LiveIn(h, q) \cup {a} ELSE LiveIn(h, q)
      <3>1. /\ q = g.pool => LiveIn(held', q) = LiveIn(h, q) \cup {a}
            /\ q # g.pool => LiveIn(held', q) = LiveIn(h, q)
        <4>1. held'[a] = g /\ \A b \in Attempts \ {a} : held'[b] = h[b]
          BY <2>1, <2>3 DEF HeldType
        <4>2. g # NoGrant
          BY <2>2, NoneAssumption
        <4>3. QED  BY <2>2, <2>3, <4>1, <4>2 DEF LiveIn
      <3>2. QED  BY <2>2, <3>1
    <2>5. a \notin LiveIn(h, p)
      BY <2>3 DEF LiveIn
    <2>6. Cardinality(LiveIn(held', p)) = Cardinality(LiveIn(h, p)) + 1
          /\ Cardinality(LiveIn(h, p)) \in Nat
      BY <2>4, <2>5, LiveFinite, FS_AddElement
    <2>7. ASSUME NEW q \in Pools \ {p}
          PROVE  /\ spent'[q] = spent[q] /\ used'[q] = used[q]
                 /\ lost'[q] = lost[q] /\ LiveIn(held', q) = LiveOn(q)
      <3>1. spent'[q] = spent[q] /\ used'[q] = used[q] /\ lost'[q] = lost[q]
        BY <1>1, <1>6 DEF reserve, WriteRow, Record, TypeOK
      <3>2. LiveIn(h, q) = LiveOn(q)
        BY <1>1, <1>2, LiveAtTime DEF h
      <3>3. QED  BY <2>4, <3>1, <3>2
    <2>8. spent'[p] = SpentAt(p, now) /\ used'[p] = UsedAt(p, now) + 1
          /\ lost'[p] = LostAt(p, now) /\ LostAt(p, now) \in Nat
      BY <1>1, <1>2, <1>6, HistoryType DEF reserve, WriteRow, Record, TypeOK
    <2>9. ASSUME Limited(p)
          PROVE  /\ spent'[p] + Cardinality(LiveIn(held', p)) <= used'[p] + lost'[p]
                 /\ spent'[p] + Cardinality(LiveIn(held', p)) <= Limit[p] + lost'[p]
      <3>1. SpentAt(p, now) + Cardinality(LiveIn(h, p)) <= UsedAt(p, now) + LostAt(p, now)
        BY <1>2, <2>9, CoverAtTime DEF h
      <3>2. UsedAt(p, now) < Limit[p] /\ Limit[p] \in Nat
        BY <1>6, <2>9, LimitAssumption DEF reserve, HasRoom, Limited
      <3>3. QED  BY <2>1, <2>6, <2>8, <3>1, <3>2
    <2>10. QED  BY <2>7, <2>9, OnePool
  <1>7. ASSUME NEW now \in Readings, NEW a \in Attempts, release(a, now)
        PROVE  CountCoversGrants' /\ TierBound'
    <2> DEFINE p == held[a].pool
               h == HeldAt(p, now)
               r == ResetAtTime(p, now)
    <2>1. held[a] \in Grants /\ p \in Pools /\ held[a].stamp \in Resets
      BY <1>1, <1>7 DEF release, TypeOK, Grants
    <2>2. h \in HeldType /\ r \in Resets /\ UsedAt(p, now) \in Nat
          /\ SpentAt(p, now) \in Nat
      BY <1>1, <1>2, <2>1, RowType
    <2>3. held' = [h EXCEPT ![a] = NoGrant]
      BY <1>7 DEF release
    <2>4. \A q \in Pools : LiveIn(held', q) = LiveIn(h, q) \ {a}
      BY <2>2, <2>3, LiveAfterDrop
    <2>5. \A q \in Pools \ {p} : a \notin LiveIn(h, q) /\ LiveIn(h, q) = LiveOn(q)
      BY <1>1, <1>2, <2>1, LiveAtTime DEF LiveOn, LiveIn
    <2>6. ASSUME NEW q \in Pools \ {p}
          PROVE  /\ spent'[q] = spent[q] /\ used'[q] = used[q]
                 /\ lost'[q] = lost[q] /\ LiveIn(held', q) = LiveOn(q)
      <3>1. spent'[q] = spent[q] /\ used'[q] = used[q] /\ lost'[q] = lost[q]
        BY <1>1, <1>7, <2>1 DEF release, WriteRow, Record, TypeOK
      <3>2. LiveIn(h, q) \ {a} = LiveIn(h, q) /\ LiveIn(h, q) = LiveOn(q)
        BY <2>5
      <3>3. QED  BY <2>4, <3>1, <3>2
    <2> DEFINE u == UsedAt(p, now)
               left == IF Refundable(p, held[a].stamp, now) THEN Refunded(u) ELSE u
    <2>7. /\ left \in Nat /\ left <= u /\ u <= left + 1 /\ u \in Nat
          /\ u = 0 => left = 0
      BY <2>2 DEF Refunded, AtLeast
    <2>8. /\ used'[p] = left /\ spent'[p] = SpentAt(p, now)
          /\ lost'[p] = LostAt(p, now) + (IF held[a].live THEN 0 ELSE u - left)
          /\ LostAt(p, now) \in Nat
      BY <1>1, <1>2, <1>7, <2>1, HistoryType DEF release, WriteRow, Record, TypeOK
    <2> HIDE DEF u, left
    <2>9. ASSUME Limited(p)
          PROVE  /\ spent'[p] + Cardinality(LiveIn(held', p)) <= used'[p] + lost'[p]
                 /\ spent'[p] + Cardinality(LiveIn(held', p)) <= Limit[p] + lost'[p]
      <3>1. /\ SpentAt(p, now) + Cardinality(LiveIn(h, p)) <= u + LostAt(p, now)
            /\ SpentAt(p, now) + Cardinality(LiveIn(h, p)) <= Limit[p] + LostAt(p, now)
            /\ Limit[p] \in Nat /\ Cardinality(LiveIn(h, p)) \in Nat
        BY <1>2, <2>1, <2>9, CoverAtTime, TierAtTime, LimitAssumption, LiveFinite
        DEF Limited, u
      <3>2. CASE a \in LiveIn(h, p)
        <4>1. Cardinality(LiveIn(held', p)) = Cardinality(LiveIn(h, p)) - 1
          BY <2>1, <2>4, <3>2, LiveFinite, FS_RemoveElement
        <4>2. QED  BY <2>2, <2>7, <2>8, <3>1, <4>1
      <3>3. CASE a \notin LiveIn(h, p)
        <4>1. LiveIn(held', p) = LiveIn(h, p)
          BY <2>1, <2>4, <3>3
        <4>2. CASE Due(p, now)
          <5>1. u = 0
            BY <4>2 DEF UsedAt, u
          <5>2. QED  BY <2>2, <2>7, <2>8, <3>1, <4>1, <5>1
        <4>3. CASE ~Due(p, now)
          <5>1. ~held[a].live
            BY <1>7, <3>3, <4>3 DEF release, HeldAt, LiveIn
          <5>2. QED  BY <2>2, <2>7, <2>8, <3>1, <4>1, <5>1
        <4>4. QED  BY <4>2, <4>3
      <3>4. QED  BY <3>2, <3>3
    <2>10. QED  BY <2>1, <2>6, <2>9, OnePool
  <1>8. ASSUME NEW now \in Readings, NEW p \in Pools, NEW u \in Nat, u >= UsedAt(p, now),
               NEW e, NEW r, WriteRow(p, u, e, r), KeepGrants(p, r, now)
        PROVE  CountCoversGrants' /\ TierBound'
    <2> DEFINE h == HeldAt(p, now)
    <2>1. held' = h /\ spent' = [spent EXCEPT ![p] = SpentAt(p, now)]
          /\ used' = [used EXCEPT ![p] = u] /\ lost' = [lost EXCEPT ![p] = LostAt(p, now) + 0]
      BY <1>8 DEF KeepGrants, WriteRow, Record
    <2>2. \A q \in Pools \ {p} : /\ spent'[q] = spent[q] /\ used'[q] = used[q]
                                  /\ lost'[q] = lost[q] /\ LiveIn(held', q) = LiveOn(q)
      BY <1>1, <1>2, <2>1, LiveAtTime DEF TypeOK
    <2>3. ASSUME Limited(p)
          PROVE  /\ spent'[p] + Cardinality(LiveIn(held', p)) <= used'[p] + lost'[p]
                 /\ spent'[p] + Cardinality(LiveIn(held', p)) <= Limit[p] + lost'[p]
      <3>1. /\ SpentAt(p, now) + Cardinality(LiveIn(h, p)) <= UsedAt(p, now) + LostAt(p, now)
            /\ SpentAt(p, now) + Cardinality(LiveIn(h, p)) <= Limit[p] + LostAt(p, now)
        BY <1>2, <2>3, CoverAtTime, TierAtTime
      <3>2. UsedAt(p, now) \in Nat /\ SpentAt(p, now) \in Nat /\ LostAt(p, now) \in Nat
            /\ Cardinality(LiveIn(h, p)) \in Nat
        BY <1>1, <1>2, RowType, HistoryType, LiveFinite
      <3>3. spent'[p] = SpentAt(p, now) /\ used'[p] = u /\ lost'[p] = LostAt(p, now) + 0
        BY <1>1, <2>1 DEF TypeOK
      <3>4. QED  BY <1>8, <2>1, <3>1, <3>2, <3>3
    <2>4. QED  BY <2>2, <2>3, OnePool
  <1>9. ASSUME NEW now \in Readings, NEW p \in Pools, NEW limit \in ObservedLimits,
               NEW reset \in ReportedResets \cup {NoReset}, NEW remaining \in 0..limit,
               observe(p, limit, remaining, reset, now)
        PROVE  CountCoversGrants' /\ TierBound'
    <2> DEFINE r == ResetAfterObserving(p, remaining, reset, now)
               u == CountAfterObserving(p, limit, remaining, now)
               e == ExhaustedAt(p, now) \/ ShowsSpent(remaining, r)
    <2>1. UsedAt(p, now) \in Nat /\ limit - remaining \in Nat
      BY <1>1, <1>2, RowType, InputAssumption
    <2>2. u \in Nat /\ u >= UsedAt(p, now)
      BY <2>1 DEF AtLeast, CountAfterObserving
    <2>3. WriteRow(p, u, e, r) /\ KeepGrants(p, r, now)
      BY <1>9 DEF observe
    <2> HIDE DEF r, u, e
    <2>4. QED  BY <1>8, <2>2, <2>3
  <1>10. ASSUME NEW now \in Readings, NEW p \in Pools, NEW reset \in ReportedResets,
                exhaust(p, reset, now)
         PROVE  CountCoversGrants' /\ TierBound'
    <2> DEFINE u == UsedAt(p, now)
               e == TRUE
               r == ResetAfterExhausting(p, reset, now)
    <2>1. u \in Nat /\ u >= UsedAt(p, now)
      BY <1>1, <1>2, RowType
    <2>2. WriteRow(p, u, e, r) /\ KeepGrants(p, r, now)
      BY <1>10 DEF exhaust
    <2> HIDE DEF r, u, e
    <2>3. QED  BY <1>8, <2>1, <2>2
  <1>11. CASE UNCHANGED vars
    BY <1>11 
    DEF vars, table, history, CoverInv, CountCoversGrants, TierBound, Consumed, LiveOn,
        LiveIn, Limited
  <1>12. QED
    BY <1>3, <1>4, <1>5, <1>6, <1>7, <1>9, <1>10, <1>11 DEF Next

-----------------------------------------------------------------------------
(* The order of the windows, for pools whose recorded resets moved forward *)

\* The order of the stamps, for one handle against a pool's reset and last end.
Ordered(h, reset, end) ==
    /\ h.stamp # NoReset
    /\ IF h.live THEN reset # NoReset /\ h.stamp <= reset ELSE h.stamp <= end

\* Handle h is in order as pool p's reset becomes r and its last window ended at e.
OrderedWith(h, p, r, e) ==
    Ordered(h, IF h.pool = p THEN r ELSE resetAt[h.pool],
               IF h.pool = p THEN e ELSE ended[h.pool])

\* A pool whose resets moved forward, and that has a limit.
Orderly(p) == Limited(p) /\ regular[p]

\* Recovering pool p keeps its handles in order, the rest untouched.
LEMMA OrderAtTime ==
    ASSUME TypeOK, StampsInOrder, NEW p \in Pools, NEW now \in Nat, NEW a \in Attempts,
           HeldAt(p, now)[a] # NoGrant, Orderly(HeldAt(p, now)[a].pool)
    PROVE  LET h == HeldAt(p, now)[a] IN
           /\ held[a] # NoGrant /\ h.pool = held[a].pool /\ h.stamp = held[a].stamp
           /\ OrderedWith(h, p, ResetAtTime(p, now), EndedAt(p, now))
  <1>1. CASE ~Due(p, now)
    BY <1>1 DEF HeldAt, StampsInOrder, Ordered, OrderedWith, ResetAtTime, EndedAt, Orderly
  <1>2. CASE Due(p, now)
    <2>1. held[a] # NoGrant
      BY <1>2 DEF HeldAt, HeldAfterClearing
    <2>2. held[a] \in Grants
      BY <2>1 DEF TypeOK
    <2>3. CASE held[a].pool = p
      <3>1. HeldAt(p, now)[a] = [held[a] EXCEPT !.live = FALSE]
        BY <1>2, <2>1, <2>3 DEF HeldAt, HeldAfterClearing
      <3>2. /\ HeldAt(p, now)[a].pool = p
            /\ HeldAt(p, now)[a].stamp = held[a].stamp
            /\ HeldAt(p, now)[a].live = FALSE
        BY <2>2, <2>3, <3>1 DEF Grants
      <3>3. Orderly(p)
        BY <3>2
      <3>4. held[a].stamp # NoReset /\ held[a].stamp \in Nat
        BY <2>1, <2>2, <2>3, <3>3 DEF StampsInOrder, Grants, Resets, Orderly
      <3>5. resetAt[p] \in Nat /\ ended[p] \in Nat /\ ended[p] < resetAt[p]
        BY <1>2, <3>3 DEF Due, TypeOK, Resets, StampsInOrder, Orderly
      <3>6. held[a].stamp <= resetAt[p]
        BY <2>1, <2>3, <3>3, <3>4, <3>5 DEF StampsInOrder, Orderly
      <3>7. QED  BY <1>2, <2>1, <2>3, <3>2, <3>4, <3>6 DEF Ordered, OrderedWith, EndedAt
    <2>4. CASE held[a].pool # p
      <3>1. HeldAt(p, now)[a] = held[a]
        BY <1>2, <2>4 DEF HeldAt, HeldAfterClearing
      <3>2. QED  BY <2>1, <2>4, <3>1 DEF StampsInOrder, Ordered, OrderedWith, Orderly
    <2>5. QED  BY <2>3, <2>4
  <1>3. QED  BY <1>1, <1>2

\* A reservation whose window is over is never refundable in an orderly pool:
\* the reset on record lies after the last window's end, its stamp does not.
LEMMA StaleRefused ==
    ASSUME TypeOK, StampsInOrder, NEW a \in Attempts, NEW now \in Nat, held[a] # NoGrant,
           Orderly(held[a].pool), a \notin LiveIn(HeldAt(held[a].pool, now), held[a].pool)
    PROVE  ~Refundable(held[a].pool, held[a].stamp, now)
  <1> DEFINE p == held[a].pool
             h == HeldAt(p, now)
             r == ResetAtTime(p, now)
             e == EndedAt(p, now)
  <1>1. held[a] \in Grants /\ p \in Pools /\ held[a].stamp \in Resets
    BY DEF TypeOK, Grants
  <1>2. r \in Resets /\ e \in Nat
    BY <1>1, RowType, HistoryType
  <1>3. h[a] # NoGrant /\ h[a].pool = p /\ h[a].stamp = held[a].stamp /\ ~h[a].live
    <2>1. CASE Due(p, now)
      <3>1. h[a] = [held[a] EXCEPT !.live = FALSE]
        BY <2>1 DEF HeldAt, HeldAfterClearing
      <3>2. [held[a] EXCEPT !.live = FALSE] \in Grants
            /\ [held[a] EXCEPT !.live = FALSE].pool = p
            /\ [held[a] EXCEPT !.live = FALSE].stamp = held[a].stamp
            /\ [held[a] EXCEPT !.live = FALSE].live = FALSE
        BY <1>1 DEF Grants
      <3>3. QED  BY <3>1, <3>2, NoneAssumption
    <2>2. CASE ~Due(p, now)
      BY <2>2 DEF HeldAt, LiveIn
    <2>3. QED  BY <2>1, <2>2
  <1>4. held[a].stamp # NoReset /\ held[a].stamp <= e
    <2>1. OrderedWith(h[a], p, r, e)
      BY <1>1, <1>3, OrderAtTime
    <2>2. QED  BY <1>3, <2>1 DEF Ordered, OrderedWith
  <1>5. r # NoReset => e < r
    BY <1>1 DEF ResetAtTime, EndedAt, StampsInOrder, Orderly
  <1>6. r # held[a].stamp
    BY <1>1, <1>2, <1>4, <1>5 DEF Resets
  <1>7. QED  BY <1>6 DEF Refundable

\* The windows stay in order when a step leaves pool p with reset r, keeps every
\* other reset, and only keeps, drops or adds ordered handles.
LEMMA OrderKept ==
    ASSUME TypeOK, TypeOK', StampsInOrder, NEW p \in Pools, NEW r \in Resets, NEW n,
           NEW now \in Nat,
           resetAt' = [resetAt EXCEPT ![p] = r], Record(p, r, n, now),
           \A a \in Attempts :
              held'[a] # NoGrant /\ Limited(held'[a].pool) /\ regular'[held'[a].pool] =>
              OrderedWith(held'[a], p, r, EndedAt(p, now))
    PROVE  StampsInOrder'
  <1>1. /\ ended' = [ended EXCEPT ![p] = EndedAt(p, now)]
        /\ resetAt' = [resetAt EXCEPT ![p] = r]
        /\ regular' = [regular EXCEPT ![p] = regular[p] /\ Forward(p, r, now)]
    BY DEF Record
  <1>2. ended \in [Pools -> Nat] /\ resetAt \in [Pools -> Resets] /\ regular \in [Pools -> BOOLEAN]
    BY DEF TypeOK
  <1>3. ASSUME NEW q \in Pools, regular'[q], resetAt'[q] # NoReset
        PROVE  ended'[q] < resetAt'[q]
    <2>1. CASE q = p
      <3>1. Forward(p, r, now) /\ ended'[p] = EndedAt(p, now) /\ resetAt'[p] = r
        BY <1>1, <1>2, <1>3, <2>1
      <3>2. EndedAt(p, now) \in Nat /\ r \in Nat
        BY <1>3, <2>1, <3>1, HistoryType DEF Resets
      <3>3. QED  BY <1>3, <2>1, <3>1, <3>2 DEF Forward
    <2>2. CASE q # p
      BY <1>1, <1>2, <1>3, <2>2 DEF StampsInOrder
    <2>3. QED  BY <2>1, <2>2
  <1>4. ASSUME NEW a \in Attempts, held'[a] # NoGrant, Limited(held'[a].pool),
               regular'[held'[a].pool]
        PROVE  Ordered(held'[a], resetAt'[held'[a].pool], ended'[held'[a].pool])
    <2>1. held'[a] \in Grants
      BY <1>4 DEF TypeOK
    <2>2. held'[a].pool \in Pools
      BY <2>1 DEF Grants
    <2>3. OrderedWith(held'[a], p, r, EndedAt(p, now))
      BY <1>4
    <2>4. /\ resetAt'[held'[a].pool] = IF held'[a].pool = p THEN r ELSE resetAt[held'[a].pool]
          /\ ended'[held'[a].pool] = IF held'[a].pool = p THEN EndedAt(p, now)
                                                         ELSE ended[held'[a].pool]
      BY <1>1, <1>2, <2>2
    <2>5. QED  BY <2>3, <2>4 DEF OrderedWith
  <1>5. QED  BY <1>3, <1>4 DEF StampsInOrder, Limited, Ordered

\* Nothing is taken for another window's in the pool that a step writes.
LEMMA LostKept ==
    ASSUME TypeOK, NoneLost, NEW p \in Pools, NEW r, NEW n, NEW now \in Nat,
           Record(p, r, n, now), Orderly(p) => n = 0
    PROVE  NoneLost'
  <1>1. lost' = [lost EXCEPT ![p] = LostAt(p, now) + n] /\ lost \in [Pools -> Nat]
        /\ regular' = [regular EXCEPT ![p] = regular[p] /\ Forward(p, r, now)]
        /\ regular \in [Pools -> BOOLEAN]
    BY DEF Record, TypeOK
  <1>2. \A q \in Pools : regular'[q] => regular[q]
    BY <1>1
  <1>3. Orderly(p) => LostAt(p, now) = 0
    BY DEF NoneLost, LostAt, Orderly
  <1>4. ASSUME NEW q \in Pools, Limited(q), regular'[q] PROVE lost'[q] = 0
    <2>1. CASE q = p
      BY <1>1, <1>2, <1>3, <1>4, <2>1 DEF Orderly
    <2>2. CASE q # p
      BY <1>1, <1>2, <1>4, <2>2 DEF NoneLost
    <2>3. QED  BY <2>1, <2>2
  <1>5. QED  BY <1>4 DEF NoneLost, Limited

\* A step that keeps or drops the handles of the recovered pool keeps them in
\* order, wherever it moves the reset: if not forward, the pool is orderly no more.
LEMMA OrderLater ==
    ASSUME TypeOK, TypeOK', StampsInOrder, NEW p \in Pools, NEW r \in Resets, NEW n,
           NEW now \in Nat,
           ResetAtTime(p, now) # NoReset => r # NoReset,
           resetAt' = [resetAt EXCEPT ![p] = r], Record(p, r, n, now),
           \A a \in Attempts : held'[a] = HeldAt(p, now)[a] \/ held'[a] = NoGrant
    PROVE  StampsInOrder'
  <1>1. ResetAtTime(p, now) \in Resets
    BY RowType
  <1>2. regular' = [regular EXCEPT ![p] = regular[p] /\ Forward(p, r, now)]
        /\ regular \in [Pools -> BOOLEAN]
    BY DEF Record, TypeOK
  <1>3. ASSUME NEW a \in Attempts, held'[a] # NoGrant, Limited(held'[a].pool),
               regular'[held'[a].pool]
        PROVE  OrderedWith(held'[a], p, r, EndedAt(p, now))
    <2>1. held'[a] = HeldAt(p, now)[a]
      BY <1>3
    <2>2. held'[a] \in Grants
      BY <1>3 DEF TypeOK
    <2>3. held'[a].stamp \in Resets /\ held'[a].pool \in Pools
      BY <2>2 DEF Grants
    <2>4. Orderly(held'[a].pool) /\ (held'[a].pool = p => Forward(p, r, now))
      BY <1>2, <1>3, <2>3 DEF Orderly
    <2>5. OrderedWith(held'[a], p, ResetAtTime(p, now), EndedAt(p, now))
      BY <1>3, <2>1, <2>4, OrderAtTime
    <2>6. QED  BY <1>1, <2>3, <2>4, <2>5 DEF Ordered, OrderedWith, Forward, Resets
  <1>4. QED  BY <1>3, OrderKept

\* What holds of the windows' order and of the refunds kept out of them.
OrderInv == TypeOK /\ StampsInOrder /\ NoneLost

\* Every operation keeps the windows of orderly pools in order, and the refunds
\* of an earlier window out of them.
LEMMA OrderInductive == OrderInv /\ [Next]_vars => StampsInOrder' /\ NoneLost'
  <1> SUFFICES ASSUME OrderInv, [Next]_vars PROVE StampsInOrder' /\ NoneLost'
    OBVIOUS
  <1>1. TypeOK /\ TypeOK' /\ StampsInOrder /\ NoneLost
    BY TypeInductive DEF OrderInv
  <1>2. \A now \in Readings : now \in Nat
    BY <1>1, ReadingsType
  <1>3. CASE Tick
    BY <1>1, <1>3 DEF Tick, table, history, StampsInOrder, NoneLost, Limited
  <1>4. ASSUME NEW a \in Attempts, Send(a) PROVE StampsInOrder' /\ NoneLost'
    <2>1. resetAt' = resetAt /\ ended' = ended /\ regular' = regular /\ lost' = lost
          /\ \A b \in Attempts : held'[b] # NoGrant => held'[b] = held[b]
      BY <1>1, <1>4 DEF Send, table, TypeOK
    <2>2. QED  BY <1>1, <2>1 DEF StampsInOrder, NoneLost, Limited
  <1>5. ASSUME NEW now \in Readings, NEW S \in SUBSET Pools, Read(S, now)
        PROVE  StampsInOrder' /\ NoneLost'
    <2> DEFINE C == {p \in S : Due(p, now)}
    <2>1. /\ resetAt' = [p \in Pools |-> IF p \in C THEN NoReset ELSE resetAt[p]]
          /\ ended' = [p \in Pools |-> IF p \in C THEN resetAt[p] ELSE ended[p]]
          /\ lost' = [p \in Pools |-> IF p \in C THEN 0 ELSE lost[p]]
          /\ held' = HeldAfterClearing(C) /\ regular' = regular
      BY <1>5 DEF Read
    <2>2. \A p \in C : Due(p, now)
      OBVIOUS
    <2> HIDE DEF C
    <2>3. NoneLost'
      BY <1>1, <2>1 DEF NoneLost, Limited
    <2>4. ASSUME NEW p \in Pools, regular'[p], resetAt'[p] # NoReset
          PROVE  ended'[p] < resetAt'[p]
      BY <1>1, <2>1, <2>4 DEF StampsInOrder
    <2>5. ASSUME NEW a \in Attempts, held'[a] # NoGrant, Limited(held'[a].pool),
                 regular'[held'[a].pool]
          PROVE  Ordered(held'[a], resetAt'[held'[a].pool], ended'[held'[a].pool])
      <3>1. held[a] # NoGrant
        BY <2>1, <2>5 DEF HeldAfterClearing
      <3>2. held[a] \in Grants
        BY <1>1, <3>1 DEF TypeOK
      <3>3. CASE held[a].pool \in C
        <4> DEFINE p == held[a].pool
        <4>1. held'[a] = [held[a] EXCEPT !.live = FALSE]
          BY <2>1, <3>1, <3>3 DEF HeldAfterClearing
        <4>2. held'[a].pool = p /\ held'[a].stamp = held[a].stamp /\ held'[a].live = FALSE
              /\ p \in Pools
          BY <3>2, <4>1 DEF Grants
        <4>3. Limited(p) /\ regular[p] /\ ended'[p] = resetAt[p]
          BY <2>1, <2>5, <3>3, <4>2
        <4>4. held[a].stamp \in Nat /\ resetAt[p] \in Nat /\ ended[p] \in Nat
              /\ ended[p] < resetAt[p]
          BY <1>1, <2>2, <3>1, <3>2, <3>3, <4>2, <4>3
          DEF StampsInOrder, Grants, Resets, Due, TypeOK
        <4>5. held[a].stamp <= resetAt[p]
          BY <1>1, <3>1, <4>3, <4>4 DEF StampsInOrder
        <4>6. QED  BY <4>2, <4>3, <4>4, <4>5, NoneAssumption DEF Ordered
      <3>4. CASE held[a].pool \notin C
        <4>1. held'[a] = held[a]
          BY <2>1, <3>1, <3>4 DEF HeldAfterClearing
        <4>2. held[a].pool \in Pools
          BY <3>2 DEF Grants
        <4>3. resetAt'[held[a].pool] = resetAt[held[a].pool]
              /\ ended'[held[a].pool] = ended[held[a].pool]
          BY <2>1, <3>4, <4>2
        <4>4. QED  BY <1>1, <2>1, <2>5, <3>1, <4>1, <4>3 DEF StampsInOrder, Ordered
      <3>5. QED  BY <3>3, <3>4
    <2>6. QED  BY <2>3, <2>4, <2>5 DEF StampsInOrder, Limited, Ordered
  <1>6. ASSUME NEW now \in Readings, NEW a \in Attempts, NEW p \in Pools,
               NEW app \in Applications, reserve(a, p, app, now)
        PROVE  StampsInOrder' /\ NoneLost'
    <2> DEFINE g == [pool |-> p, app |-> app, stamp |-> StampFor(p, now), live |-> TRUE]
               h == HeldAt(p, now)
               r == StampFor(p, now)
    <2>1. r \in Resets /\ ResetAtTime(p, now) \in Resets /\ h \in HeldType /\ now \in Nat
      BY <1>1, <1>2, StampType, RowType
    <2>2. g \in Grants /\ g.live = TRUE /\ g.pool = p /\ g.stamp = r
      BY <2>1 DEF Grants
    <2>3. h[a] = NoGrant /\ held' = [h EXCEPT ![a] = g]
      BY <1>6 DEF reserve, HeldAt, HeldAfterClearing
    <2>4. Limited(p) => r # NoReset
      <3>1. ASSUME Limited(p) PROVE Window[p] \in Windows /\ Window[p] # NoWindow
        BY <3>1, LimitAssumption DEF Limited
      <3>2. QED
        BY <2>1, <3>1, WindowAhead, NoneAssumption DEF StampFor, Limited
    <2>5. ResetAtTime(p, now) # NoReset => r = ResetAtTime(p, now)
      BY DEF StampFor
    <2>6. resetAt' = [resetAt EXCEPT ![p] = r] /\ Record(p, r, 0, now)
      BY <1>6 DEF reserve, WriteRow
    <2> HIDE DEF g, h, r
    <2>7. regular' = [regular EXCEPT ![p] = regular[p] /\ Forward(p, r, now)]
          /\ regular \in [Pools -> BOOLEAN]
      BY <1>1, <2>6 DEF Record, TypeOK
    <2>8. ASSUME NEW b \in Attempts, held'[b] # NoGrant, Limited(held'[b].pool),
                 regular'[held'[b].pool]
          PROVE  OrderedWith(held'[b], p, r, EndedAt(p, now))
      <3>1. CASE b = a
        <4>1. held'[b] = g
          BY <2>1, <2>3, <3>1 DEF HeldType
        <4>2. QED  BY <2>1, <2>2, <2>4, <2>8, <4>1 DEF Ordered, OrderedWith, Resets
      <3>2. CASE b # a
        <4>1. held'[b] = h[b]
          BY <2>1, <2>3, <3>2 DEF HeldType
        <4>2. held'[b] \in Grants
          BY <1>1, <2>8 DEF TypeOK
        <4>3. held'[b].pool \in Pools
          BY <4>2 DEF Grants
        <4>4. Orderly(h[b].pool)
          BY <2>7, <2>8, <4>1, <4>3 DEF Orderly
        <4>5. OrderedWith(h[b], p, ResetAtTime(p, now), EndedAt(p, now))
          BY <1>1, <2>1, <2>8, <4>1, <4>4, OrderAtTime DEF h
        <4>6. QED  BY <2>5, <4>1, <4>5 DEF Ordered, OrderedWith
      <3>3. QED  BY <3>1, <3>2
    <2>9. StampsInOrder'
      BY <1>1, <2>1, <2>6, <2>8, OrderKept
    <2>10. NoneLost'
      BY <1>1, <2>1, <2>6, LostKept
    <2>11. QED  BY <2>9, <2>10
  <1>7. ASSUME NEW now \in Readings, NEW a \in Attempts, release(a, now)
        PROVE  StampsInOrder' /\ NoneLost'
    <2> DEFINE p == held[a].pool
               h == HeldAt(p, now)
               r == ResetAtTime(p, now)
               u == UsedAt(p, now)
               left == IF Refundable(p, held[a].stamp, now) THEN Refunded(u) ELSE u
               n == IF held[a].live THEN 0 ELSE u - left
    <2>1. held[a] # NoGrant /\ held[a] \in Grants /\ p \in Pools /\ now \in Nat
      BY <1>1, <1>2, <1>7 DEF release, TypeOK, Grants
    <2>2. h \in HeldType /\ r \in Resets /\ u \in Nat
      BY <1>1, <2>1, RowType
    <2>3. held' = [h EXCEPT ![a] = NoGrant] /\ resetAt' = [resetAt EXCEPT ![p] = r]
          /\ Record(p, r, n, now)
      BY <1>7 DEF release, WriteRow
    <2>4. Orderly(p) => n = 0
      <3>1. CASE held[a].live
        BY <3>1
      <3>2. CASE ~held[a].live
        <4>1. a \notin LiveIn(h, p)
          <5>1. a \notin LiveOn(p)
            BY <3>2 DEF LiveOn, LiveIn
          <5>2. QED  BY <1>1, <2>1, <5>1, LiveAtTime
        <4>2. Orderly(p) => ~Refundable(p, held[a].stamp, now)
          BY <1>1, <2>1, <4>1, StaleRefused
        <4>3. QED  BY <2>2, <4>2
      <3>3. QED  BY <3>1, <3>2
    <2> HIDE DEF n, u, left
    <2>5. \A b \in Attempts : held'[b] = h[b] \/ held'[b] = NoGrant
      BY <2>2, <2>3 DEF HeldType
    <2> HIDE DEF h, r, p
    <2>6. StampsInOrder'
      BY <1>1, <2>1, <2>2, <2>3, <2>5, OrderLater DEF h, r
    <2>7. NoneLost'
      BY <1>1, <2>1, <2>2, <2>3, <2>4, LostKept
    <2>8. QED  BY <2>6, <2>7
  <1>8. ASSUME NEW now \in Readings, NEW p \in Pools, NEW u, NEW e, NEW r \in Resets,
               WriteRow(p, u, e, r), KeepGrants(p, r, now),
               ResetAtTime(p, now) # NoReset => r # NoReset
        PROVE  StampsInOrder' /\ NoneLost'
    <2>1. held' = HeldAt(p, now) /\ resetAt' = [resetAt EXCEPT ![p] = r]
          /\ Record(p, r, 0, now) /\ now \in Nat
      BY <1>2, <1>8 DEF KeepGrants, WriteRow
    <2>2. StampsInOrder'
      BY <1>1, <1>8, <2>1, OrderLater
    <2>3. NoneLost'
      BY <1>1, <2>1, LostKept
    <2>4. QED  BY <2>2, <2>3
  <1>9. ASSUME NEW now \in Readings, NEW p \in Pools, NEW limit \in ObservedLimits,
               NEW reset \in ReportedResets \cup {NoReset}, NEW remaining \in 0..limit,
               observe(p, limit, remaining, reset, now)
        PROVE  StampsInOrder' /\ NoneLost'
    <2> DEFINE r == ResetAfterObserving(p, remaining, reset, now)
               u == CountAfterObserving(p, limit, remaining, now)
               e == ExhaustedAt(p, now) \/ ShowsSpent(remaining, r)
    <2>1. ResetAtTime(p, now) \in Resets /\ reset \in Resets
      BY <1>1, <1>2, RowType, InputAssumption DEF Resets
    <2>2. r \in Resets /\ (ResetAtTime(p, now) # NoReset => r # NoReset)
      BY <2>1, NoneAssumption DEF ResetAfterObserving, Usable, AtLeast, Resets
    <2>3. WriteRow(p, u, e, r) /\ KeepGrants(p, r, now)
      BY <1>9 DEF observe
    <2> HIDE DEF r, u, e
    <2>4. QED  BY <1>8, <2>2, <2>3
  <1>10. ASSUME NEW now \in Readings, NEW p \in Pools, NEW reset \in ReportedResets,
                exhaust(p, reset, now)
         PROVE  StampsInOrder' /\ NoneLost'
    <2> DEFINE r == ResetAfterExhausting(p, reset, now)
               u == UsedAt(p, now)
               e == TRUE
    <2>1. ResetAtTime(p, now) \in Resets /\ reset \in Nat
      BY <1>1, <1>2, RowType, InputAssumption
    <2>2. r \in Resets /\ r # NoReset
      BY <2>1, NoneAssumption DEF ResetAfterExhausting, AtLeast, Resets
    <2>3. WriteRow(p, u, e, r) /\ KeepGrants(p, r, now)
      BY <1>10 DEF exhaust
    <2> HIDE DEF r, u, e
    <2>4. QED  BY <1>8, <2>2, <2>3
  <1>11. CASE UNCHANGED vars
    BY <1>1, <1>11 DEF vars, table, history, StampsInOrder, NoneLost, Limited
  <1>12. QED
    BY <1>3, <1>4, <1>5, <1>6, <1>7, <1>9, <1>10, <1>11 DEF Next

\* Together: what holds of the counters and of the order of the windows is kept.
LEMMA TierInductive == IInv /\ [Next]_vars => IInv'
  <1> SUFFICES ASSUME IInv, [Next]_vars PROVE IInv'
    OBVIOUS
  <1>1. CoverInv /\ OrderInv
    BY DEF IInv, CoverInv, OrderInv
  <1>2. QED  BY <1>1, CoverInductive, OrderInductive DEF IInv

\* A fresh ledger satisfies the inductive invariant.
LEMMA TierInitially == Init => IInv
  <1> SUFFICES ASSUME Init PROVE IInv
    OBVIOUS
  <1>1. TypeOK
    BY DEF Init, TypeOK, Resets
  <1>2. \A p \in Pools : LiveOn(p) = {} /\ spent[p] = 0 /\ used[p] = 0 /\ lost[p] = 0
    BY DEF Init, LiveOn, LiveIn
  <1>3. \A p \in Pools : Limited(p) => Limit[p] \in Nat
    BY LimitAssumption DEF Limited
  <1>4. \A p \in Pools : Consumed(p) = 0
    BY <1>2, FS_EmptySet DEF Consumed
  <1>5. CountCoversGrants /\ TierBound /\ NoneLost
    BY <1>2, <1>3, <1>4 DEF CountCoversGrants, TierBound, NoneLost
  <1>6. StampsInOrder
    BY DEF Init, StampsInOrder
  <1>7. QED  BY <1>1, <1>5, <1>6 DEF IInv, CoverInv

\* Whatever processes, clocks, refunds and reports do, a limited pool's counter
\* accounts for every request granted in the current window, but for one for each
\* refund of an earlier window that was taken off it.
THEOREM CountNeverShort == Spec => []CountCoversGrants
  <1>1. IInv => CountCoversGrants
    BY DEF IInv, CoverInv
  <1>2. QED  BY <1>1, TierInitially, TierInductive, PTL DEF Spec

\* No window of a limited pool grants more requests than the free tier gives and
\* one for each such refund; and there is none while the resets recorded for the
\* pool moved forward, however late the clocks.
THEOREM TierNeverExceeded == Spec => []WithinTier
  <1>1. IInv => WithinTier
    BY DEF IInv, CoverInv, TierBound, NoneLost, WithinTier
  <1>2. QED  BY <1>1, TierInitially, TierInductive, PTL DEF Spec

\* Giving back a reservation whose window is over takes nothing from the window
\* that stands, in a limited pool whose recorded resets moved forward.
LEMMA StaleTakesNothing ==
    ASSUME OrderInv, [Next]_vars, NEW a \in Attempts,
           GivesBack(a), ~held[a].live, Orderly(held[a].pool)
    PROVE  ~TakesFrom(held[a].pool)
  <1> DEFINE p == held[a].pool
  <1>1. TypeOK /\ StampsInOrder /\ clock \in Nat
    BY DEF OrderInv, TypeOK
  <1>2. held[a] # NoGrant /\ held[a] \in Grants /\ p \in Pools
    BY <1>1 DEF GivesBack, TypeOK, Grants
  <1>3. CASE Send(a)
    BY <1>1, <1>2, <1>3 DEF Send, table, TakesFrom, TypeOK
  <1>4. ASSUME NEW now \in Readings, release(a, now) PROVE ~TakesFrom(p)
    <2>1. now \in Nat /\ now <= clock
      BY <1>1, <1>4 DEF Readings
    <2>2. a \notin LiveIn(HeldAt(p, now), p)
      <3>1. a \notin LiveOn(p)
        BY DEF LiveOn, LiveIn
      <3>2. QED  BY <1>1, <1>2, <2>1, <3>1, LiveAtTime
    <2>3. ~Refundable(p, held[a].stamp, now)
      BY <1>1, <1>2, <2>1, <2>2, StaleRefused
    <2>4. used'[p] = UsedAt(p, now)
      BY <1>1, <1>2, <1>4, <2>3 DEF release, WriteRow, TypeOK
    <2>5. used[p] \in Nat /\ resetAt[p] \in Resets
      BY <1>1, <1>2 DEF TypeOK
    <2>6. QED  BY <1>1, <2>1, <2>4, <2>5 DEF TakesFrom, UsedAt, Due, Resets
  <1>5. QED  BY <1>1, <1>3, <1>4, GivenBack

\* A reservation whose window was cleared is never subtracted from the window
\* that followed, as release promises, in any limited pool whose recorded resets
\* moved forward; the violated run shows what a reset that moves back costs.
THEOREM RefundsKeepToWindow ==
    Spec => [][\A a \in Attempts : GivesBack(a) /\ ~held[a].live /\ Orderly(held[a].pool)
                  => ~TakesFrom(held[a].pool)]_vars
  <1>1. IInv /\ [Next]_vars =>
          [\A a \in Attempts : GivesBack(a) /\ ~held[a].live /\ Orderly(held[a].pool)
                  => ~TakesFrom(held[a].pool)]_vars
    BY StaleTakesNothing DEF IInv, CoverInv, OrderInv
  <1>2. QED  BY <1>1, TierInitially, TierInductive, PTL DEF Spec

-----------------------------------------------------------------------------
(* Blocks: no assumption on lag or reports is needed *)

BlockInv == TypeOK /\ ExhaustedHasReset

\* What a step may do to a row it writes: an exhausted row has a reset, a block
\* in force stays with a reset no earlier, a new one outlasts the window cleared.
BlockWrite(p, now, e, r) ==
    /\ e \in BOOLEAN /\ r \in Resets
    /\ e => r # NoReset
    /\ ExhaustedAt(p, now) => e /\ r >= resetAt[p]
    /\ Due(p, now) /\ e => r >= resetAt[p]

BlockStep ==
    \A p \in Pools : exhausted[p] =>
        IF exhausted'[p] THEN resetAt'[p] >= resetAt[p] ELSE clock >= resetAt[p]

\* A row written by WriteRow that keeps or lengthens its block keeps BlockStep.
LEMMA BlockWriteKeeps ==
    ASSUME BlockInv, NEW p \in Pools, NEW now \in Readings, NEW u, NEW e, NEW r,
           WriteRow(p, u, e, r), BlockWrite(p, now, e, r)
    PROVE  ExhaustedHasReset' /\ BlockStep
  <1>1. TypeOK /\ ExhaustedHasReset /\ now \in Nat /\ clock \in Nat /\ now <= clock
    BY DEF BlockInv, TypeOK, Readings
  <1>2. exhausted'[p] = e /\ resetAt'[p] = r
        /\ \A q \in Pools \ {p} : exhausted'[q] = exhausted[q] /\ resetAt'[q] = resetAt[q]
    BY <1>1 DEF WriteRow, TypeOK
  <1>3. \A q \in Pools : exhausted[q] => resetAt[q] \in Nat
    BY <1>1 DEF ExhaustedHasReset, TypeOK, Resets
  <1>4. ExhaustedHasReset'
    BY <1>1, <1>2 DEF ExhaustedHasReset, BlockWrite
  <1>5. ASSUME NEW q \in Pools, exhausted[q]
        PROVE  IF exhausted'[q] THEN resetAt'[q] >= resetAt[q] ELSE clock >= resetAt[q]
    <2>1. CASE q # p
      BY <1>2, <1>3, <1>5, <2>1
    <2>2. CASE q = p
      BY <1>1, <1>2, <1>3, <1>5, <2>2 DEF BlockWrite, ExhaustedAt, Due
    <2>3. QED  BY <2>1, <2>2
  <1>6. QED  BY <1>4, <1>5 DEF BlockStep

\* Every ledger operation keeps a block with its reset, and never shortens it.
LEMMA BlockInductive == BlockInv /\ [Next]_vars => ExhaustedHasReset' /\ BlockStep
  <1> SUFFICES ASSUME BlockInv, [Next]_vars PROVE ExhaustedHasReset' /\ BlockStep
    OBVIOUS
  <1>1. TypeOK /\ ExhaustedHasReset
    BY DEF BlockInv
  <1>2. ASSUME UNCHANGED <<exhausted, resetAt>>
        PROVE  ExhaustedHasReset' /\ BlockStep
    <2>1. \A p \in Pools : exhausted[p] => resetAt[p] \in Nat
      BY <1>1 DEF ExhaustedHasReset, TypeOK, Resets
    <2>2. QED  BY <1>1, <1>2, <2>1 DEF ExhaustedHasReset, BlockStep
  <1>3. ASSUME NEW now \in Readings, NEW p \in Pools
        PROVE  /\ now \in Nat /\ ResetAtTime(p, now) \in Resets
               /\ ExhaustedAt(p, now) => exhausted[p] /\ ~Due(p, now) /\ resetAt[p] \in Nat
                                         /\ ResetAtTime(p, now) = resetAt[p]
               /\ Due(p, now) => resetAt[p] \in Nat /\ now >= resetAt[p]
    BY <1>1, RowType, ReadingsType
    DEF ExhaustedHasReset, TypeOK, Resets, ExhaustedAt, ResetAtTime, Due
  <1>4. CASE Tick
    BY <1>2, <1>4 DEF Tick, table
  <1>5. ASSUME NEW a \in Attempts, Send(a) PROVE ExhaustedHasReset' /\ BlockStep
    BY <1>2, <1>5 DEF Send, table
  <1>6. ASSUME NEW now \in Readings, NEW S \in SUBSET Pools, Read(S, now)
        PROVE  ExhaustedHasReset' /\ BlockStep
    <2>1. ExhaustedHasReset'
      BY <1>1, <1>6 DEF Read, ExhaustedHasReset
    <2>2. ASSUME NEW p \in Pools, exhausted[p]
          PROVE  IF exhausted'[p] THEN resetAt'[p] >= resetAt[p] ELSE clock >= resetAt[p]
      <3>1. clock \in Nat /\ now \in Nat /\ now <= clock /\ resetAt[p] \in Nat
        BY <1>1, <2>2 DEF TypeOK, Readings, ExhaustedHasReset, Resets
      <3>2. CASE p \in S /\ Due(p, now)
        <4>1. ~exhausted'[p]
          BY <1>6, <3>2 DEF Read
        <4>2. now >= resetAt[p]
          BY <3>2 DEF Due
        <4>3. QED  BY <3>1, <4>1, <4>2
      <3>3. CASE ~(p \in S /\ Due(p, now))
        <4>1. resetAt'[p] = resetAt[p]
          BY <1>6, <3>3 DEF Read
        <4>2. exhausted'[p] = TRUE
          BY <1>6, <2>2, <3>3 DEF Read
        <4>3. QED  BY <3>1, <4>1, <4>2
      <3>4. QED  BY <3>2, <3>3
    <2>3. QED  BY <2>1, <2>2 DEF BlockStep
  <1>7. ASSUME NEW now \in Readings, NEW a \in Attempts, NEW p \in Pools,
               NEW app \in Applications, reserve(a, p, app, now)
        PROVE  ExhaustedHasReset' /\ BlockStep
    <2>1. WriteRow(p, UsedAt(p, now) + 1, FALSE, StampFor(p, now)) /\ ~ExhaustedAt(p, now)
      BY <1>7 DEF reserve
    <2>2. StampFor(p, now) \in Resets
      BY <1>1, <1>3, StampType
    <2>3. BlockWrite(p, now, FALSE, StampFor(p, now))
      BY <2>1, <2>2 DEF BlockWrite
    <2>4. QED  BY <2>1, <2>3, BlockWriteKeeps
  <1>8. ASSUME NEW now \in Readings, NEW a \in Attempts, release(a, now)
        PROVE  ExhaustedHasReset' /\ BlockStep
    <2> DEFINE p == held[a].pool
               u == IF Refundable(p, held[a].stamp, now)
                      THEN Refunded(UsedAt(p, now)) ELSE UsedAt(p, now)
    <2>1. p \in Pools
      BY <1>1, <1>8 DEF release, TypeOK, Grants
    <2>2. WriteRow(p, u, ExhaustedAt(p, now), ResetAtTime(p, now))
      BY <1>8 DEF release
    <2>3. ExhaustedAt(p, now) \in BOOLEAN
      BY <1>1, <1>3, <2>1, RowType
    <2>4. BlockWrite(p, now, ExhaustedAt(p, now), ResetAtTime(p, now))
      BY <1>3, <2>1, <2>3, NoneAssumption DEF BlockWrite
    <2> HIDE DEF p, u
    <2>5. QED  BY <2>1, <2>2, <2>4, BlockWriteKeeps
  <1>9. ASSUME NEW now \in Readings, NEW p \in Pools, NEW limit \in ObservedLimits,
               NEW reset \in ReportedResets \cup {NoReset}, NEW remaining \in 0..limit,
               observe(p, limit, remaining, reset, now)
        PROVE  ExhaustedHasReset' /\ BlockStep
    <2> DEFINE r == ResetAfterObserving(p, remaining, reset, now)
               e == ExhaustedAt(p, now) \/ ShowsSpent(remaining, r)
               u == CountAfterObserving(p, limit, remaining, now)
    <2>1. WriteRow(p, u, e, r)
      BY <1>9 DEF observe
    <2>2. reset \in Resets /\ e \in BOOLEAN
      BY InputAssumption DEF Resets
    <2>3. r \in Resets /\ (ExhaustedAt(p, now) => r \in Nat /\ r >= resetAt[p])
      BY <1>3, <2>2, NoneAssumption DEF ResetAfterObserving, Usable, AtLeast, Resets
    <2>4. Due(p, now) /\ r # NoReset => r >= resetAt[p]
      BY <1>3, <2>2 DEF ResetAfterObserving, ResetAtTime, ExhaustedAt, Usable, Resets
    <2>5. BlockWrite(p, now, e, r)
      <3>1. e => r # NoReset
        BY <2>3, NoneAssumption DEF ShowsSpent
      <3>2. QED  BY <2>2, <2>3, <2>4, <3>1 DEF BlockWrite
    <2> HIDE DEF r, e, u
    <2>6. QED  BY <2>1, <2>5, BlockWriteKeeps
  <1>10. ASSUME NEW now \in Readings, NEW p \in Pools, NEW reset \in ReportedResets,
                exhaust(p, reset, now)
         PROVE  ExhaustedHasReset' /\ BlockStep
    <2> DEFINE r == ResetAfterExhausting(p, reset, now)
    <2>1. WriteRow(p, UsedAt(p, now), TRUE, r) /\ reset > now
      BY <1>10 DEF exhaust
    <2>2. reset \in Nat
      BY InputAssumption
    <2>3. r \in Nat /\ r >= reset /\ (ExhaustedAt(p, now) => r >= resetAt[p])
      BY <1>3, <2>2, NoneAssumption DEF ResetAfterExhausting, AtLeast, Resets
    <2>4. BlockWrite(p, now, TRUE, r)
      BY <1>3, <2>1, <2>2, <2>3, NoneAssumption DEF BlockWrite, Resets
    <2> HIDE DEF r
    <2>5. QED  BY <2>1, <2>4, BlockWriteKeeps
  <1>11. CASE UNCHANGED vars
    BY <1>2, <1>11 DEF vars, table
  <1>12. QED
    BY <1>4, <1>5, <1>6, <1>7, <1>8, <1>9, <1>10, <1>11 DEF Next

\* A fresh ledger blocks no pool.
LEMMA BlockInitially == Init => BlockInv
  BY DEF Init, BlockInv, TypeOK, ExhaustedHasReset, Resets

\* An exhausted pool always records how it recovers, for any clock lag and any
\* order of reports: no application is ever stranded.
THEOREM NeverStranded == Spec => []ExhaustedHasReset
  <1>1. BlockInv /\ [Next]_vars => BlockInv'
    BY BlockInductive, TypeInductive DEF BlockInv
  <1>2. BlockInv => ExhaustedHasReset
    BY DEF BlockInv
  <1>3. QED  BY <1>1, <1>2, BlockInitially, PTL DEF Spec

\* Until its recorded reset comes an exhausted pool stays exhausted and that
\* reset never moves earlier, for any clock lag and any order of reports.
THEOREM BlocksHold == Spec => BlockNeverShortened
  <1>1. BlockInv /\ [Next]_vars => BlockInv'
    BY BlockInductive, TypeInductive DEF BlockInv
  <1>2. BlockInv /\ [Next]_vars =>
          [\A p \in Pools : exhausted[p] =>
             IF exhausted'[p] THEN resetAt'[p] >= resetAt[p] ELSE clock >= resetAt[p]]_vars
    BY BlockInductive DEF BlockStep
  <1>3. QED  BY <1>1, <1>2, BlockInitially, PTL DEF Spec, BlockNeverShortened

-----------------------------------------------------------------------------
(* Windows end in order: the clear that ends one wipes no later grant *)

GrantsPast == \A p \in Pools : lastGrant[p] <= clock

GrantsInv == TypeOK /\ GrantsPast /\ GrantsNearReset

\* A write to one pool keeps GrantsInv if that pool's latest grant is past and
\* before its reset, give or take the lag.
LEMMA GrantsOnePool ==
    ASSUME GrantsInv, TypeOK', NEW p \in Pools, clock' = clock, NEW g, NEW r, NEW u, NEW e,
           WriteRow(p, u, e, r), lastGrant' = [lastGrant EXCEPT ![p] = g],
           g <= clock, r # NoReset => g < r + MaxLag
    PROVE  GrantsPast' /\ GrantsNearReset'
  <1>1. lastGrant'[p] = g /\ resetAt'[p] = r
        /\ \A q \in Pools \ {p} : lastGrant'[q] = lastGrant[q] /\ resetAt'[q] = resetAt[q]
    BY DEF GrantsInv, TypeOK, WriteRow
  <1>2. QED  BY <1>1 DEF GrantsInv, GrantsPast, GrantsNearReset

\* A transaction's clock reading is not ahead of the clock, nor more than MaxLag behind.
LEMMA ReadingsNear ==
    ASSUME TypeOK, NEW now \in Readings
    PROVE  /\ now \in Nat /\ clock \in Nat /\ MaxLag \in Nat
           /\ now <= clock /\ clock <= now + MaxLag
  BY TimeAssumption DEF Readings, TypeOK

\* The latest grant of the window _recover leaves is past, and near its reset.
LEMMA GrantsAtTime ==
    ASSUME GrantsInv, NEW p \in Pools, NEW now \in Readings
    PROVE  /\ LastGrantAt(p, now) <= clock /\ LastGrantAt(p, now) \in Nat
           /\ ResetAtTime(p, now) \in Resets
           /\ ResetAtTime(p, now) # NoReset
                => /\ now < ResetAtTime(p, now)
                   /\ LastGrantAt(p, now) < ResetAtTime(p, now) + MaxLag
  <1>1. TypeOK /\ now \in Nat /\ clock \in Nat
    BY ReadingsNear DEF GrantsInv
  <1>2. LastGrantAt(p, now) \in Nat /\ ResetAtTime(p, now) \in Resets
    BY <1>1, RowType
  <1>3. LastGrantAt(p, now) <= clock
    BY <1>1 DEF GrantsInv, GrantsPast, LastGrantAt
  <1>4. ResetAtTime(p, now) # NoReset
          => /\ now < ResetAtTime(p, now)
             /\ LastGrantAt(p, now) < ResetAtTime(p, now) + MaxLag
    BY <1>1 DEF GrantsInv, GrantsNearReset, ResetAtTime, LastGrantAt, Due, TypeOK, Resets
  <1>5. QED  BY <1>2, <1>3, <1>4

\* The stamp of a reservation lies after the reading it is made at.
LEMMA StampAhead ==
    ASSUME TypeOK, NEW p \in Pools, NEW now \in Nat, StampFor(p, now) # NoReset
    PROVE  StampFor(p, now) > now
  <1>1. CASE ResetAtTime(p, now) # NoReset
    BY <1>1 DEF StampFor, ResetAtTime, Due, TypeOK, Resets
  <1>2. CASE ResetAtTime(p, now) = NoReset
    <2>1. CASE Limit[p] # NoLimit /\ Window[p] # NoWindow
      <3>1. Window[p] \in Windows
        BY <2>1, LimitAssumption
      <3>2. StampFor(p, now) = next_window_reset(Window[p], now)
        BY <1>2, <2>1 DEF StampFor
      <3>3. QED  BY <3>1, <3>2, WindowAhead
    <2>2. CASE ~(Limit[p] # NoLimit /\ Window[p] # NoWindow)
      BY <1>2, <2>2 DEF StampFor
    <2>3. QED  BY <2>1, <2>2
  <1>3. QED  BY <1>1, <1>2

\* Every transaction keeps each window's grants before its reset, give or take
\* the age of its clock reading.
LEMMA GrantsInductive == GrantsInv /\ [Next]_vars => GrantsInv'
  <1> SUFFICES ASSUME GrantsInv, [Next]_vars PROVE GrantsInv'
    OBVIOUS
  <1>1. TypeOK /\ TypeOK' /\ clock \in Nat /\ MaxLag \in Nat
    BY TypeInductive, TimeAssumption DEF GrantsInv, TypeOK
  <1>2. \A now \in Readings : now \in Nat /\ now <= clock /\ clock <= now + MaxLag
    BY <1>1, ReadingsNear
  <1> SUFFICES GrantsPast' /\ GrantsNearReset'
    BY <1>1 DEF GrantsInv
  <1>3. CASE Tick
    <2>1. \A p \in Pools : lastGrant[p] \in Nat
      BY <1>1 DEF TypeOK
    <2>2. QED
      BY <1>1, <1>3, <2>1 DEF Tick, table, history, GrantsInv, GrantsPast, GrantsNearReset
  <1>4. ASSUME NEW a \in Attempts, Send(a) PROVE GrantsPast' /\ GrantsNearReset'
    BY <1>4 DEF Send, table, GrantsInv, GrantsPast, GrantsNearReset
  <1>5. ASSUME NEW now \in Readings, NEW S \in SUBSET Pools, Read(S, now)
        PROVE  GrantsPast' /\ GrantsNearReset'
    <2> DEFINE C == {p \in S : Due(p, now)}
    <2>1. /\ resetAt' = [p \in Pools |-> IF p \in C THEN NoReset ELSE resetAt[p]]
          /\ lastGrant' = [p \in Pools |-> IF p \in C THEN 0 ELSE lastGrant[p]]
          /\ clock' = clock
      BY <1>5 DEF Read
    <2> HIDE DEF C
    <2>2. QED  BY <1>1, <2>1 DEF GrantsInv, GrantsPast, GrantsNearReset
  <1>6. ASSUME NEW now \in Readings, NEW a \in Attempts, NEW p \in Pools,
               NEW app \in Applications, reserve(a, p, app, now)
        PROVE  GrantsPast' /\ GrantsNearReset'
    <2> DEFINE u == UsedAt(p, now) + 1
               e == FALSE
               r == StampFor(p, now)
    <2>1. WriteRow(p, u, e, r) /\ lastGrant' = [lastGrant EXCEPT ![p] = clock] /\ clock' = clock
      BY <1>6 DEF reserve
    <2>2. r # NoReset => clock < r + MaxLag
      <3>1. r \in Resets
        BY <1>1, <1>2, StampType
      <3>2. QED  BY <1>1, <1>2, <3>1, StampAhead DEF Resets
    <2>3. clock <= clock
      BY <1>1
    <2> HIDE DEF u, e, r
    <2>4. QED  BY <1>1, <2>1, <2>2, <2>3, GrantsOnePool
  <1>7. ASSUME NEW now \in Readings, NEW p \in Pools, NEW u, NEW e, NEW r,
               WriteRow(p, u, e, r), clock' = clock,
               lastGrant' = [lastGrant EXCEPT ![p] = LastGrantAt(p, now)],
               r # NoReset => r \in Nat /\ (r = ResetAtTime(p, now) \/ r > now)
        PROVE  GrantsPast' /\ GrantsNearReset'
    <2> DEFINE g == LastGrantAt(p, now)
    <2>1. g <= clock /\ (r # NoReset => g < r + MaxLag)
      BY <1>1, <1>2, <1>7, GrantsAtTime DEF Resets
    <2> HIDE DEF g
    <2>2. lastGrant' = [lastGrant EXCEPT ![p] = g]
      BY <1>7 DEF g
    <2>3. QED  BY <1>1, <1>7, <2>1, <2>2, GrantsOnePool
  <1>8. ASSUME NEW now \in Readings, NEW a \in Attempts, release(a, now)
        PROVE  GrantsPast' /\ GrantsNearReset'
    <2> DEFINE p == held[a].pool
               u == IF Refundable(p, held[a].stamp, now)
                      THEN Refunded(UsedAt(p, now)) ELSE UsedAt(p, now)
               e == ExhaustedAt(p, now)
               r == ResetAtTime(p, now)
    <2>1. p \in Pools
      BY <1>1, <1>8 DEF release, TypeOK, Grants
    <2>2. WriteRow(p, u, e, r) /\ clock' = clock
          /\ lastGrant' = [lastGrant EXCEPT ![p] = LastGrantAt(p, now)]
      BY <1>8 DEF release
    <2>3. r # NoReset => r \in Nat /\ r = ResetAtTime(p, now)
      BY <2>1, GrantsAtTime DEF Resets
    <2> HIDE DEF p, u, e, r
    <2>4. QED  BY <1>7, <2>1, <2>2, <2>3
  <1>9. ASSUME NEW now \in Readings, NEW p \in Pools, NEW limit \in ObservedLimits,
               NEW reset \in ReportedResets \cup {NoReset}, NEW remaining \in 0..limit,
               observe(p, limit, remaining, reset, now)
        PROVE  GrantsPast' /\ GrantsNearReset'
    <2> DEFINE r == ResetAfterObserving(p, remaining, reset, now)
               u == CountAfterObserving(p, limit, remaining, now)
               e == ExhaustedAt(p, now) \/ ShowsSpent(remaining, r)
    <2>1. reset \in Resets /\ ResetAtTime(p, now) \in Resets
      BY InputAssumption, GrantsAtTime DEF Resets
    <2>2. r # NoReset => r \in Nat /\ (r = ResetAtTime(p, now) \/ r > now)
      BY <1>1, <2>1 DEF ResetAfterObserving, Usable, AtLeast, Resets
    <2>3. WriteRow(p, u, e, r) /\ clock' = clock
          /\ lastGrant' = [lastGrant EXCEPT ![p] = LastGrantAt(p, now)]
      BY <1>9 DEF observe, KeepGrants
    <2> HIDE DEF u, e, r
    <2>4. QED  BY <1>7, <2>2, <2>3
  <1>10. ASSUME NEW now \in Readings, NEW p \in Pools, NEW reset \in ReportedResets,
                exhaust(p, reset, now)
         PROVE  GrantsPast' /\ GrantsNearReset'
    <2> DEFINE r == ResetAfterExhausting(p, reset, now)
               u == UsedAt(p, now)
               e == TRUE
    <2>1. reset \in Nat /\ reset > now /\ ResetAtTime(p, now) \in Resets
      BY <1>10, InputAssumption, GrantsAtTime DEF exhaust
    <2>2. r # NoReset => r \in Nat /\ (r = ResetAtTime(p, now) \/ r > now)
      BY <1>1, <2>1 DEF ResetAfterExhausting, AtLeast, Resets
    <2>3. WriteRow(p, u, e, r) /\ clock' = clock
          /\ lastGrant' = [lastGrant EXCEPT ![p] = LastGrantAt(p, now)]
      BY <1>10 DEF exhaust, KeepGrants
    <2> HIDE DEF u, e, r
    <2>4. QED  BY <1>7, <2>2, <2>3
  <1>11. CASE UNCHANGED vars
    BY <1>11 DEF vars, table, history, GrantsInv, GrantsPast, GrantsNearReset
  <1>12. QED
    BY <1>3, <1>4, <1>5, <1>6, <1>8, <1>9, <1>10, <1>11 DEF Next

\* No window of a fresh ledger is open.
LEMMA GrantsInitially == Init => GrantsInv
  BY DEF Init, GrantsInv, GrantsPast, GrantsNearReset, TypeOK, Resets

\* The only grants a clear can wipe wrongly are those of late transactions:
\* whatever is reported and refunded, a window holds no grant made MaxLag or more
\* after the reset that will clear it.
THEOREM GrantsStayNear == Spec => []GrantsNearReset
  <1>1. GrantsInv => GrantsNearReset
    BY DEF GrantsInv
  <1>2. QED  BY <1>1, GrantsInductive, GrantsInitially, PTL DEF Spec

-----------------------------------------------------------------------------
(* The ledger implements FreeTier.  A window is rolled by the transaction    *)
(* whose reading finds the pool due, and what _recover shows it is FreeTier's *)
(* view of that pool.                                                        *)

LiveSets == [p \in Pools |-> LiveOn(p)]

\* FreeTier's view of a pool is the row as _recover shows it at the transaction's
\* reading, by which the pool is noticed to be over at most MaxLag late.
LEMMA TierView ==
    ASSUME TypeOK, NEW p \in Pools, NEW now \in Readings
    PROVE  /\ Tier!Notices(p, Due(p, now))
           /\ Tier!LiveNow(p, Due(p, now)) = LiveIn(HeldAt(p, now), p)
           /\ Tier!SpentNow(p, Due(p, now)) = SpentAt(p, now)
           /\ Tier!LostNow(p, Due(p, now)) = LostAt(p, now)
           /\ Tier!EndedNow(p, Due(p, now)) = EndedAt(p, now)
           /\ Tier!BlockedNow(p, Due(p, now)) <=> ExhaustedAt(p, now)
           /\ Tier!EndNow(p, Due(p, now)) = ResetAtTime(p, now)
  <1>1. /\ now \in Nat /\ clock \in Nat /\ MaxLag \in Nat /\ now <= clock /\ clock <= now + MaxLag
        /\ resetAt[p] \in Resets
    BY ReadingsNear DEF TypeOK
  <1>2. Tier!Notices(p, Due(p, now))
    BY <1>1 DEF Tier!Notices, Tier!Over, Tier!LongOver, Due, Resets
  <1>3. LiveIn(HeldAt(p, now), p) = IF Due(p, now) THEN {} ELSE LiveOn(p)
    BY <1>1, LiveAtTime
  <1>4. Tier!LiveNow(p, Due(p, now)) = IF Due(p, now) THEN {} ELSE LiveOn(p)
    BY DEF Tier!LiveNow
  <1>5. QED
    BY <1>2, <1>3, <1>4
    DEF Tier!SpentNow, Tier!LostNow, Tier!EndedNow, Tier!BlockedNow, Tier!EndNow,
        SpentAt, LostAt, EndedAt, ExhaustedAt, ResetAtTime

\* FreeTier counts as the ledger does.
LEMMA TierCounts == \A S : Tier!Cardinality(S) = Cardinality(S)
  BY DEF Tier!Cardinality, Cardinality

\* A step that gives one pool a new live set and keeps the others' writes one entry.
LEMMA LiveSetsWrite ==
    ASSUME NEW p \in Pools, NEW L, LiveIn(held', p) = L,
           \A q \in Pools \ {p} : LiveIn(held', q) = LiveOn(q)
    PROVE  LiveSets' = [LiveSets EXCEPT ![p] = L]
  BY DEF LiveSets, LiveOn

\* The step writes pool p's row alone, and it ends the same however it is seen.
LEMMA RowWrite ==
    ASSUME TypeOK, NEW p \in Pools, NEW u, NEW e, NEW r, WriteRow(p, u, e, r)
    PROVE  /\ resetAt'[p] = r /\ exhausted'[p] = e
           /\ resetAt' = [resetAt EXCEPT ![p] = resetAt'[p]]
           /\ exhausted' = [exhausted EXCEPT ![p] = exhausted'[p]]
  BY DEF TypeOK, WriteRow

\* A reset that is the recovered one or lies after the reading ends the window as
\* FreeTier would have it.
LEMMA EndsImplemented ==
    ASSUME TypeOK, NEW p \in Pools, NEW now \in Readings, NEW u, NEW e, NEW r \in Resets, NEW n,
           WriteRow(p, u, e, r), Record(p, r, n, now),
           r # ResetAtTime(p, now) => r # NoReset /\ r > now
    PROVE  Tier!Ends(p, Due(p, now), resetAt'[p])
  <1>1. now \in Nat /\ clock \in Nat /\ MaxLag \in Nat /\ clock <= now + MaxLag
    BY ReadingsNear
  <1>2. resetAt'[p] = r /\ resetAt' = [resetAt EXCEPT ![p] = resetAt'[p]]
    BY RowWrite
  <1>3. r # ResetAtTime(p, now) => r # NoReset /\ r + MaxLag > clock
    BY <1>1 DEF Resets
  <1>4. Due(p, now) /\ r # NoReset => r > resetAt[p]
    BY <1>1 DEF Due, ResetAtTime, Resets, TypeOK
  <1>5. ended' = [ended EXCEPT ![p] = Tier!EndedNow(p, Due(p, now))]
    BY TierView DEF Record
  <1>6. regular' = [regular EXCEPT ![p] = @ /\ Forward(p, r, now)]
    BY DEF Record
  <1>7. Forward(p, r, now) <=>
          (r # NoReset => /\ r > Tier!EndedNow(p, Due(p, now))
                          /\ Tier!EndNow(p, Due(p, now)) # NoReset
                               => r >= Tier!EndNow(p, Due(p, now)))
    BY TierView DEF Forward
  <1>8. regular' = [regular EXCEPT ![p] = @ /\
          (r # NoReset => /\ r > Tier!EndedNow(p, Due(p, now))
                          /\ Tier!EndNow(p, Due(p, now)) # NoReset
                               => r >= Tier!EndNow(p, Due(p, now)))]
    BY <1>6, <1>7, Zenon
  <1>9. Tier!EndNow(p, Due(p, now)) = ResetAtTime(p, now)
    BY TierView
  <1>10. QED  BY <1>2, <1>3, <1>4, <1>5, <1>8, <1>9, Zenon DEF Tier!Ends

\* A step that keeps the grants of the recovered window and moves only the row's
\* block and reset, as a provider's report may, is FreeTier's Report.
LEMMA ReportImplemented ==
    ASSUME TypeOK, NEW p \in Pools, NEW now \in Readings, NEW u, NEW e \in BOOLEAN,
           NEW r \in Resets, WriteRow(p, u, e, r), Record(p, r, 0, now), clock' = clock,
           \A q \in Pools : LiveIn(held', q) = LiveIn(HeldAt(p, now), q),
           r # ResetAtTime(p, now) => r # NoReset /\ r > now,
           e => r # NoReset,
           ExhaustedAt(p, now)
             => e /\ (ResetAtTime(p, now) # NoReset => r >= ResetAtTime(p, now))
    PROVE  [Tier!Next]_(Tier!tvars)
  <1>1. now \in Nat
    BY ReadingsNear
  <1>2. \A q \in Pools \ {p} : LiveIn(held', q) = LiveOn(q)
    BY <1>1, LiveAtTime
  <1>3. LiveSets' = [LiveSets EXCEPT ![p] = Tier!LiveNow(p, Due(p, now))]
    BY <1>2, LiveSetsWrite, TierView
  <1>4. /\ spent' = [spent EXCEPT ![p] = Tier!SpentNow(p, Due(p, now))]
        /\ lost' = [lost EXCEPT ![p] = Tier!LostNow(p, Due(p, now))]
    <2>1. LostAt(p, now) + 0 = LostAt(p, now)
      BY <1>1, HistoryType
    <2>2. QED  BY <2>1, TierView DEF Record
  <1>5. exhausted' = [exhausted EXCEPT ![p] = e] /\ resetAt'[p] = r
    <2>1. exhausted' = [exhausted EXCEPT ![p] = e]
      BY DEF WriteRow
    <2>2. resetAt'[p] = r
      BY RowWrite
    <2>3. QED  BY <2>1, <2>2
  <1>6. Tier!Ends(p, Due(p, now), resetAt'[p])
    BY EndsImplemented
  <1>7. /\ Tier!EndNow(p, Due(p, now)) = ResetAtTime(p, now)
        /\ Tier!BlockedNow(p, Due(p, now)) <=> ExhaustedAt(p, now)
        /\ Tier!Notices(p, Due(p, now))
    BY TierView
  <1>8. Tier!Report(p, Due(p, now), resetAt'[p], e)
    BY <1>3, <1>4, <1>5, <1>6, <1>7 DEF Tier!Report, LiveSets
  <1>9. Due(p, now) \in BOOLEAN
    BY DEF Due
  <1>10. QED  BY <1>8, <1>9 DEF Tier!Next

\* Every step of the ledger is a step of FreeTier or changes nothing FreeTier shows.
LEMMA TierStep == IInv /\ BlockInv /\ [Next]_vars => [Tier!Next]_(Tier!tvars)
  <1> SUFFICES ASSUME IInv, BlockInv, [Next]_vars PROVE [Tier!Next]_(Tier!tvars)
    OBVIOUS
  <1>1. TypeOK /\ CoverInv /\ StampsInOrder /\ clock \in Nat
    BY DEF IInv, CoverInv, TypeOK
  <1>2. \A now \in Readings : now \in Nat
    BY <1>1, ReadingsType
  <1>3. CASE Tick
    <2>1. clock' = clock + 1
          /\ UNCHANGED <<resetAt, exhausted, LiveSets, spent, lost, ended, regular>>
      BY <1>3 DEF Tick, table, history, LiveSets, LiveOn
    <2>2. Tier!Advance
      BY <2>1 DEF Tier!Advance, LiveSets
    <2>3. QED  BY <2>2 DEF Tier!Next
  <1>4. ASSUME NEW a \in Attempts, Send(a) PROVE [Tier!Next]_(Tier!tvars)
    <2> DEFINE p == held[a].pool
    <2>1. held[a] \in Grants /\ p \in Pools /\ held \in HeldType
      BY <1>1, <1>4 DEF Send, TypeOK, Grants, HeldType
    <2>2. \A q \in Pools : LiveIn(held', q) = LiveOn(q) \ {a}
      BY <1>4, <2>1, LiveAfterDrop DEF Send, LiveOn
    <2>3. \A q \in Pools : a \in LiveOn(q) <=> held[a].live /\ q = p
      BY <1>4 DEF Send, LiveOn, LiveIn
    <2>4. \A q \in Pools \ {p} : LiveIn(held', q) = LiveOn(q)
      BY <2>2, <2>3
    <2>5. UNCHANGED <<clock, resetAt, exhausted, lost, ended, regular>>
      BY <1>4 DEF Send, table
    <2>6. CASE held[a].live
      <3>1. LiveSets' = [LiveSets EXCEPT ![p] = @ \ {a}]
        BY <2>1, <2>2, <2>4, LiveSetsWrite DEF LiveSets
      <3>2. spent' = [spent EXCEPT ![p] = @ + 1]
        BY <1>4, <2>6 DEF Send
      <3>3. a \in LiveSets[p]
        BY <2>1, <2>3, <2>6 DEF LiveSets
      <3>4. Tier!Spend(a, p)
        BY <2>5, <3>1, <3>2, <3>3 DEF Tier!Spend, LiveSets
      <3>5. QED  BY <2>1, <3>4 DEF Tier!Next
    <2>7. CASE ~held[a].live
      <3>1. LiveSets' = LiveSets
        BY <2>2, <2>3, <2>7 DEF LiveSets, LiveOn
      <3>2. spent' = spent
        BY <1>4, <2>7 DEF Send
      <3>3. QED  BY <2>5, <3>1, <3>2 DEF Tier!tvars, LiveSets
    <2>8. QED  BY <2>6, <2>7
  <1>5. ASSUME NEW now \in Readings, NEW S \in SUBSET Pools, Read(S, now)
        PROVE  [Tier!Next]_(Tier!tvars)
    <2> DEFINE C == {p \in S : Due(p, now)}
    <2>1. \A q \in Pools : LiveIn(held', q) = IF q \in C THEN {} ELSE LiveOn(q)
      BY <1>1, <1>5, LiveAfterClearing DEF Read
    <2>2. LiveSets' = [q \in Pools |-> IF q \in C THEN {} ELSE LiveSets[q]]
      BY <2>1 DEF LiveSets, LiveOn
    <2>3. C \in SUBSET Pools /\ \A p \in C : Tier!Over(p)
      <3>1. \A p \in C : Tier!Notices(p, Due(p, now)) /\ Due(p, now)
        BY <1>1, TierView
      <3>2. QED  BY <3>1 DEF Tier!Notices
    <2>4. /\ resetAt' = [q \in Pools |-> IF q \in C THEN NoReset ELSE resetAt[q]]
          /\ exhausted' = [q \in Pools |-> exhausted[q] /\ q \notin C]
          /\ spent' = [q \in Pools |-> IF q \in C THEN 0 ELSE spent[q]]
          /\ lost' = [q \in Pools |-> IF q \in C THEN 0 ELSE lost[q]]
          /\ ended' = [q \in Pools |-> IF q \in C THEN resetAt[q] ELSE ended[q]]
          /\ clock' = clock /\ regular' = regular
      BY <1>5 DEF Read
    <2> HIDE DEF C
    <2>5. Tier!Roll(C)
      BY <2>2, <2>3, <2>4 DEF Tier!Roll, LiveSets
    <2>6. QED  BY <2>3, <2>5 DEF Tier!Next
  <1>6. ASSUME NEW now \in Readings, NEW a \in Attempts, NEW p \in Pools,
               NEW app \in Applications, reserve(a, p, app, now)
        PROVE  [Tier!Next]_(Tier!tvars)
    <2> DEFINE g == [pool |-> p, app |-> app, stamp |-> StampFor(p, now), live |-> TRUE]
               h == HeldAt(p, now)
               d == Due(p, now)
               r == StampFor(p, now)
    <2>1. r \in Resets /\ ResetAtTime(p, now) \in Resets /\ LostAt(p, now) \in Nat
          /\ h \in HeldType /\ UsedAt(p, now) \in Nat /\ SpentAt(p, now) \in Nat
      BY <1>1, <1>2, StampType, RowType, HistoryType
    <2>2. g \in Grants /\ g.live = TRUE /\ g.pool = p
      BY <2>1 DEF Grants
    <2>3. h[a] = NoGrant /\ held[a] = NoGrant /\ held' = [h EXCEPT ![a] = g]
      BY <1>6 DEF reserve, HeldAt, HeldAfterClearing
    <2>4. \A q \in Pools \ {p} : LiveIn(h, q) = LiveOn(q)
      BY <1>1, <1>2, LiveAtTime
    <2>5. WriteRow(p, UsedAt(p, now) + 1, FALSE, r) /\ Record(p, r, 0, now) /\ clock' = clock
          /\ ~ExhaustedAt(p, now) /\ HasRoom(p, now)
      BY <1>6 DEF reserve
    <2>6. r # ResetAtTime(p, now) => r # NoReset /\ r > now
      BY <1>1, <1>2, StampAhead DEF StampFor
    <2>7. ResetAtTime(p, now) # NoReset => r = ResetAtTime(p, now)
      BY DEF StampFor
    <2> HIDE DEF g, h, d, r
    <2>8. ASSUME NEW q \in Pools
          PROVE  LiveIn(held', q) = IF q = p THEN LiveIn(h, q) \cup {a} ELSE LiveIn(h, q)
      <3>1. /\ q = g.pool => LiveIn(held', q) = LiveIn(h, q) \cup {a}
            /\ q # g.pool => LiveIn(held', q) = LiveIn(h, q)
        <4>1. held'[a] = g /\ \A b \in Attempts \ {a} : held'[b] = h[b]
          BY <2>1, <2>3 DEF HeldType
        <4>2. g # NoGrant
          BY <2>2, NoneAssumption
        <4>3. QED  BY <2>2, <2>3, <4>1, <4>2 DEF LiveIn
      <3>2. QED  BY <2>2, <3>1
    <2>9. /\ Tier!LiveNow(p, d) = LiveIn(h, p) /\ Tier!SpentNow(p, d) = SpentAt(p, now)
          /\ Tier!LostNow(p, d) = LostAt(p, now) /\ Tier!EndNow(p, d) = ResetAtTime(p, now)
          /\ Tier!BlockedNow(p, d) <=> ExhaustedAt(p, now)
          /\ Tier!Notices(p, d)
      BY <1>1, TierView DEF h, d
    <2>10. LiveSets' = [LiveSets EXCEPT ![p] = Tier!LiveNow(p, d) \cup {a}]
      BY <2>4, <2>8, <2>9, LiveSetsWrite
    <2>11. \A q \in Pools : a \notin LiveSets[q]
      BY <2>3 DEF LiveSets, LiveOn, LiveIn
    <2>12. Limit[p] # NoLimit =>
             Tier!SpentNow(p, d) + Cardinality(Tier!LiveNow(p, d)) < Limit[p] + Tier!LostNow(p, d)
      <3>1. ASSUME Limited(p)
            PROVE  SpentAt(p, now) + Cardinality(LiveIn(h, p)) < Limit[p] + LostAt(p, now)
        <4>1. SpentAt(p, now) + Cardinality(LiveIn(h, p)) <= UsedAt(p, now) + LostAt(p, now)
          BY <1>1, <1>2, <3>1, CoverAtTime DEF h
        <4>2. UsedAt(p, now) < Limit[p] /\ Limit[p] \in Nat
          BY <2>5, <3>1, LimitAssumption DEF HasRoom, Limited
        <4>3. QED  BY <2>1, <4>1, <4>2, LiveFinite
      <3>2. QED  BY <2>9, <3>1 DEF Limited
    <2>13. /\ spent' = [spent EXCEPT ![p] = Tier!SpentNow(p, d)]
           /\ lost' = [lost EXCEPT ![p] = Tier!LostNow(p, d)]
           /\ exhausted' = [exhausted EXCEPT ![p] = FALSE]
           /\ resetAt'[p] = r
      <3>1. LostAt(p, now) + 0 = LostAt(p, now)
        BY <2>1
      <3>2. spent' = [spent EXCEPT ![p] = SpentAt(p, now)]
            /\ lost' = [lost EXCEPT ![p] = LostAt(p, now) + 0]
        BY <2>5 DEF Record
      <3>3. exhausted' = [exhausted EXCEPT ![p] = FALSE]
        BY <2>5 DEF WriteRow
      <3>4. resetAt'[p] = r
        BY <1>1, <2>5, RowWrite
      <3>5. QED  BY <2>9, <3>1, <3>2, <3>3, <3>4
    <2>14. Tier!Ends(p, d, resetAt'[p])
      BY <1>1, <2>1, <2>5, <2>6, EndsImplemented DEF d
    <2>15. Tier!EndNow(p, d) # NoReset => resetAt'[p] = Tier!EndNow(p, d)
      BY <2>7, <2>9, <2>13
    <2>16. ~Tier!BlockedNow(p, d) /\ clock' = clock
      BY <2>5, <2>9
    <2>17. Tier!Grant(a, p, d, resetAt'[p])
      BY <2>9, <2>10, <2>11, <2>12, <2>13, <2>14, <2>15, <2>16, TierCounts, Zenon
      DEF Tier!Grant, LiveSets
    <2>18. d \in BOOLEAN
      BY DEF d, Due
    <2>19. QED  BY <2>17, <2>18 DEF Tier!Next
  <1>7. ASSUME NEW now \in Readings, NEW a \in Attempts, release(a, now)
        PROVE  [Tier!Next]_(Tier!tvars)
    <2> DEFINE p == held[a].pool
               h == HeldAt(p, now)
               r == ResetAtTime(p, now)
               e == ExhaustedAt(p, now)
               refund == Refundable(p, held[a].stamp, now)
               u == UsedAt(p, now)
               left == IF refund THEN Refunded(u) ELSE u
               n == IF held[a].live THEN 0 ELSE u - left
    <2>1. held[a] \in Grants /\ p \in Pools /\ held[a] # NoGrant
      BY <1>1, <1>7 DEF release, TypeOK, Grants
    <2>2. h \in HeldType /\ r \in Resets /\ u \in Nat /\ e \in BOOLEAN
      BY <1>1, <1>2, <2>1, RowType
    <2>3. held' = [h EXCEPT ![a] = NoGrant] /\ clock' = clock
          /\ WriteRow(p, left, e, r) /\ Record(p, r, n, now)
      BY <1>7 DEF release
    <2>4. \A q \in Pools : LiveIn(held', q) = LiveIn(h, q) \ {a}
      BY <2>2, <2>3, LiveAfterDrop
    <2>5. \A q \in Pools : LiveIn(h, q) = IF q = p /\ Due(p, now) THEN {} ELSE LiveOn(q)
      BY <1>1, <1>2, <2>1, LiveAtTime
    <2>6. \A q \in Pools : a \in LiveOn(q) <=> held[a].live /\ q = p
      BY <2>1 DEF LiveOn, LiveIn
    <2>7. \A q \in Pools \ {p} : LiveIn(held', q) = LiveOn(q) /\ LiveIn(h, q) = LiveOn(q)
      <3>1. \A q \in Pools \ {p} : LiveIn(h, q) = LiveOn(q)
        BY <2>5
      <3>2. \A q \in Pools \ {p} : a \notin LiveOn(q)
        BY <2>6
      <3> HIDE DEF h, p
      <3>3. ASSUME NEW q \in Pools \ {p} PROVE LiveIn(held', q) = LiveOn(q)
        BY <2>4, <3>1, <3>2
      <3>4. QED  BY <3>1, <3>3
    <2>8. /\ left \in Nat /\ left <= u /\ u <= left + 1 /\ (u = 0 => left = 0)
          /\ ~refund => left = u
          /\ n = IF held[a].live THEN 0 ELSE u - left
      BY <2>2 DEF Refunded, AtLeast
    <2>9. u = 0 => n = 0
      BY <2>2 DEF Refunded, AtLeast
    <2> HIDE DEF refund, left, n, e, u
    <2>10. CASE Due(p, now)
      <3>1. n = 0
        <4>1. u = 0
          BY <2>10 DEF UsedAt, u
        <4>2. QED  BY <2>9, <4>1
      <3>2. r = NoReset /\ e = FALSE
        BY <2>10 DEF ResetAtTime, ExhaustedAt, e
      <3>3. \A q \in Pools : LiveIn(held', q) = LiveIn(h, q)
        BY <2>4, <2>5, <2>7, <2>10
      <3>4. r = ResetAtTime(p, now) /\ (e => ExhaustedAt(p, now)) /\ (ExhaustedAt(p, now) => e)
        BY DEF e
      <3> HIDE DEF r, p
      <3>5. ExhaustedAt(p, now)
             => e /\ (ResetAtTime(p, now) # NoReset => r >= ResetAtTime(p, now))
        BY <3>2, <3>4
      <3>6. QED
        BY <1>1, <2>1, <2>2, <2>3, <3>1, <3>2, <3>3, <3>4, <3>5, ReportImplemented
    <2>11. CASE ~Due(p, now)
      <3>1. /\ SpentAt(p, now) = spent[p] /\ LostAt(p, now) = lost[p]
            /\ EndedAt(p, now) = ended[p] /\ r = resetAt[p] /\ e = exhausted[p]
        BY <1>1, <2>1, <2>11
        DEF SpentAt, LostAt, EndedAt, ResetAtTime, ExhaustedAt, TypeOK, e
      <3>2. UNCHANGED <<clock, resetAt, exhausted, spent, ended>>
        <4> HIDE DEF p, h, r
        <4>1. QED  BY <1>1, <2>1, <2>3, <3>1 DEF TypeOK, WriteRow, Record
      <3>3. regular' = regular
        <4>1. regular[p] => Forward(p, r, now)
          BY <1>1, <2>1, <2>2, <3>1 DEF StampsInOrder, Forward, Resets
        <4>2. regular' = [regular EXCEPT ![p] = regular[p] /\ Forward(p, r, now)]
              /\ regular \in [Pools -> BOOLEAN]
          BY <1>1, <2>3 DEF Record, TypeOK
        <4> HIDE DEF p, h, r
        <4>3. QED  BY <2>1, <4>1, <4>2
      <3>4. LiveIn(held', p) = LiveOn(p) \ {a}
        BY <2>1, <2>4, <2>5, <2>11
      <3>5. LiveSets' = [LiveSets EXCEPT ![p] = @ \ {a}]
        BY <2>1, <2>7, <3>4, LiveSetsWrite DEF LiveSets
      <3>6. lost' = [lost EXCEPT ![p] = lost[p] + n]
        BY <2>3, <3>1 DEF Record
      <3>7. n = 0 => lost' = lost
        BY <1>1, <2>1, <3>6 DEF TypeOK
      <3>8. CASE held[a].live
        <4>1. a \in LiveSets[p] /\ lost' = lost
          BY <2>1, <2>6, <2>8, <3>7, <3>8 DEF LiveSets
        <4>2. ~Tier!LongOver(p)
          BY <1>1, <2>1, <2>11, TierView DEF Tier!Notices
        <4>3. Tier!GiveBack(a, p)
          BY <3>2, <3>3, <3>5, <4>1, <4>2 DEF Tier!GiveBack, LiveSets
        <4>4. QED  BY <2>1, <4>3 DEF Tier!Next
      <3>9. CASE ~held[a].live
        <4>1. LiveSets' = LiveSets
          BY <2>6, <2>7, <3>4, <3>9 DEF LiveSets, LiveOn
        <4>2. CASE n = 0
          BY <3>2, <3>3, <3>7, <4>1, <4>2 DEF Tier!tvars, LiveSets
        <4>3. CASE n # 0
          <5>1. n = 1 /\ refund
            BY <2>2, <2>8, <3>9, <4>3
          <5>2. Limit[p] # NoLimit => ~regular[p]
            <6>1. a \notin LiveIn(h, p)
              BY <2>1, <2>5, <2>6, <3>9
            <6>2. Orderly(p) => ~Refundable(p, held[a].stamp, now)
              BY <1>1, <1>2, <2>1, <6>1, StaleRefused
            <6>3. QED  BY <5>1, <6>2 DEF Orderly, Limited, refund
          <5>3. lost' = [lost EXCEPT ![p] = @ + 1]
            BY <3>6, <5>1
          <5>4. Tier!Mistake(p)
            BY <3>2, <3>3, <4>1, <5>2, <5>3 DEF Tier!Mistake, LiveSets
          <5>5. QED  BY <2>1, <5>4 DEF Tier!Next
        <4>4. QED  BY <4>2, <4>3
      <3>10. QED  BY <3>8, <3>9
    <2>12. QED  BY <2>10, <2>11
  <1>8. ASSUME NEW p \in Pools, NEW now \in Readings
        PROVE  /\ now \in Nat /\ ResetAtTime(p, now) \in Resets /\ ExhaustedAt(p, now) \in BOOLEAN
               /\ ExhaustedAt(p, now) => ResetAtTime(p, now) # NoReset
               /\ ResetAtTime(p, now) # NoReset => ResetAtTime(p, now) > now
    BY <1>1, <1>2, RowType
    DEF BlockInv, ExhaustedHasReset, ExhaustedAt, ResetAtTime, Due, TypeOK, Resets
  <1>9. ASSUME NEW now \in Readings, NEW p \in Pools, NEW limit \in ObservedLimits,
               NEW reset \in ReportedResets \cup {NoReset}, NEW remaining \in 0..limit,
               observe(p, limit, remaining, reset, now)
        PROVE  [Tier!Next]_(Tier!tvars)
    <2> DEFINE r == ResetAfterObserving(p, remaining, reset, now)
               u == CountAfterObserving(p, limit, remaining, now)
               e == ExhaustedAt(p, now) \/ ShowsSpent(remaining, r)
    <2>1. reset \in Resets
      BY InputAssumption DEF Resets
    <2>2. r \in Resets /\ (r # ResetAtTime(p, now) => r # NoReset /\ r > now)
      BY <1>8, <2>1 DEF ResetAfterObserving, Usable, AtLeast, Resets
    <2>3. ExhaustedAt(p, now) => r # NoReset
              /\ (ResetAtTime(p, now) # NoReset => r >= ResetAtTime(p, now))
      BY <1>8, <2>1, NoneAssumption DEF ResetAfterObserving, Usable, AtLeast, Resets
    <2>4. e \in BOOLEAN /\ (e => r # NoReset)
      BY <2>3 DEF ShowsSpent
    <2>5. WriteRow(p, u, e, r) /\ KeepGrants(p, r, now)
      BY <1>9 DEF observe
    <2>6. ExhaustedAt(p, now) => e
      OBVIOUS
    <2> HIDE DEF r, u, e
    <2>7. Record(p, r, 0, now) /\ clock' = clock /\ held' = HeldAt(p, now)
      BY <2>5 DEF KeepGrants
    <2>8. QED  BY <1>1, <2>2, <2>3, <2>4, <2>5, <2>6, <2>7, ReportImplemented
  <1>10. ASSUME NEW now \in Readings, NEW p \in Pools, NEW reset \in ReportedResets,
                exhaust(p, reset, now)
         PROVE  [Tier!Next]_(Tier!tvars)
    <2> DEFINE r == ResetAfterExhausting(p, reset, now)
    <2>1. reset \in Nat /\ reset > now
      BY <1>10, InputAssumption DEF exhaust
    <2>2. r \in Resets /\ r # NoReset /\ r > now
          /\ (ExhaustedAt(p, now) /\ ResetAtTime(p, now) # NoReset
                => r >= ResetAtTime(p, now))
      BY <1>8, <2>1, NoneAssumption DEF ResetAfterExhausting, AtLeast, Resets
    <2> DEFINE e == TRUE
               u == UsedAt(p, now)
    <2>3. WriteRow(p, u, e, r) /\ KeepGrants(p, r, now) /\ e /\ e \in BOOLEAN
      BY <1>10 DEF exhaust
    <2> HIDE DEF r, e, u
    <2>4. ExhaustedAt(p, now)
            => e /\ (ResetAtTime(p, now) # NoReset => r >= ResetAtTime(p, now))
      BY <2>2, <2>3
    <2>5. Record(p, r, 0, now) /\ clock' = clock /\ held' = HeldAt(p, now)
      BY <2>3 DEF KeepGrants
    <2>6. QED  BY <1>1, <2>2, <2>3, <2>4, <2>5, ReportImplemented
  <1>11. CASE UNCHANGED vars
    <2>1. UNCHANGED <<clock, resetAt, exhausted, LiveSets, spent, lost, ended, regular>>
      BY <1>11 DEF vars, table, history, LiveSets, LiveOn
    <2>2. QED  BY <2>1 DEF Tier!tvars, LiveSets
  <1>12. QED
    BY <1>3, <1>4, <1>5, <1>6, <1>7, <1>9, <1>10, <1>11 DEF Next

\* A fresh ledger is a fresh FreeTier: no window open, nothing granted.
LEMMA TierStart == Init => Tier!Init
  <1> SUFFICES ASSUME Init PROVE Tier!Init
    OBVIOUS
  <1>1. LiveSets = [p \in Pools |-> {}]
    BY DEF Init, LiveSets, LiveOn, LiveIn
  <1>2. QED  BY <1>1 DEF Init, Tier!Init, LiveSets

\* The ledger, with one counter and one stamp per pool, does what FreeTier
\* promises with the true set of grants: every transaction is a step FreeTier
\* allows, whichever processes interleave, however late their clock readings and
\* whatever the providers report.
THEOREM LedgerImplementsTier == Spec => ImplementsFreeTier
  <1>1. BlockInv /\ [Next]_vars => BlockInv'
    BY BlockInductive, TypeInductive DEF BlockInv
  <1>2. QED
    BY <1>1, TierInitially, TierInductive, BlockInitially, TierStart, TierStep, PTL
    DEF Spec, ImplementsFreeTier, Tier!Spec

-----------------------------------------------------------------------------
(* What FreeTier promises.  These need nothing of the ledger's operations:   *)
(* every behaviour that implements FreeTier keeps the tier and its blocks.   *)

PromiseInv ==
    /\ spent \in [Pools -> Nat] /\ lost \in [Pools -> Nat] /\ regular \in [Pools -> BOOLEAN]
    /\ WithinTier

\* A pool's grants and mistakes fit its tier.
Fits(p, L, n, m, f) == Limited(p) => n + Cardinality(L) <= Limit[p] + m /\ (f => m = 0)

\* What the promise says of one pool.
LEMMA PromiseOf ==
    ASSUME PromiseInv, NEW p \in Pools, Limited(p)
    PROVE  /\ Consumed(p) <= Limit[p] + lost[p]
           /\ regular[p] => lost[p] = 0
  <1>1. WithinTier
    BY DEF PromiseInv
  <1>2. QED  BY <1>1, Zenon DEF WithinTier

\* A step that changes one pool keeps PromiseInv if what it leaves there fits.
LEMMA PromiseKept ==
    ASSUME PromiseInv, NEW p \in Pools, NEW L, NEW n \in Nat, NEW m \in Nat, NEW f \in BOOLEAN,
           LiveSets' = [LiveSets EXCEPT ![p] = L], spent' = [spent EXCEPT ![p] = n],
           lost' = [lost EXCEPT ![p] = m], regular' = [regular EXCEPT ![p] = f],
           Fits(p, L, n, m, f)
    PROVE  PromiseInv'
  <1>1. LiveSets = [q \in Pools |-> LiveSets[q]]
    BY DEF LiveSets
  <1>2. spent \in [Pools -> Nat] /\ lost \in [Pools -> Nat] /\ regular \in [Pools -> BOOLEAN]
    BY DEF PromiseInv
  <1>3. spent' \in [Pools -> Nat] /\ lost' \in [Pools -> Nat] /\ regular' \in [Pools -> BOOLEAN]
    BY <1>2
  <1>4. \A q \in Pools : LiveSets[q] = LiveOn(q) /\ LiveSets'[q] = LiveOn(q)'
    BY DEF LiveSets
  <1>5. ASSUME NEW q \in Pools, Limited(q)
        PROVE  /\ spent'[q] + Cardinality(LiveSets'[q]) <= Limit[q] + lost'[q]
               /\ regular'[q] => lost'[q] = 0
    <2>1. CASE q = p
      BY <1>1, <1>2, <1>5, <2>1 DEF Fits
    <2>2. CASE q # p
      <3>1. spent'[q] = spent[q] /\ lost'[q] = lost[q] /\ LiveSets'[q] = LiveOn(q)
            /\ regular'[q] = regular[q]
        BY <1>1, <1>2, <1>4, <2>2
      <3>2. spent[q] + Cardinality(LiveOn(q)) <= Limit[q] + lost[q]
        BY <1>5, PromiseOf DEF Consumed
      <3>3. regular[q] => lost[q] = 0
        BY <1>5, PromiseOf, Zenon
      <3>4. QED  BY <3>1, <3>2, <3>3
    <2>3. QED  BY <2>1, <2>2
  <1>6. WithinTier'
    BY <1>4, <1>5 DEF WithinTier, Consumed, Limited
  <1>7. QED  BY <1>3, <1>6 DEF PromiseInv

\* Every step FreeTier allows keeps each limited pool within its tier.
LEMMA PromiseInductive ==
    PromiseInv /\ [Tier!Next]_(Tier!tvars) => PromiseInv'
  <1> SUFFICES ASSUME PromiseInv, [Tier!Next]_(Tier!tvars)
               PROVE  PromiseInv'
    OBVIOUS
  <1>1. spent \in [Pools -> Nat] /\ lost \in [Pools -> Nat] /\ regular \in [Pools -> BOOLEAN]
    BY DEF PromiseInv
  <1>2. ASSUME NEW p \in Pools
        PROVE  /\ IsFiniteSet(LiveSets[p]) /\ Cardinality(LiveSets[p]) \in Nat
               /\ Limited(p) => /\ spent[p] + Cardinality(LiveSets[p]) <= Limit[p] + lost[p]
                                /\ regular[p] => lost[p] = 0
                                /\ Limit[p] \in Nat
    <2>1. LiveSets[p] = LiveOn(p)
      BY DEF LiveSets
    <2>2. IsFiniteSet(LiveOn(p)) /\ Cardinality(LiveOn(p)) \in Nat
      BY LiveFinite DEF LiveOn
    <2>3. Limited(p) => spent[p] + Cardinality(LiveOn(p)) <= Limit[p] + lost[p]
      BY PromiseOf DEF Consumed
    <2>4. Limited(p) /\ regular[p] => lost[p] = 0
      BY PromiseOf, Zenon
    <2>5. Limited(p) => Limit[p] \in Nat
      BY LimitAssumption DEF Limited
    <2>6. QED  BY <2>1, <2>2, <2>3, <2>4, <2>5
  <1>3. ASSUME NEW p \in Pools, NEW rolled \in BOOLEAN
        PROVE  /\ Tier!SpentNow(p, rolled) \in Nat /\ Tier!LostNow(p, rolled) \in Nat
               /\ IsFiniteSet(Tier!LiveNow(p, rolled))
               /\ Cardinality(Tier!LiveNow(p, rolled)) \in Nat
               /\ Limited(p) =>
                    /\ Tier!SpentNow(p, rolled) + Cardinality(Tier!LiveNow(p, rolled))
                         <= Limit[p] + Tier!LostNow(p, rolled)
                    /\ regular[p] => Tier!LostNow(p, rolled) = 0
    <2>1. /\ Tier!LiveNow(p, rolled) = IF rolled THEN {} ELSE LiveSets[p]
          /\ Tier!SpentNow(p, rolled) = IF rolled THEN 0 ELSE spent[p]
          /\ Tier!LostNow(p, rolled) = IF rolled THEN 0 ELSE lost[p]
      BY DEF Tier!LiveNow, Tier!SpentNow, Tier!LostNow, LiveSets
    <2>2. QED  BY <1>1, <1>2, <2>1, FS_EmptySet
  <1>4. LiveSets = [q \in Pools |-> LiveSets[q]]
    BY DEF LiveSets
  <1>5. ASSUME UNCHANGED <<LiveSets, spent, lost, regular>> PROVE PromiseInv'
    <2>1. \A q \in Pools : LiveOn(q)' = LiveOn(q)
      <3>1. \A q \in Pools : LiveSets[q] = LiveOn(q) /\ LiveSets'[q] = LiveOn(q)'
        BY DEF LiveSets
      <3>2. QED  BY <1>5, <3>1
    <2>2. QED  BY <1>5, <2>1 DEF PromiseInv, WithinTier, Consumed, Limited
  <1>6. ASSUME NEW p \in Pools, NEW rolled, NEW e, Tier!Ends(p, rolled, e)
        PROVE  \E f \in BOOLEAN : regular' = [regular EXCEPT ![p] = f] /\ (f => regular[p])
    <2> DEFINE f == regular[p] /\
                 (e # NoReset => /\ e > Tier!EndedNow(p, rolled)
                                 /\ Tier!EndNow(p, rolled) # NoReset
                                      => e >= Tier!EndNow(p, rolled))
    <2>1. regular' = [regular EXCEPT ![p] = f]
      BY <1>6 DEF Tier!Ends
    <2>2. f \in BOOLEAN /\ (f => regular[p])
      OBVIOUS
    <2> HIDE DEF f
    <2>3. QED  BY <2>1, <2>2
  <1>7. CASE Tier!Advance
    BY <1>5, <1>7 DEF Tier!Advance, LiveSets
  <1>8. ASSUME NEW S \in SUBSET Pools, Tier!Roll(S) PROVE PromiseInv'
    <2>1. /\ LiveSets' = [p \in Pools |-> IF p \in S THEN {} ELSE LiveSets[p]]
          /\ spent' = [p \in Pools |-> IF p \in S THEN 0 ELSE spent[p]]
          /\ lost' = [p \in Pools |-> IF p \in S THEN 0 ELSE lost[p]]
          /\ regular' = regular
      BY <1>8 DEF Tier!Roll, LiveSets
    <2>2. \A q \in Pools : LiveSets'[q] = LiveOn(q)'
      BY DEF LiveSets
    <2>3. ASSUME NEW q \in Pools, Limited(q)
          PROVE  /\ spent'[q] + Cardinality(LiveSets'[q]) <= Limit[q] + lost'[q]
                 /\ regular'[q] => lost'[q] = 0
      BY <1>2, <2>1, <2>3, FS_EmptySet
    <2>4. spent' \in [Pools -> Nat] /\ lost' \in [Pools -> Nat] /\ regular' \in [Pools -> BOOLEAN]
      BY <1>1, <2>1
    <2>5. WithinTier'
      BY <2>2, <2>3 DEF WithinTier, Consumed, Limited
    <2>6. QED  BY <2>4, <2>5 DEF PromiseInv
  <1>9. ASSUME NEW p \in Pools, NEW rolled \in BOOLEAN, NEW block,
               Tier!Report(p, rolled, resetAt'[p], block)
        PROVE  PromiseInv'
    <2>1. /\ LiveSets' = [LiveSets EXCEPT ![p] = Tier!LiveNow(p, rolled)]
          /\ spent' = [spent EXCEPT ![p] = Tier!SpentNow(p, rolled)]
          /\ lost' = [lost EXCEPT ![p] = Tier!LostNow(p, rolled)]
          /\ Tier!Ends(p, rolled, resetAt'[p])
      BY <1>9 DEF Tier!Report, LiveSets
    <2>2. PICK f \in BOOLEAN : regular' = [regular EXCEPT ![p] = f] /\ (f => regular[p])
      BY <1>6, <2>1
    <2>3. Fits(p, Tier!LiveNow(p, rolled), Tier!SpentNow(p, rolled), Tier!LostNow(p, rolled), f)
      BY <1>3, <2>2 DEF Fits
    <2>4. QED  BY <1>3, <2>1, <2>2, <2>3, PromiseKept
  <1>10. ASSUME NEW p \in Pools, NEW a \in Attempts, NEW rolled \in BOOLEAN,
                Tier!Grant(a, p, rolled, resetAt'[p])
         PROVE  PromiseInv'
    <2> DEFINE K == Tier!LiveNow(p, rolled)
               L == K \cup {a}
    <2>1. /\ LiveSets' = [LiveSets EXCEPT ![p] = L]
          /\ spent' = [spent EXCEPT ![p] = Tier!SpentNow(p, rolled)]
          /\ lost' = [lost EXCEPT ![p] = Tier!LostNow(p, rolled)]
          /\ Tier!Ends(p, rolled, resetAt'[p])
          /\ Limited(p) => Tier!SpentNow(p, rolled) + Cardinality(K)
                             < Limit[p] + Tier!LostNow(p, rolled)
      BY <1>10, TierCounts DEF Tier!Grant, LiveSets, Limited
    <2>2. PICK f \in BOOLEAN : regular' = [regular EXCEPT ![p] = f] /\ (f => regular[p])
      BY <1>6, <2>1
    <2>3. Cardinality(L) <= Cardinality(K) + 1 /\ Cardinality(L) \in Nat
      <3>1. CASE a \in K
        <4>1. L = K
          BY <3>1
        <4>2. Cardinality(K) \in Nat
          BY <1>3
        <4> HIDE DEF K, L
        <4>3. QED  BY <4>1, <4>2
      <3>2. CASE a \notin K
        <4>1. IsFiniteSet(K) /\ Cardinality(K) \in Nat
          BY <1>3
        <4>2. Cardinality(L) = Cardinality(K) + 1
          BY <3>2, <4>1, FS_AddElement
        <4> HIDE DEF K, L
        <4>3. QED  BY <4>1, <4>2
      <3>3. QED  BY <3>1, <3>2
    <2>4. Cardinality(K) \in Nat
      BY <1>3
    <2> HIDE DEF K, L
    <2>5. Fits(p, L, Tier!SpentNow(p, rolled), Tier!LostNow(p, rolled), f)
      <3>1. ASSUME Limited(p)
            PROVE  /\ Tier!SpentNow(p, rolled) + Cardinality(L)
                        <= Limit[p] + Tier!LostNow(p, rolled)
                   /\ f => Tier!LostNow(p, rolled) = 0
        <4>1. Tier!SpentNow(p, rolled) \in Nat /\ Tier!LostNow(p, rolled) \in Nat
              /\ Limit[p] \in Nat /\ (f => Tier!LostNow(p, rolled) = 0)
          BY <1>2, <1>3, <2>2, <3>1
        <4>2. QED  BY <2>1, <2>3, <2>4, <3>1, <4>1
      <3>2. QED  BY <3>1 DEF Fits
    <2>6. QED  BY <1>3, <2>1, <2>2, <2>5, PromiseKept
  <1>11. ASSUME NEW p \in Pools, NEW L, NEW n \in Nat, NEW m \in Nat,
                LiveSets' = [LiveSets EXCEPT ![p] = L], spent' = [spent EXCEPT ![p] = n],
                lost' = [lost EXCEPT ![p] = m], regular' = regular,
                Limited(p) => n + Cardinality(L) <= Limit[p] + m /\ (regular[p] => m = 0)
         PROVE  PromiseInv'
    <2> DEFINE f == regular[p]
    <2>1. f \in BOOLEAN /\ regular' = [regular EXCEPT ![p] = f] /\ Fits(p, L, n, m, f)
      BY <1>1, <1>11 DEF Fits
    <2> HIDE DEF f
    <2>2. /\ LiveSets' = [LiveSets EXCEPT ![p] = L] /\ spent' = [spent EXCEPT ![p] = n]
          /\ lost' = [lost EXCEPT ![p] = m]
      BY <1>11
    <2>3. QED  BY <2>1, <2>2, PromiseKept
  <1>12. ASSUME NEW p \in Pools, NEW a \in Attempts, Tier!Spend(a, p) PROVE PromiseInv'
    <2> DEFINE L == LiveSets[p] \ {a}
               n == spent[p] + 1
               m == lost[p]
    <2>1. a \in LiveSets[p] /\ LiveSets' = [LiveSets EXCEPT ![p] = L]
          /\ spent' = [spent EXCEPT ![p] = n] /\ lost' = lost /\ regular' = regular
      BY <1>12 DEF Tier!Spend, LiveSets
    <2>2. Cardinality(L) = Cardinality(LiveSets[p]) - 1
      BY <1>2, <2>1, FS_RemoveElement
    <2>3. n \in Nat /\ m \in Nat
          /\ (Limited(p) => n + Cardinality(L) <= Limit[p] + m /\ (regular[p] => m = 0))
      BY <1>1, <1>2, <2>2
    <2>4. lost' = [lost EXCEPT ![p] = m]
      BY <1>1, <2>1
    <2> HIDE DEF L, n, m
    <2>5. QED  BY <1>11, <2>1, <2>3, <2>4
  <1>13. ASSUME NEW p \in Pools, NEW a \in Attempts, Tier!GiveBack(a, p) PROVE PromiseInv'
    <2> DEFINE L == LiveSets[p] \ {a}
               n == spent[p]
               m == lost[p]
    <2>1. LiveSets' = [LiveSets EXCEPT ![p] = L] /\ spent' = spent /\ lost' = lost
          /\ regular' = regular
      BY <1>13 DEF Tier!GiveBack, LiveSets
    <2>2. Cardinality(L) <= Cardinality(LiveSets[p]) /\ Cardinality(L) \in Nat
      BY <1>2, FS_Subset, FS_CardinalityType
    <2>3. spent' = [spent EXCEPT ![p] = n] /\ lost' = [lost EXCEPT ![p] = m]
          /\ n \in Nat /\ m \in Nat
      BY <1>1, <2>1
    <2>4. Limited(p) => n + Cardinality(L) <= Limit[p] + m /\ (regular[p] => m = 0)
      BY <1>1, <1>2, <2>2, <2>3
    <2> HIDE DEF L, n, m
    <2>5. QED  BY <1>11, <2>1, <2>3, <2>4
  <1>14. ASSUME NEW p \in Pools, Tier!Mistake(p) PROVE PromiseInv'
    <2> DEFINE L == LiveSets[p]
               n == spent[p]
               m == lost[p] + 1
    <2>1. /\ LiveSets' = LiveSets /\ spent' = spent /\ regular' = regular
          /\ lost' = [lost EXCEPT ![p] = m]
          /\ Limited(p) => ~regular[p]
      BY <1>14 DEF Tier!Mistake, LiveSets, Limited
    <2>2. LiveSets' = [LiveSets EXCEPT ![p] = L] /\ spent' = [spent EXCEPT ![p] = n]
          /\ n \in Nat /\ m \in Nat
      BY <1>1, <1>4, <2>1
    <2>3. Limited(p) => n + Cardinality(L) <= Limit[p] + m /\ (regular[p] => m = 0)
      BY <1>1, <1>2, <2>1
    <2> HIDE DEF L, n, m
    <2>4. QED  BY <1>11, <2>1, <2>2, <2>3
  <1>15. CASE UNCHANGED Tier!tvars
    BY <1>5, <1>15 DEF Tier!tvars, LiveSets
  <1>16. QED
    BY <1>7, <1>8, <1>9, <1>10, <1>12, <1>13, <1>14, <1>15 DEF Tier!Next

\* The abstract ledger is strong enough: whatever implements FreeTier hands out
\* no more requests of a limited pool in a window than its limit and one for each
\* mistake, and makes none while the pool's resets moved forward.
THEOREM FreeTierIsKept == ImplementsFreeTier => []WithinTier
  <1>1. Tier!Init => PromiseInv
    <2> SUFFICES ASSUME Tier!Init PROVE PromiseInv
      OBVIOUS
    <2>1. /\ spent \in [Pools -> Nat] /\ lost \in [Pools -> Nat] /\ regular \in [Pools -> BOOLEAN]
          /\ \A p \in Pools : spent[p] = 0 /\ lost[p] = 0 /\ LiveOn(p) = {}
      BY DEF Tier!Init
    <2>2. \A p \in Pools : Limited(p) => Limit[p] \in Nat
      BY LimitAssumption DEF Limited
    <2>3. ASSUME NEW p \in Pools, Limited(p)
          PROVE  Consumed(p) <= Limit[p] + lost[p] /\ lost[p] = 0
      <3>1. spent[p] = 0 /\ lost[p] = 0 /\ Cardinality(LiveOn(p)) = 0 /\ Limit[p] \in Nat
        BY <2>1, <2>2, <2>3, FS_EmptySet
      <3>2. QED  BY <3>1 DEF Consumed
    <2>4. WithinTier
      BY <2>3, Zenon DEF WithinTier
    <2>5. QED  BY <2>1, <2>4 DEF PromiseInv
  <1>2. PromiseInv => WithinTier
    BY DEF PromiseInv
  <1>3. QED
    BY <1>1, <1>2, PromiseInductive, PTL DEF ImplementsFreeTier, Tier!Spec

\* Every step FreeTier allows leaves a block with its end, and never shortens it.
LEMMA BlockPromised ==
    TypeOK /\ TypeOK' /\ ExhaustedHasReset /\ [Tier!Next]_(Tier!tvars)
      => ExhaustedHasReset' /\ BlockStep
  <1> SUFFICES ASSUME TypeOK, TypeOK', ExhaustedHasReset, [Tier!Next]_(Tier!tvars)
               PROVE  ExhaustedHasReset' /\ BlockStep
    OBVIOUS
  <1>1. ASSUME NEW p \in Pools
        PROVE  /\ clock \in Nat /\ exhausted[p] \in BOOLEAN /\ exhausted'[p] \in BOOLEAN
               /\ exhausted[p] => resetAt[p] \in Nat
               /\ resetAt'[p] # NoReset => resetAt'[p] \in Nat
    BY DEF TypeOK, Resets, ExhaustedHasReset
  <1>2. ASSUME UNCHANGED <<resetAt, exhausted>> PROVE ExhaustedHasReset' /\ BlockStep
    BY <1>1, <1>2 DEF ExhaustedHasReset, BlockStep
  <1>3. ASSUME NEW p \in Pools, exhausted' = [exhausted EXCEPT ![p] = exhausted'[p]],
               resetAt' = [resetAt EXCEPT ![p] = resetAt'[p]],
               exhausted'[p] => resetAt'[p] # NoReset,
               exhausted[p] => IF exhausted'[p] THEN resetAt'[p] >= resetAt[p]
                                                ELSE clock >= resetAt[p]
        PROVE  ExhaustedHasReset' /\ BlockStep
    <2>1. \A q \in Pools \ {p} : exhausted'[q] = exhausted[q] /\ resetAt'[q] = resetAt[q]
      <3> DEFINE e == exhausted'[p]
                 r == resetAt'[p]
      <3>1. exhausted' = [exhausted EXCEPT ![p] = e] /\ resetAt' = [resetAt EXCEPT ![p] = r]
        BY <1>3
      <3> HIDE DEF e, r
      <3>2. QED  BY <3>1 DEF TypeOK
    <2>2. QED  BY <1>1, <1>3, <2>1 DEF ExhaustedHasReset, BlockStep
  <1>4. ASSUME NEW S \in SUBSET Pools, Tier!Roll(S) PROVE ExhaustedHasReset' /\ BlockStep
    <2>1. \A p \in S : Tier!Over(p)
      BY <1>4 DEF Tier!Roll
    <2>2. ASSUME NEW p \in Pools
          PROVE  /\ p \in S => exhausted'[p] = FALSE
                 /\ p \notin S => exhausted'[p] = exhausted[p] /\ resetAt'[p] = resetAt[p]
      <3>1. exhausted'[p] = (exhausted[p] /\ p \notin S)
            /\ resetAt'[p] = IF p \in S THEN NoReset ELSE resetAt[p]
        BY <1>4 DEF Tier!Roll
      <3>2. CASE p \in S
        BY <3>1, <3>2
      <3>3. CASE p \notin S
        BY <1>1, <3>1, <3>3, Zenon
      <3>4. QED  BY <3>2, <3>3
    <2>3. ExhaustedHasReset'
      BY <2>2 DEF ExhaustedHasReset
    <2>4. ASSUME NEW p \in Pools, exhausted[p]
          PROVE  IF exhausted'[p] THEN resetAt'[p] >= resetAt[p] ELSE clock >= resetAt[p]
      <3>1. CASE p \in S
        BY <2>1, <2>2, <3>1 DEF Tier!Over
      <3>2. CASE p \notin S
        <4>1. exhausted'[p] /\ resetAt'[p] = resetAt[p] /\ resetAt[p] \in Nat
          BY <1>1, <2>2, <2>4, <3>2
        <4>2. QED  BY <4>1
      <3>3. QED  BY <3>1, <3>2
    <2>5. QED  BY <2>3, <2>4 DEF BlockStep
  <1>5. ASSUME NEW p \in Pools, NEW rolled \in BOOLEAN, NEW block \in BOOLEAN,
               Tier!Report(p, rolled, resetAt'[p], block)
        PROVE  ExhaustedHasReset' /\ BlockStep
    <2>1. /\ exhausted' = [exhausted EXCEPT ![p] = block]
          /\ resetAt' = [resetAt EXCEPT ![p] = resetAt'[p]]
          /\ block => resetAt'[p] # NoReset
          /\ rolled => Tier!Over(p)
          /\ rolled /\ resetAt'[p] # NoReset => resetAt'[p] > resetAt[p]
          /\ Tier!BlockedNow(p, rolled) =>
               block /\ (Tier!EndNow(p, rolled) # NoReset
                            => resetAt'[p] >= Tier!EndNow(p, rolled))
      BY <1>5 DEF Tier!Report, Tier!Ends, Tier!Notices
    <2>2. exhausted'[p] = block /\ exhausted' = [exhausted EXCEPT ![p] = exhausted'[p]]
      BY <2>1 DEF TypeOK
    <2>3. CASE rolled
      <3>1. clock >= resetAt[p]
        BY <2>1, <2>3 DEF Tier!Over
      <3>2. exhausted[p] /\ exhausted'[p] => resetAt'[p] >= resetAt[p]
        <4>1. resetAt'[p] # NoReset => resetAt'[p] > resetAt[p]
          BY <2>1, <2>3
        <4>2. exhausted'[p] => resetAt'[p] # NoReset
          BY <2>1, <2>2
        <4>3. QED  BY <1>1, <4>1, <4>2
      <3>3. exhausted'[p] => resetAt'[p] # NoReset
        BY <2>1, <2>2
      <3>4. resetAt' = [resetAt EXCEPT ![p] = resetAt'[p]]
        BY <2>1
      <3>5. QED  BY <1>3, <2>2, <3>1, <3>2, <3>3, <3>4
    <2>4. CASE ~rolled
      <3>1. Tier!EndNow(p, rolled) = resetAt[p] /\ (Tier!BlockedNow(p, rolled) <=> exhausted[p])
        BY <2>4 DEF Tier!EndNow, Tier!BlockedNow
      <3>2. exhausted[p] => resetAt[p] # NoReset
        BY DEF ExhaustedHasReset
      <3>3. exhausted'[p] => resetAt'[p] # NoReset
        BY <2>1, <2>2
      <3>4. exhausted[p] => exhausted'[p] /\ resetAt'[p] >= resetAt[p]
        BY <2>1, <2>2, <3>1, <3>2
      <3>5. resetAt' = [resetAt EXCEPT ![p] = resetAt'[p]]
        BY <2>1
      <3>6. QED  BY <1>3, <2>2, <3>3, <3>4, <3>5
    <2>5. QED  BY <2>3, <2>4
  <1>6. ASSUME NEW p \in Pools, NEW a \in Attempts, NEW rolled \in BOOLEAN,
               Tier!Grant(a, p, rolled, resetAt'[p])
        PROVE  ExhaustedHasReset' /\ BlockStep
    <2>1. /\ exhausted' = [exhausted EXCEPT ![p] = FALSE]
          /\ resetAt' = [resetAt EXCEPT ![p] = resetAt'[p]]
          /\ ~Tier!BlockedNow(p, rolled) /\ (rolled => Tier!Over(p))
      BY <1>6 DEF Tier!Grant, Tier!Ends, Tier!Notices
    <2>2. exhausted'[p] = FALSE /\ exhausted' = [exhausted EXCEPT ![p] = exhausted'[p]]
      BY <2>1 DEF TypeOK
    <2>3. exhausted[p] => clock >= resetAt[p]
      BY <2>1 DEF Tier!BlockedNow, Tier!Over
    <2>4. QED  BY <1>3, <2>1, <2>2, <2>3
  <1>7. QED
    BY <1>2, <1>4, <1>5, <1>6
    DEF Tier!Next, Tier!tvars, Tier!Advance, Tier!Spend, Tier!GiveBack, Tier!Mistake

\* Whatever implements FreeTier lifts no block before its recorded end and moves
\* no block's end earlier, so that the refinement alone gives both of what the
\* ledger is for.
THEOREM FreeTierHoldsBlocks == []TypeOK /\ ImplementsFreeTier => BlockNeverShortened
  <1>1. Tier!Init => ExhaustedHasReset
    BY DEF Tier!Init, ExhaustedHasReset
  <1>2. QED
    BY <1>1, BlockPromised, PTL
    DEF ImplementsFreeTier, Tier!Spec, BlockNeverShortened, BlockStep

-----------------------------------------------------------------------------
(* Shares: what is attributed to the applications adds up to no more than    *)
(* what the pool's counter accounts for.  A refund takes one of both, but a  *)
(* share from which an earlier window's refund was taken may be short of the *)
(* reservations still held: what is inductive counts whichever is greater.   *)

\* The live reservations application x holds of pool p.
AppLive(h, p, x) == {a \in LiveIn(h, p) : h[a].app = x}

\* Each application's share, or the reservations it holds when they are more.
MostOf(p, h, shares) ==
    [x \in Applications |-> AtLeast(shares[x], Cardinality(AppLive(h, p, x)))]

\* A pool's shares and reservations together are within u.
SharesFit(p, h, u, shares) ==
    /\ IsFiniteSet(SharesOf(MostOf(p, h, shares)))
    /\ Cardinality(SharesOf(MostOf(p, h, shares))) <= u

SharesWithinCount == \A p \in Pools : SharesFit(p, held, used[p] + lost[p], appUsed[p])

\* Membership of the attributed requests.
LEMMA SharesMembers ==
    ASSUME NEW u \in [Applications -> Nat], NEW e
    PROVE  e \in SharesOf(u) <=> \E x \in Applications : \E n \in 1..u[x] : e = <<x, n>>
  BY DEF SharesOf

\* One request more of an application adds one attributed request.
LEMMA SharesUp ==
    ASSUME NEW u \in [Applications -> Nat], NEW app \in Applications
    PROVE  LET v == [u EXCEPT ![app] = @ + 1] IN
           /\ SharesOf(v) = SharesOf(u) \cup {<<app, u[app] + 1>>}
           /\ <<app, u[app] + 1>> \notin SharesOf(u)
  <1> DEFINE v == [u EXCEPT ![app] = @ + 1]
             last == <<app, u[app] + 1>>
  <1>1. v \in [Applications -> Nat] /\ v[app] = u[app] + 1 /\ u[app] \in Nat
        /\ \A x \in Applications \ {app} : v[x] = u[x]
    OBVIOUS
  <1>2. last \notin SharesOf(u)
    BY <1>1, SharesMembers
  <1>3. ASSUME NEW e, e \in SharesOf(v) PROVE e \in SharesOf(u) \cup {last}
    <2>1. PICK x \in Applications : \E n \in 1..v[x] : e = <<x, n>>
      <3> HIDE DEF v
      <3>1. QED  BY <1>1, <1>3, SharesMembers
    <2> PICK n \in 1..v[x] : e = <<x, n>>
      BY <2>1
    <2>2. CASE n \in 1..u[x]
      BY <2>2, SharesMembers
    <2>3. CASE n \notin 1..u[x]
      <3>1. x = app /\ n = u[app] + 1
        BY <1>1, <2>3
      <3>2. QED  BY <3>1
    <2>4. QED  BY <2>2, <2>3
  <1>4. ASSUME NEW e, e \in SharesOf(u) \cup {last} PROVE e \in SharesOf(v)
    <2>1. CASE e \in SharesOf(u)
      <3>1. PICK x \in Applications : \E n \in 1..u[x] : e = <<x, n>>
        BY <2>1, SharesMembers
      <3> PICK n \in 1..u[x] : e = <<x, n>>
        BY <3>1
      <3>2. n \in 1..v[x]
        BY <1>1
      <3> HIDE DEF v
      <3>3. QED  BY <1>1, <3>2, SharesMembers
    <2>2. CASE e = last
      <3>1. u[app] + 1 \in 1..v[app]
        BY <1>1
      <3> HIDE DEF v
      <3>2. QED  BY <1>1, <2>2, <3>1, SharesMembers
    <2>3. QED  BY <1>4, <2>1, <2>2
  <1>5. SharesOf(v) = SharesOf(u) \cup {last}
    BY <1>3, <1>4
  <1>6. QED  BY <1>2, <1>5

\* One request less of an application that has some takes one attributed request.
LEMMA SharesDown ==
    ASSUME NEW u \in [Applications -> Nat], NEW app \in Applications, u[app] # 0
    PROVE  /\ SharesOf([u EXCEPT ![app] = Refunded(@)]) = SharesOf(u) \ {<<app, u[app]>>}
           /\ <<app, u[app]>> \in SharesOf(u)
  <1> DEFINE v == [u EXCEPT ![app] = Refunded(@)]
             n == u[app] - 1
  <1>1. n \in Nat /\ Refunded(u[app]) = n /\ u[app] = n + 1
    BY DEF Refunded, AtLeast
  <1>2. v \in [Applications -> Nat] /\ v[app] = n
        /\ u = [v EXCEPT ![app] = @ + 1]
    BY <1>1
  <1> HIDE DEF v, n
  <1>3. SharesOf(u) = SharesOf(v) \cup {<<app, n + 1>>} /\ <<app, n + 1>> \notin SharesOf(v)
    BY <1>2, SharesUp
  <1>4. SharesOf(v) = SharesOf(u) \ {<<app, u[app]>>} /\ <<app, u[app]>> \in SharesOf(u)
    BY <1>1, <1>3
  <1>5. QED  BY <1>4 DEF v

\* Smaller shares attribute fewer requests.
LEMMA SharesLess ==
    ASSUME NEW u \in [Applications -> Nat], NEW v \in [Applications -> Nat],
           \A x \in Applications : v[x] <= u[x], IsFiniteSet(SharesOf(u))
    PROVE  /\ IsFiniteSet(SharesOf(v)) /\ Cardinality(SharesOf(v)) \in Nat
           /\ Cardinality(SharesOf(v)) <= Cardinality(SharesOf(u))
           /\ Cardinality(SharesOf(u)) \in Nat
  <1>1. ASSUME NEW e, e \in SharesOf(v) PROVE e \in SharesOf(u)
    <2>1. PICK x \in Applications : \E n \in 1..v[x] : e = <<x, n>>
      BY <1>1, SharesMembers
    <2> PICK n \in 1..v[x] : e = <<x, n>>
      BY <2>1
    <2>2. v[x] \in Nat /\ u[x] \in Nat /\ v[x] <= u[x]
      OBVIOUS
    <2>3. n \in 1..u[x]
      BY <2>2
    <2>4. QED  BY <2>3, SharesMembers
  <1>2. SharesOf(v) \subseteq SharesOf(u)
    BY <1>1
  <1>3. QED  BY <1>2, FS_Subset, FS_CardinalityType

\* A cleared window attributes nothing.
LEMMA SharesNone == SharesOf([x \in Applications |-> 0]) = {}
  BY DEF SharesOf

\* A reservation's application counts it among its live ones, and only those.
LEMMA AppLiveFinite ==
    ASSUME NEW h, NEW p, NEW x
    PROVE  IsFiniteSet(AppLive(h, p, x)) /\ Cardinality(AppLive(h, p, x)) \in Nat
  <1>1. AppLive(h, p, x) \subseteq LiveIn(h, p)
    BY DEF AppLive
  <1>2. QED  BY <1>1, LiveFinite, FS_Subset, FS_CardinalityType

\* Recovering pool p leaves the other pools' reservations as they were.
LEMMA AppLiveElsewhere ==
    ASSUME TypeOK, NEW p \in Pools, NEW now \in Nat, NEW q \in Pools \ {p}, NEW x
    PROVE  AppLive(HeldAt(p, now), q, x) = AppLive(held, q, x)
  <1>1. LiveIn(HeldAt(p, now), q) = LiveIn(held, q)
    BY LiveAtTime DEF LiveOn
  <1>2. ASSUME NEW b \in LiveIn(held, q) PROVE HeldAt(p, now)[b] = held[b]
    BY DEF HeldAt, HeldAfterClearing, LiveIn
  <1>3. QED  BY <1>1, <1>2 DEF AppLive

\* Dropping a handle removes its attempt from its application's reservations.
LEMMA AppLiveDrop ==
    ASSUME NEW h \in HeldType, NEW a \in Attempts, NEW q \in Pools, NEW x
    PROVE  AppLive([h EXCEPT ![a] = NoGrant], q, x) = AppLive(h, q, x) \ {a}
  <1>1. LiveIn([h EXCEPT ![a] = NoGrant], q) = LiveIn(h, q) \ {a}
    BY LiveAfterDrop
  <1>2. \A b \in LiveIn(h, q) \ {a} : [h EXCEPT ![a] = NoGrant][b] = h[b]
    BY DEF LiveIn, HeldType
  <1>3. QED  BY <1>1, <1>2 DEF AppLive

\* What MostOf gives an application is a count, no less than either of the two.
LEMMA MostType ==
    ASSUME NEW h, NEW p, NEW s \in [Applications -> Nat]
    PROVE  /\ MostOf(p, h, s) \in [Applications -> Nat]
           /\ \A x \in Applications :
                /\ MostOf(p, h, s)[x] = AtLeast(s[x], Cardinality(AppLive(h, p, x)))
                /\ s[x] <= MostOf(p, h, s)[x]
                /\ Cardinality(AppLive(h, p, x)) <= MostOf(p, h, s)[x]
  <1>1. ASSUME NEW x \in Applications
        PROVE  /\ AtLeast(s[x], Cardinality(AppLive(h, p, x))) \in Nat
               /\ s[x] <= AtLeast(s[x], Cardinality(AppLive(h, p, x)))
               /\ Cardinality(AppLive(h, p, x)) <= AtLeast(s[x], Cardinality(AppLive(h, p, x)))
    BY AppLiveFinite DEF AtLeast
  <1>2. QED  BY <1>1 DEF MostOf

\* An empty window with no shares fits any count.
LEMMA SharesFitNone ==
    ASSUME NEW p, NEW h, NEW u \in Nat, \A x : AppLive(h, p, x) = {}
    PROVE  SharesFit(p, h, u, [x \in Applications |-> 0])
  <1>1. MostOf(p, h, [x \in Applications |-> 0]) = [x \in Applications |-> 0]
    BY FS_EmptySet DEF MostOf, AtLeast
  <1>2. QED  BY <1>1, SharesNone, FS_EmptySet DEF SharesFit

\* Fewer reservations and smaller shares fit where more did.
LEMMA SharesFitLess ==
    ASSUME NEW p \in Pools, NEW h, NEW k, NEW u \in Nat, NEW w \in Nat, u <= w,
           NEW s \in [Applications -> Nat], NEW v \in [Applications -> Nat],
           SharesFit(p, h, u, s), \A x \in Applications : v[x] <= s[x],
           \A x : AppLive(k, p, x) \subseteq AppLive(h, p, x)
    PROVE  SharesFit(p, k, w, v)
  <1> DEFINE M == MostOf(p, h, s)
             N == MostOf(p, k, v)
  <1>1. M \in [Applications -> Nat] /\ N \in [Applications -> Nat]
    BY MostType
  <1>2. ASSUME NEW x \in Applications PROVE N[x] <= M[x]
    <2>1. Cardinality(AppLive(k, p, x)) <= Cardinality(AppLive(h, p, x))
          /\ Cardinality(AppLive(k, p, x)) \in Nat /\ Cardinality(AppLive(h, p, x)) \in Nat
      BY AppLiveFinite, FS_Subset
    <2>2. v[x] <= s[x] /\ v[x] \in Nat /\ s[x] \in Nat
      OBVIOUS
    <2>3. M[x] = AtLeast(s[x], Cardinality(AppLive(h, p, x)))
          /\ N[x] = AtLeast(v[x], Cardinality(AppLive(k, p, x)))
      BY MostType
    <2> HIDE DEF M, N
    <2>4. QED  BY <2>1, <2>2, <2>3 DEF AtLeast
  <1>3. IsFiniteSet(SharesOf(M)) /\ Cardinality(SharesOf(M)) <= u
    BY DEF SharesFit
  <1> HIDE DEF M, N
  <1>4. IsFiniteSet(SharesOf(N)) /\ Cardinality(SharesOf(N)) <= w
    BY <1>1, <1>2, <1>3, SharesLess
  <1>5. QED  BY <1>4 DEF SharesFit, N

\* A grant adds a request to its application's share and to the counter.
LEMMA SharesFitGrant ==
    ASSUME NEW p \in Pools, NEW h \in HeldType, NEW u \in Nat,
           NEW s \in [Applications -> Nat], SharesFit(p, h, u, s),
           NEW a \in Attempts, h[a] = NoGrant, NEW g \in Grants, g.pool = p, g.live
    PROVE  SharesFit(p, [h EXCEPT ![a] = g], u + 1, [s EXCEPT ![g.app] = @ + 1])
  <1> DEFINE k == [h EXCEPT ![a] = g]
             v == [s EXCEPT ![g.app] = @ + 1]
             M == MostOf(p, h, s)
             N == MostOf(p, k, v)
  <1>1. g.app \in Applications /\ g # NoGrant
    BY NoneAssumption DEF Grants
  <1>2. v \in [Applications -> Nat] /\ v[g.app] = s[g.app] + 1
        /\ \A x \in Applications \ {g.app} : v[x] = s[x]
    BY <1>1
  <1>3. k[a] = g /\ \A b \in Attempts \ {a} : k[b] = h[b]
    BY DEF HeldType
  <1>4. \A x : a \notin AppLive(h, p, x)
    BY DEF AppLive, LiveIn
  <1> HIDE DEF k, v
  <1>5. M \in [Applications -> Nat] /\ N \in [Applications -> Nat]
    BY <1>2, MostType
  <1>6. \A x \in Applications : /\ M[x] = AtLeast(s[x], Cardinality(AppLive(h, p, x)))
                                /\ N[x] = AtLeast(v[x], Cardinality(AppLive(k, p, x)))
    BY <1>2, MostType
  <1> HIDE DEF M, N
  <1>7. ASSUME NEW x \in Applications PROVE N[x] = IF x = g.app THEN M[x] + 1 ELSE M[x]
    <2>1. CASE x = g.app
      <3>1. AppLive(k, p, x) = AppLive(h, p, x) \cup {a}
        BY <1>1, <1>3, <1>4, <2>1 DEF AppLive, LiveIn
      <3>2. Cardinality(AppLive(k, p, x)) = Cardinality(AppLive(h, p, x)) + 1
            /\ Cardinality(AppLive(h, p, x)) \in Nat
        BY <1>4, <3>1, AppLiveFinite, FS_AddElement
      <3>3. M[x] = AtLeast(s[x], Cardinality(AppLive(h, p, x)))
            /\ N[x] = AtLeast(v[x], Cardinality(AppLive(k, p, x)))
            /\ v[x] = s[x] + 1 /\ s[x] \in Nat
        BY <1>2, <1>6, <2>1
      <3>4. QED  BY <2>1, <3>2, <3>3 DEF AtLeast
    <2>2. CASE x # g.app
      <3>1. AppLive(k, p, x) = AppLive(h, p, x)
        BY <1>1, <1>3, <1>4, <2>2 DEF AppLive, LiveIn
      <3>2. QED  BY <1>2, <1>6, <2>2, <3>1
    <2>3. QED  BY <2>1, <2>2
  <1>8. N = [M EXCEPT ![g.app] = @ + 1]
    BY <1>1, <1>5, <1>7
  <1>9. /\ SharesOf(N) = SharesOf(M) \cup {<<g.app, M[g.app] + 1>>}
        /\ <<g.app, M[g.app] + 1>> \notin SharesOf(M)
    BY <1>1, <1>5, <1>8, SharesUp
  <1>10. IsFiniteSet(SharesOf(M)) /\ Cardinality(SharesOf(M)) <= u
    BY DEF SharesFit, M
  <1>11. IsFiniteSet(SharesOf(N)) /\ Cardinality(SharesOf(N)) <= u + 1
    <2> DEFINE S == SharesOf(M)
               T == SharesOf(N)
               e == <<g.app, M[g.app] + 1>>
    <2>1. T = S \cup {e} /\ e \notin S /\ IsFiniteSet(S) /\ Cardinality(S) <= u
      BY <1>9, <1>10
    <2> HIDE DEF S, T, e
    <2>2. IsFiniteSet(T) /\ Cardinality(T) = Cardinality(S) + 1 /\ Cardinality(S) \in Nat
      BY <2>1, FS_AddElement, FS_CardinalityType
    <2>3. IsFiniteSet(T) /\ Cardinality(T) <= u + 1
      BY <2>1, <2>2
    <2>4. QED  BY <2>3 DEF T
  <1>12. QED  BY <1>11 DEF SharesFit, N, k, v

\* A refund of a live reservation takes one request of what is counted for its
\* application, which was at least that one.
LEMMA SharesFitRefund ==
    ASSUME NEW p \in Pools, NEW h \in HeldType, NEW u \in Nat, NEW w \in Nat, u <= w + 1,
           NEW s \in [Applications -> Nat], SharesFit(p, h, u, s),
           NEW a \in LiveIn(h, p)
    PROVE  SharesFit(p, [h EXCEPT ![a] = NoGrant], w, [s EXCEPT ![h[a].app] = Refunded(@)])
  <1> DEFINE k == [h EXCEPT ![a] = NoGrant]
             app == h[a].app
             v == [s EXCEPT ![app] = Refunded(@)]
             M == MostOf(p, h, s)
             N == MostOf(p, k, v)
  <1>1. a \in Attempts /\ app \in Applications /\ a \in AppLive(h, p, app)
        /\ \A x : x # app => a \notin AppLive(h, p, x)
    BY DEF LiveIn, HeldType, Grants, AppLive
  <1>2. \A x : AppLive(k, p, x) = AppLive(h, p, x) \ {a}
    BY <1>1, AppLiveDrop
  <1>3. s[app] \in Nat /\ Refunded(s[app]) \in Nat
    BY <1>1 DEF Refunded, AtLeast
  <1>4. v \in [Applications -> Nat] /\ v[app] = Refunded(s[app])
        /\ \A x \in Applications \ {app} : v[x] = s[x]
    BY <1>1, <1>3
  <1> HIDE DEF k, v, app
  <1>5. M \in [Applications -> Nat] /\ N \in [Applications -> Nat]
    BY <1>4, MostType
  <1>6. \A x \in Applications : /\ M[x] = AtLeast(s[x], Cardinality(AppLive(h, p, x)))
                                /\ N[x] = AtLeast(v[x], Cardinality(AppLive(k, p, x)))
    BY <1>4, MostType
  <1> HIDE DEF M, N
  <1>7. M[app] # 0 /\ N[app] = Refunded(M[app])
    <2> DEFINE A == AppLive(h, p, app)
               B == AppLive(k, p, app)
    <2>1. a \in A /\ IsFiniteSet(A) /\ B = A \ {a}
      BY <1>1, <1>2, AppLiveFinite
    <2>2. M[app] = AtLeast(s[app], Cardinality(A)) /\ N[app] = AtLeast(v[app], Cardinality(B))
      BY <1>1, <1>6
    <2> HIDE DEF A, B
    <2>3. Cardinality(B) = Cardinality(A) - 1 /\ Cardinality(A) \in Nat /\ Cardinality(B) \in Nat
      BY <2>1, FS_RemoveElement, FS_CardinalityType
    <2>4. QED  BY <1>3, <1>4, <2>2, <2>3 DEF AtLeast, Refunded
  <1>8. ASSUME NEW x \in Applications, x # app PROVE N[x] = M[x]
    <2>1. AppLive(k, p, x) = AppLive(h, p, x)
      BY <1>1, <1>2, <1>8
    <2>2. QED  BY <1>4, <1>6, <1>8, <2>1
  <1>9. N = [M EXCEPT ![app] = Refunded(@)]
    BY <1>1, <1>5, <1>7, <1>8
  <1>10. SharesOf(N) = SharesOf(M) \ {<<app, M[app]>>} /\ <<app, M[app]>> \in SharesOf(M)
    BY <1>1, <1>5, <1>7, <1>9, SharesDown
  <1>11. IsFiniteSet(SharesOf(M)) /\ Cardinality(SharesOf(M)) <= u
    BY DEF SharesFit, M
  <1>12. IsFiniteSet(SharesOf(N)) /\ Cardinality(SharesOf(N)) <= w
    <2> DEFINE S == SharesOf(M)
               T == SharesOf(N)
               e == <<app, M[app]>>
    <2>1. T = S \ {e} /\ e \in S /\ IsFiniteSet(S) /\ Cardinality(S) <= u
      BY <1>10, <1>11
    <2> HIDE DEF S, T, e
    <2>2. IsFiniteSet(T) /\ Cardinality(T) = Cardinality(S) - 1 /\ Cardinality(S) \in Nat
      BY <2>1, FS_RemoveElement, FS_CardinalityType
    <2>3. IsFiniteSet(T) /\ Cardinality(T) <= w
      BY <2>1, <2>2
    <2>4. QED  BY <2>3 DEF T
  <1>13. QED  BY <1>12 DEF SharesFit, N, k, v, app

SharesInv == TypeOK /\ SharesWithinCount

\* The shares of the row _recover shows fit its counter and its reservations.
LEMMA SharesAtTime ==
    ASSUME SharesInv, NEW p \in Pools, NEW now \in Nat
    PROVE  SharesFit(p, HeldAt(p, now), UsedAt(p, now) + LostAt(p, now), AppUsedAt(p, now))
  <1>1. CASE Due(p, now)
    <2>1. LiveIn(HeldAt(p, now), p) = {}
      BY <1>1, LiveAtTime DEF SharesInv
    <2>2. \A x : AppLive(HeldAt(p, now), p, x) = {}
      BY <2>1 DEF AppLive
    <2>3. UsedAt(p, now) + LostAt(p, now) = 0 /\ AppUsedAt(p, now) = [x \in Applications |-> 0]
      BY <1>1 DEF UsedAt, LostAt, AppUsedAt
    <2>4. QED  BY <2>2, <2>3, SharesFitNone
  <1>2. CASE ~Due(p, now)
    BY <1>2 DEF SharesInv, SharesWithinCount, HeldAt, UsedAt, LostAt, AppUsedAt
  <1>3. QED  BY <1>1, <1>2

\* A step on pool p keeps every pool's shares if p's fit and the others' stand.
LEMMA SharesOnePool ==
    ASSUME SharesInv, NEW p \in Pools,
           \A q \in Pools \ {p} :
              /\ used'[q] = used[q] /\ lost'[q] = lost[q] /\ appUsed'[q] = appUsed[q]
              /\ \A x : AppLive(held', q, x) = AppLive(held, q, x),
           SharesFit(p, held', used'[p] + lost'[p], appUsed'[p])
    PROVE  SharesWithinCount'
  <1>1. ASSUME NEW q \in Pools
        PROVE  SharesFit(q, held', used'[q] + lost'[q], appUsed'[q])
    <2>1. CASE q = p
      BY <2>1
    <2>2. CASE q # p
      <3>1. MostOf(q, held', appUsed'[q]) = MostOf(q, held, appUsed[q])
        BY <2>2 DEF MostOf
      <3>2. QED  BY <2>2, <3>1 DEF SharesInv, SharesWithinCount, SharesFit
    <2>3. QED  BY <2>1, <2>2
  <1>2. QED  BY <1>1 DEF SharesWithinCount, SharesFit, MostOf, AppLive, LiveIn, SharesOf

\* Every operation keeps the shares within what the counter accounts for.
LEMMA SharesInductive == SharesInv /\ [Next]_vars => SharesWithinCount'
  <1> SUFFICES ASSUME SharesInv, [Next]_vars PROVE SharesWithinCount'
    OBVIOUS
  <1>1. TypeOK /\ TypeOK' /\ clock \in Nat
    BY TypeInductive DEF SharesInv, TypeOK
  <1>2. \A now \in Readings : now \in Nat
    BY <1>1, ReadingsType
  <1>3. ASSUME \A q \in Pools : SharesFit(q, held', used'[q] + lost'[q], appUsed'[q])
        PROVE  SharesWithinCount'
    BY <1>3 DEF SharesWithinCount, SharesFit, MostOf, AppLive, LiveIn, SharesOf
  <1>4. ASSUME held' = held, used' = used, lost' = lost, appUsed' = appUsed
        PROVE  SharesWithinCount'
    BY <1>3, <1>4 DEF SharesInv, SharesWithinCount
  <1>5. CASE Tick
    BY <1>4, <1>5 DEF Tick, table, history
  <1>6. ASSUME NEW a \in Attempts, Send(a) PROVE SharesWithinCount'
    <2> DEFINE k == [held EXCEPT ![a] = NoGrant]
    <2>1. held' = k /\ used' = used /\ lost' = lost /\ appUsed' = appUsed /\ held \in HeldType
      BY <1>1, <1>6 DEF Send, table, TypeOK, HeldType
    <2>2. ASSUME NEW q \in Pools, NEW x PROVE AppLive(k, q, x) \subseteq AppLive(held, q, x)
      <3>1. held \in HeldType
        BY <2>1
      <3>2. AppLive(k, q, x) = AppLive(held, q, x) \ {a}
        BY <3>1, AppLiveDrop
      <3> HIDE DEF k
      <3>3. QED  BY <3>2
    <2> HIDE DEF k
    <2>3. ASSUME NEW q \in Pools PROVE SharesFit(q, k, used[q] + lost[q], appUsed[q])
      <3>1. used[q] + lost[q] \in Nat /\ appUsed[q] \in [Applications -> Nat]
            /\ used[q] + lost[q] <= used[q] + lost[q]
        BY <1>1 DEF TypeOK
      <3>2. SharesFit(q, held, used[q] + lost[q], appUsed[q])
        BY DEF SharesInv, SharesWithinCount
      <3>3. \A x \in Applications : appUsed[q][x] <= appUsed[q][x]
        BY <3>1
      <3>4. QED  BY <2>2, <3>1, <3>2, <3>3, SharesFitLess
    <2>4. QED  BY <1>3, <2>1, <2>3
  <1>7. ASSUME NEW now \in Readings, NEW S \in SUBSET Pools, Read(S, now)
        PROVE  SharesWithinCount'
    <2> DEFINE C == {p \in S : Due(p, now)}
    <2>1. \A q \in Pools : LiveIn(held', q) = IF q \in C THEN {} ELSE LiveOn(q)
      BY <1>1, <1>7, LiveAfterClearing DEF Read
    <2>2. ASSUME NEW q \in Pools PROVE SharesFit(q, held', used'[q] + lost'[q], appUsed'[q])
      <3>1. CASE q \in C
        <4>1. used'[q] + lost'[q] = 0 /\ appUsed'[q] = [x \in Applications |-> 0]
          BY <1>7, <3>1 DEF Read
        <4>2. \A x : AppLive(held', q, x) = {}
          BY <2>1, <3>1 DEF AppLive
        <4>3. QED  BY <4>1, <4>2, SharesFitNone
      <3>2. CASE q \notin C
        <4>1. used'[q] = used[q] /\ lost'[q] = lost[q] /\ appUsed'[q] = appUsed[q]
          BY <1>7, <3>2 DEF Read
        <4>2. LiveIn(held', q) = LiveIn(held, q)
          BY <2>1, <3>2 DEF LiveOn
        <4>3. \A b \in LiveIn(held, q) : held'[b] = held[b]
          BY <1>7, <3>2 DEF Read, HeldAfterClearing, LiveIn
        <4>4. \A x : AppLive(held', q, x) = AppLive(held, q, x)
          BY <4>2, <4>3 DEF AppLive
        <4>5. MostOf(q, held', appUsed'[q]) = MostOf(q, held, appUsed[q])
          BY <4>1, <4>4 DEF MostOf
        <4>6. QED  BY <4>1, <4>5 DEF SharesInv, SharesWithinCount, SharesFit
      <3>3. QED  BY <3>1, <3>2
    <2>3. QED  BY <1>3, <2>2
  <1>8. ASSUME NEW now \in Readings, NEW a \in Attempts, NEW p \in Pools,
               NEW app \in Applications, reserve(a, p, app, now)
        PROVE  SharesWithinCount'
    <2> DEFINE g == [pool |-> p, app |-> app, stamp |-> StampFor(p, now), live |-> TRUE]
               h == HeldAt(p, now)
               u == UsedAt(p, now)
               l == LostAt(p, now)
               s == AppUsedAt(p, now)
    <2>1. StampFor(p, now) \in Resets /\ h \in HeldType /\ u \in Nat /\ l \in Nat
          /\ s \in [Applications -> Nat]
      BY <1>1, <1>2, StampType, RowType, HistoryType
    <2>2. g \in Grants /\ g.live = TRUE /\ g.pool = p /\ g.app = app
      BY <2>1 DEF Grants
    <2>3. h[a] = NoGrant /\ held' = [h EXCEPT ![a] = g]
      BY <1>8 DEF reserve, HeldAt, HeldAfterClearing
    <2>4. /\ used'[p] = u + 1 /\ lost'[p] = l + 0 /\ appUsed'[p] = [s EXCEPT ![app] = @ + 1]
          /\ \A q \in Pools \ {p} : /\ used'[q] = used[q] /\ lost'[q] = lost[q]
                                    /\ appUsed'[q] = appUsed[q]
      BY <1>1, <1>8 DEF reserve, WriteRow, Record, TypeOK
    <2>5. ASSUME NEW q \in Pools \ {p}, NEW x
          PROVE  AppLive(held', q, x) = AppLive(held, q, x)
      <3>1. AppLive(h, q, x) = AppLive(held, q, x)
        BY <1>1, <1>2, AppLiveElsewhere
      <3> HIDE DEF g, h
      <3>2. held'[a] = g /\ \A b \in Attempts \ {a} : held'[b] = h[b]
        BY <2>1, <2>3 DEF HeldType
      <3>3. AppLive(held', q, x) = AppLive(h, q, x)
        BY <2>2, <2>3, <3>2 DEF AppLive, LiveIn
      <3>4. QED  BY <3>1, <3>3
    <2>6. SharesFit(p, h, u + l, s)
      BY <1>2, SharesAtTime
    <2> HIDE DEF g, h, u, l, s
    <2>7. SharesFit(p, held', used'[p] + lost'[p], appUsed'[p])
      <3> DEFINE k == [h EXCEPT ![a] = g]
                 v == [s EXCEPT ![g.app] = @ + 1]
                 n == u + l
      <3>1. n \in Nat /\ used'[p] + lost'[p] = n + 1
        BY <2>1, <2>4
      <3>2. SharesFit(p, h, n, s)
        BY <2>6
      <3> HIDE DEF n
      <3>3. SharesFit(p, k, n + 1, v)
        BY <2>1, <2>2, <2>3, <3>1, <3>2, SharesFitGrant
      <3>4. held' = k /\ appUsed'[p] = v
        BY <2>2, <2>3, <2>4
      <3> HIDE DEF k, v
      <3>5. QED  BY <3>1, <3>3, <3>4
    <2>8. QED  BY <2>4, <2>5, <2>7, SharesOnePool
  <1>9. ASSUME NEW now \in Readings, NEW a \in Attempts, release(a, now)
        PROVE  SharesWithinCount'
    <2> DEFINE p == held[a].pool
               app == held[a].app
               h == HeldAt(p, now)
               u == UsedAt(p, now)
               l == LostAt(p, now)
               s == AppUsedAt(p, now)
               refund == Refundable(p, held[a].stamp, now)
               left == IF refund THEN Refunded(u) ELSE u
    <2>1. held[a] # NoGrant /\ held[a] \in Grants /\ p \in Pools /\ app \in Applications
      BY <1>1, <1>9 DEF release, TypeOK, Grants
    <2>2. h \in HeldType /\ u \in Nat /\ l \in Nat /\ s \in [Applications -> Nat]
      BY <1>1, <1>2, <2>1, RowType, HistoryType
    <2>3. held' = [h EXCEPT ![a] = NoGrant]
      BY <1>9 DEF release
    <2>4. /\ used'[p] = left
          /\ lost'[p] = l + (IF held[a].live THEN 0 ELSE u - left)
          /\ appUsed'[p] = IF refund THEN [s EXCEPT ![app] = Refunded(@)] ELSE s
          /\ \A q \in Pools \ {p} : /\ used'[q] = used[q] /\ lost'[q] = lost[q]
                                    /\ appUsed'[q] = appUsed[q]
      BY <1>1, <1>9, <2>1 DEF release, WriteRow, Record, TypeOK
    <2>5. ASSUME NEW q \in Pools \ {p}, NEW x
          PROVE  AppLive(held', q, x) = AppLive(held, q, x)
      <3>1. AppLive(h, q, x) = AppLive(held, q, x)
        BY <1>1, <1>2, <2>1, AppLiveElsewhere
      <3>2. a \notin AppLive(held, q, x)
        BY DEF AppLive, LiveIn
      <3>3. AppLive(held', q, x) = AppLive(h, q, x) \ {a}
        BY <2>2, <2>3, AppLiveDrop
      <3>4. QED  BY <3>1, <3>2, <3>3
    <2>6. SharesFit(p, h, u + l, s)
      BY <1>1, <1>2, <2>1, SharesAtTime
    <2>7. /\ a \in LiveIn(h, p) => held[a].live /\ h[a].app = app
          /\ a \notin LiveIn(h, p) /\ held[a].live => u = 0
      <3>1. CASE Due(p, now)
        BY <1>1, <1>2, <2>1, <3>1, LiveAtTime DEF UsedAt
      <3>2. CASE ~Due(p, now)
        BY <2>1, <3>2 DEF HeldAt, LiveIn
      <3>3. QED  BY <3>1, <3>2
    <2>8. /\ left \in Nat /\ left <= u /\ u <= left + 1 /\ (u = 0 => left = 0)
          /\ ~refund => left = u
      BY <2>2 DEF Refunded, AtLeast
    <2> HIDE DEF p, app, h, u, l, s, refund, left
    <2>9. SharesFit(p, held', used'[p] + lost'[p], appUsed'[p])
      <3> DEFINE k == [h EXCEPT ![a] = NoGrant]
                 w == used'[p] + lost'[p]
                 n == u + l
                 v == appUsed'[p]
      <3>1. w \in Nat /\ n \in Nat
            /\ (a \in LiveIn(h, p) => n <= w + 1)
            /\ (a \notin LiveIn(h, p) \/ ~refund => n <= w)
        BY <2>2, <2>4, <2>7, <2>8
      <3>2. held' = k
        BY <2>3
      <3>3. SharesFit(p, h, n, s)
        BY <2>6
      <3>4. \A x : AppLive(k, p, x) \subseteq AppLive(h, p, x)
        <4>1. \A x : AppLive(k, p, x) = AppLive(h, p, x) \ {a}
          BY <2>1, <2>2, AppLiveDrop
        <4>2. QED  BY <4>1
      <3>5. v \in [Applications -> Nat] /\ \A x \in Applications : v[x] <= s[x]
        <4>1. s[app] \in Nat /\ Refunded(s[app]) \in Nat /\ Refunded(s[app]) <= s[app]
          BY <2>1, <2>2 DEF Refunded, AtLeast
        <4>2. v = s \/ v = [s EXCEPT ![app] = Refunded(s[app])]
          BY <2>4
        <4>3. CASE v = s
          BY <2>2, <4>3
        <4>4. CASE v = [s EXCEPT ![app] = Refunded(s[app])]
          <5> HIDE DEF v
          <5>1. v \in [Applications -> Nat]
            BY <2>2, <4>1, <4>4
          <5>2. ASSUME NEW x \in Applications PROVE v[x] <= s[x]
            <6>1. s[x] \in Nat /\ v[x] = IF x = app THEN Refunded(s[app]) ELSE s[x]
              BY <2>2, <4>4
            <6>2. QED  BY <4>1, <6>1
          <5>3. QED  BY <5>1, <5>2
        <4>5. QED  BY <4>2, <4>3, <4>4
      <3>6. CASE a \in LiveIn(h, p) /\ refund
        <4>1. v = [s EXCEPT ![h[a].app] = Refunded(@)]
          BY <2>4, <2>7, <3>6
        <4>2. SharesFit(p, k, w, [s EXCEPT ![h[a].app] = Refunded(@)])
          <5> HIDE DEF w, n
          <5>1. QED  BY <2>1, <2>2, <3>1, <3>3, <3>6, SharesFitRefund
        <4>3. QED  BY <3>2, <4>1, <4>2
      <3>7. CASE ~(a \in LiveIn(h, p) /\ refund)
        <4> HIDE DEF k, w, n, v
        <4>1. SharesFit(p, k, w, v)
          BY <2>1, <2>2, <3>1, <3>3, <3>4, <3>5, <3>7, SharesFitLess
        <4>2. QED  BY <3>2, <4>1 DEF w, v
      <3>8. QED  BY <3>6, <3>7
    <2>10. QED  BY <2>1, <2>4, <2>5, <2>9, SharesOnePool
  <1>10. ASSUME NEW now \in Readings, NEW p \in Pools, NEW u, u \in Nat, u >= UsedAt(p, now),
                NEW e, NEW r, WriteRow(p, u, e, r), KeepGrants(p, r, now)
         PROVE  SharesWithinCount'
    <2> DEFINE s == AppUsedAt(p, now)
    <2>1. /\ held' = HeldAt(p, now) /\ used'[p] = u /\ lost'[p] = LostAt(p, now) + 0
          /\ appUsed'[p] = s
          /\ \A q \in Pools \ {p} : /\ used'[q] = used[q] /\ lost'[q] = lost[q]
                                    /\ appUsed'[q] = appUsed[q]
      BY <1>1, <1>10 DEF KeepGrants, WriteRow, Record, TypeOK
    <2>2. \A q \in Pools \ {p} : \A x : AppLive(held', q, x) = AppLive(held, q, x)
      BY <1>1, <1>2, <2>1, AppLiveElsewhere
    <2>3. SharesFit(p, HeldAt(p, now), UsedAt(p, now) + LostAt(p, now), s)
      BY <1>2, SharesAtTime
    <2>4. UsedAt(p, now) \in Nat /\ LostAt(p, now) \in Nat /\ s \in [Applications -> Nat]
      BY <1>1, <1>2, RowType, HistoryType
    <2> HIDE DEF s
    <2>5. SharesFit(p, held', used'[p] + lost'[p], appUsed'[p])
      <3> DEFINE h == HeldAt(p, now)
                 n == UsedAt(p, now) + LostAt(p, now)
                 w == u + LostAt(p, now)
      <3>1. n \in Nat /\ w \in Nat /\ n <= w /\ used'[p] + lost'[p] = w
        BY <1>10, <2>1, <2>4
      <3>2. \A x \in Applications : s[x] <= s[x]
        BY <2>4
      <3>3. SharesFit(p, h, n, s) /\ held' = h
        BY <2>1, <2>3
      <3> HIDE DEF h, n, w
      <3>4. SharesFit(p, h, w, s)
        BY <2>4, <3>1, <3>2, <3>3, SharesFitLess
      <3>5. QED  BY <2>1, <3>1, <3>3, <3>4
    <2>6. QED  BY <2>1, <2>2, <2>5, SharesOnePool
  <1>11. ASSUME NEW now \in Readings, NEW p \in Pools, NEW limit \in ObservedLimits,
                NEW reset \in ReportedResets \cup {NoReset}, NEW remaining \in 0..limit,
                observe(p, limit, remaining, reset, now)
         PROVE  SharesWithinCount'
    <2> DEFINE r == ResetAfterObserving(p, remaining, reset, now)
               u == CountAfterObserving(p, limit, remaining, now)
               e == ExhaustedAt(p, now) \/ ShowsSpent(remaining, r)
    <2>1. UsedAt(p, now) \in Nat /\ limit - remaining \in Nat
      BY <1>1, <1>2, RowType, InputAssumption
    <2>2. u \in Nat /\ u >= UsedAt(p, now)
      BY <2>1 DEF AtLeast, CountAfterObserving
    <2>3. WriteRow(p, u, e, r) /\ KeepGrants(p, r, now)
      BY <1>11 DEF observe
    <2> HIDE DEF r, u, e
    <2>4. QED  BY <1>10, <2>2, <2>3
  <1>12. ASSUME NEW now \in Readings, NEW p \in Pools, NEW reset \in ReportedResets,
                exhaust(p, reset, now)
         PROVE  SharesWithinCount'
    <2> DEFINE r == ResetAfterExhausting(p, reset, now)
               u == UsedAt(p, now)
               e == TRUE
    <2>1. u \in Nat /\ u >= UsedAt(p, now)
      BY <1>1, <1>2, RowType
    <2>2. WriteRow(p, u, e, r) /\ KeepGrants(p, r, now)
      BY <1>12 DEF exhaust
    <2> HIDE DEF r, u, e
    <2>3. QED  BY <1>10, <2>1, <2>2
  <1>13. CASE UNCHANGED vars
    BY <1>4, <1>13 DEF vars, table, history
  <1>14. QED
    BY <1>5, <1>6, <1>7, <1>8, <1>9, <1>11, <1>12, <1>13 DEF Next

\* A fresh ledger attributes nothing.
LEMMA SharesInitially == Init => SharesWithinCount
  <1> SUFFICES ASSUME Init, NEW p \in Pools
               PROVE  SharesFit(p, held, used[p] + lost[p], appUsed[p])
    BY DEF SharesWithinCount
  <1>1. used[p] + lost[p] = 0 /\ appUsed[p] = [x \in Applications |-> 0]
    BY DEF Init
  <1>2. \A x : AppLive(held, p, x) = {}
    BY DEF Init, AppLive, LiveIn
  <1>3. QED  BY <1>1, <1>2, SharesFitNone

\* A window ends once and whole, however late the clocks and whatever is reported:
\* the stamps of a limited pool whose resets moved forward name its windows, no
\* clear wipes a grant made MaxLag or more after the boundary it stands for, and
\* the applications' shares never add up to more than the counter accounts for.
THEOREM WindowsKeepOrder == Spec => []WindowsInOrder
  <1>1. SharesInv /\ [Next]_vars => SharesInv'
    BY SharesInductive, TypeInductive DEF SharesInv
  <1>2. Init => SharesInv
    BY SharesInitially, TierInitially DEF SharesInv, IInv, CoverInv
  <1>3. IInv /\ SharesInv /\ GrantsInv => WindowsInOrder
    <2> SUFFICES ASSUME IInv, SharesInv, GrantsInv PROVE WindowsInOrder
      OBVIOUS
    <2>1. ASSUME NEW p \in Pools PROVE AppTotal(p) <= used[p] + lost[p]
      <3>1. appUsed[p] \in [Applications -> Nat] /\ used[p] + lost[p] \in Nat
        BY DEF SharesInv, TypeOK
      <3>2. SharesFit(p, held, used[p] + lost[p], appUsed[p])
        BY DEF SharesInv, SharesWithinCount
      <3>3. MostOf(p, held, appUsed[p]) \in [Applications -> Nat]
            /\ \A x \in Applications : appUsed[p][x] <= MostOf(p, held, appUsed[p])[x]
        BY <3>1, MostType
      <3> DEFINE M == MostOf(p, held, appUsed[p])
      <3>4. IsFiniteSet(SharesOf(M)) /\ Cardinality(SharesOf(M)) <= used[p] + lost[p]
        BY <3>2 DEF SharesFit
      <3> HIDE DEF M
      <3>5. Cardinality(SharesOf(appUsed[p])) <= Cardinality(SharesOf(M))
            /\ Cardinality(SharesOf(M)) \in Nat /\ Cardinality(SharesOf(appUsed[p])) \in Nat
        BY <3>1, <3>3, <3>4, SharesLess DEF M
      <3>6. QED  BY <3>1, <3>4, <3>5 DEF AppTotal
    <2>2. QED  BY <2>1 DEF IInv, GrantsInv, WindowsInOrder
  <1>4. QED
    BY <1>1, <1>2, <1>3, TierInductive, TierInitially, GrantsInductive, GrantsInitially, PTL
    DEF Spec
=============================================================================
