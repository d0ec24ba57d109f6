------------------------- MODULE QuotaGovernorProofs -------------------------
(***************************************************************************)
(* Theorems about QuotaGovernor for every value of its constants.          *)
(***************************************************************************)
EXTENDS QuotaGovernor, CommonLemmas, SequenceTheorems, TLAPS

\* A window always clears after the moment it was opened.
LEMMA WindowAhead ==
  ASSUME NEW w \in Windows, NEW now \in Nat
  PROVE  next_window_reset(w, now) \in Nat /\ next_window_reset(w, now) > now
<1>1. 0 \in 0..Day
  BY WindowAssumption
<1>2. \A offset \in 0..Day : NextMidnight(now, offset) \in Nat /\ NextMidnight(now, offset) > now
  BY MidnightAhead, WindowAssumption DEF NextMidnight
<1>. QED  BY <1>1, <1>2, WindowAssumption DEF Windows, next_window_reset

-----------------------------------------------------------------------------
(* What the operations do to the state of the circuit *)

\* The phases of an attempt that may own the half-open slot.
InFlight == {"reserving", "calling", "observing"}

OwnerInFlight(s, att) ==
    s.circuit_state = "HALF_OPEN" =>
        s.probe_token \in Attempts /\ att[s.probe_token].phase \in InFlight

\* A state s of the provider is sound beside the attempts att: its half-open
\* slot has an owner, a closed circuit few failures, an exhaustion an end.
Sound(s, att) ==
    /\ s \in States
    /\ OwnerInFlight(s, att)
    /\ s.circuit_state = "CLOSED" => Len(s.failures) < CircuitFailures
    /\ s.exhausted => s.reset_at # NoReset

\* The parts of a state that count requests and withhold the provider.
SameQuota(s, t) ==
    /\ s.used = t.used /\ s.exhausted = t.exhausted /\ s.reset_at = t.reset_at
    /\ s.window = t.window /\ s.sent = t.sent /\ s.throttled_until = t.throttled_until
    /\ s.lost = t.lost /\ s.regular = t.regular

\* Step from s to t does not close the circuit.
NotClosed(t, s) == t.circuit_state = "CLOSED" => s.circuit_state = "CLOSED"

\* Periods are whole numbers of ticks, at least one; None is none of them.
LEMMA ConstantFacts ==
    /\ Cooldown \in Nat \ {0} /\ CircuitFailures \in Nat \ {0} /\ CircuitWindow \in Nat \ {0}
    /\ Lease \in Nat \ {0} /\ MinuteWindow \in Nat \ {0} /\ ExhaustionRetry \in Nat \ {0}
    /\ NoReset \notin Nat /\ NoProbe \notin Attempts /\ Provider \notin Models
  BY GovernorAssumption

\* The failures kept are times, as many as recorded or fewer.
LEMMA RecentType ==
    ASSUME clock \in Nat, NEW s \in States
    PROVE  RecentFailures(s) \in Seq(Nat)
  <1> DEFINE f == s.failures
             old == {i \in DOMAIN f : f[i] < clock - CircuitWindow}
  <1>1. f \in Seq(Nat)
    BY DEF States
  <1>2. Len(f) \in Nat /\ DOMAIN f = 1..Len(f) /\ \A i \in 1..Len(f) : f[i] \in Nat
    BY <1>1, LenProperties
  <1>3. IsFiniteSet(1..Len(f))
    BY <1>2, FS_Interval
  <1>4. old \in SUBSET (1..Len(f))
    BY <1>2
  <1>5. Cardinality(old) \in Nat
    BY <1>3, <1>4, FS_Subset, FS_CardinalityType
  <1>6. \A i \in (Cardinality(old) + 1)..Len(f) : f[i] \in Nat
    BY <1>2, <1>5
  <1> HIDE DEF f, old
  <1>7. SubSeq(f, Cardinality(old) + 1, Len(f)) \in Seq(Nat)
    BY <1>2, <1>5, <1>6, SubSeqProperties
  <1>8. QED  BY <1>7 DEF RecentFailures, f, old

\* Opening the circuit gives up the slot.
LEMMA OpenedSound ==
    ASSUME clock \in Nat, NEW att, NEW s \in States, s.exhausted => s.reset_at # NoReset
    PROVE  Sound(Opened(s), att) /\ SameQuota(Opened(s), s) /\ NotClosed(Opened(s), s)
  <1>1. clock + Cooldown \in Nat
    BY ConstantFacts
  <1>2. Opened(s) \in States
    BY <1>1 DEF Opened, States, Circuits
  <1>3. Opened(s).circuit_state = "OPEN"
    BY DEF Opened, States
  <1>4. SameQuota(Opened(s), s)
    BY DEF Opened, States, SameQuota
  <1>5. QED  BY <1>2, <1>3, <1>4 DEF Sound, OwnerInFlight, SameQuota, NotClosed

\* Recovering clears a window that is over and opens a circuit whose lease is.
LEMMA RecoveredSound ==
    ASSUME clock \in Nat, NEW att, NEW s, Sound(s, att)
    PROVE  LET t == Recovered(s) IN
           /\ Sound(t, att) /\ NotClosed(t, s)
           /\ t.throttled_until = s.throttled_until /\ t.regular = s.regular
           /\ IF WindowOver(s)
                THEN t.used = 0 /\ t.exhausted = FALSE /\ t.reset_at = NoReset
                     /\ t.window = (IF shared THEN s.window ELSE s.window + 1) /\ t.sent = 0 /\ t.lost = 0
                ELSE t.used = s.used /\ t.exhausted = s.exhausted /\ t.reset_at = s.reset_at
                     /\ t.window = s.window /\ t.sent = s.sent /\ t.lost = s.lost
           /\ ~LeaseOver(s) => /\ t.circuit_state = s.circuit_state
                               /\ t.probe_token = s.probe_token
                               /\ t.probe_until = s.probe_until
  <1> DEFINE w == IF shared THEN s.window ELSE s.window + 1
             c == [s EXCEPT !.used = 0, !.exhausted = FALSE, !.reset_at = NoReset,
                            !.window = w, !.sent = 0, !.lost = 0]
             d == Cleared(s)
  <1>1. s \in States /\ w \in Nat /\ NoReset \in Resets
    BY DEF Sound, States, Resets
  <1>2. d = IF WindowOver(s) THEN c ELSE s
    BY <1>1 DEF Cleared, States
  <1> HIDE DEF w
  <1>3. c \in States
    BY <1>1 DEF States
  <1>4. /\ c.used = 0 /\ c.exhausted = FALSE /\ c.reset_at = NoReset /\ c.window = w
        /\ c.sent = 0 /\ c.lost = 0
    BY <1>1 DEF States
  <1>5. /\ c.circuit_state = s.circuit_state /\ c.probe_token = s.probe_token
        /\ c.failures = s.failures /\ c.throttled_until = s.throttled_until
        /\ c.probe_until = s.probe_until /\ c.regular = s.regular
    BY <1>1 DEF States
  <1> HIDE DEF c
  <1>6. Sound(d, att)
    BY <1>2, <1>3, <1>4, <1>5 DEF Sound, OwnerInFlight
  <1>7. IF WindowOver(s)
          THEN d.used = 0 /\ d.exhausted = FALSE /\ d.reset_at = NoReset
               /\ d.window = (IF shared THEN s.window ELSE s.window + 1) /\ d.sent = 0 /\ d.lost = 0
          ELSE d.used = s.used /\ d.exhausted = s.exhausted /\ d.reset_at = s.reset_at
               /\ d.window = s.window /\ d.sent = s.sent /\ d.lost = s.lost
    BY <1>2, <1>4 DEF w
  <1>8. /\ d.circuit_state = s.circuit_state /\ d.probe_token = s.probe_token
        /\ d.throttled_until = s.throttled_until /\ d.probe_until = s.probe_until
        /\ d.regular = s.regular
    BY <1>2, <1>5
  <1> HIDE DEF d
  <1>9. CASE LeaseOver(s)
    <2>1. d \in States /\ (d.exhausted => d.reset_at # NoReset)
      BY <1>6 DEF Sound
    <2>2. Sound(Opened(d), att) /\ SameQuota(Opened(d), d) /\ NotClosed(Opened(d), d)
      BY <2>1, OpenedSound
    <2>3. Recovered(s) = Opened(d)
      BY <1>9 DEF Recovered, d
    <2>4. QED  BY <1>7, <1>8, <1>9, <2>2, <2>3 DEF SameQuota, NotClosed
  <1>10. CASE ~LeaseOver(s)
    <2>1. Recovered(s) = d
      BY <1>10 DEF Recovered, d
    <2>2. QED  BY <1>6, <1>7, <1>8, <2>1 DEF NotClosed
  <1>11. QED  BY <1>9, <1>10

\* The slot an attempt gives back opens the circuit again.
LEMMA ReleasedSound ==
    ASSUME NEW att, NEW s, Sound(s, att), NEW a \in Attempts
    PROVE  /\ Sound(ProbeReleased(s, a), att) /\ SameQuota(ProbeReleased(s, a), s)
           /\ ProbeReleased(s, a).circuit_state = "HALF_OPEN" =>
                ProbeReleased(s, a).probe_token # a
           /\ NotClosed(ProbeReleased(s, a), s)
  <1> DEFINE t == [s EXCEPT !.circuit_state = "OPEN", !.probe_until = 0,
                            !.probe_token = NoProbe]
  <1>1. s \in States
    BY DEF Sound
  <1>2. t \in States /\ t.circuit_state = "OPEN"
    BY <1>1 DEF States, Circuits
  <1>3. SameQuota(t, s)
    BY <1>1 DEF States, SameQuota
  <1>4. ProbeReleased(s, a) = IF s.circuit_state = "HALF_OPEN" /\ s.probe_token = a THEN t ELSE s
    BY DEF ProbeReleased
  <1> HIDE DEF t
  <1>5. SameQuota(s, s)
    BY DEF SameQuota
  <1>6. CASE s.circuit_state = "HALF_OPEN" /\ s.probe_token = a
    BY <1>2, <1>3, <1>4, <1>6 DEF Sound, OwnerInFlight, SameQuota, NotClosed
  <1>7. CASE ~(s.circuit_state = "HALF_OPEN" /\ s.probe_token = a)
    BY <1>4, <1>5, <1>7 DEF NotClosed
  <1>8. QED  BY <1>6, <1>7

\* Nothing but a half-open circuit depends on what the attempts do.
LEMMA OtherAttempts ==
    ASSUME NEW att, NEW att2, NEW s, Sound(s, att), s.circuit_state # "HALF_OPEN"
    PROVE  Sound(s, att2)
  BY DEF Sound, OwnerInFlight

\* A claimed slot belongs to the attempt that claims it.
LEMMA ClaimedSound ==
    ASSUME clock \in Nat, NEW att, NEW att2, NEW s, Sound(s, att),
           s.circuit_state # "HALF_OPEN",
           NEW a \in Attempts, att2[a].phase \in InFlight
    PROVE  Sound(Claimed(s, a), att2) /\ SameQuota(Claimed(s, a), s)
  <1> DEFINE u == clock + Lease
             t == [s EXCEPT !.circuit_state = "HALF_OPEN", !.probe_token = a, !.probe_until = u]
  <1>1. s \in States /\ u \in Nat
    BY ConstantFacts DEF Sound
  <1> HIDE DEF u
  <1>2. t \in States /\ t.circuit_state = "HALF_OPEN" /\ t.probe_token = a
    BY <1>1 DEF States, Circuits
  <1>3. SameQuota(t, s)
    BY <1>1 DEF States, SameQuota
  <1>4. Claimed(s, a) = IF s.circuit_state = "OPEN" THEN t ELSE s
    BY DEF Claimed, u
  <1> HIDE DEF t
  <1>5. CASE s.circuit_state = "OPEN"
    BY <1>2, <1>3, <1>4, <1>5 DEF Sound, OwnerInFlight, SameQuota
  <1>6. CASE s.circuit_state # "OPEN"
    BY <1>4, <1>6, OtherAttempts DEF SameQuota
  <1>7. QED  BY <1>5, <1>6

\* A failure is remembered, and the circuit opens when they are too many.
LEMMA FailedSound ==
    ASSUME clock \in Nat, NEW att, NEW s, Sound(s, att), NEW a \in Attempts
    PROVE  Sound(Failed(s, a), att) /\ SameQuota(Failed(s, a), s) /\ NotClosed(Failed(s, a), s)
  <1> DEFINE recent == Append(RecentFailures(s), clock)
             t == [s EXCEPT !.failures = recent]
             opens == s.circuit_state = "HALF_OPEN" \/ Len(recent) >= CircuitFailures
  <1>1. s \in States
    BY DEF Sound
  <1>2. recent \in Seq(Nat) /\ Len(recent) \in Nat
    BY <1>1, RecentType, AppendProperties, LenProperties
  <1>3. Failed(s, a) = IF StaleOutcome(s, a) THEN s ELSE IF opens THEN Opened(t) ELSE t
    BY DEF Failed
  <1>4. ~opens => s.circuit_state # "HALF_OPEN" /\ Len(recent) < CircuitFailures
    BY <1>2, ConstantFacts
  <1> HIDE DEF recent, opens
  <1>5. t \in States /\ t.failures = recent /\ t.circuit_state = s.circuit_state
    BY <1>1, <1>2 DEF States
  <1>6. SameQuota(t, s) /\ SameQuota(s, s)
    BY <1>1 DEF States, SameQuota
  <1> HIDE DEF t
  <1>7. CASE StaleOutcome(s, a)
    BY <1>3, <1>6, <1>7 DEF NotClosed
  <1>8. CASE ~StaleOutcome(s, a) /\ opens
    <2>1. t.exhausted => t.reset_at # NoReset
      BY <1>6 DEF Sound, SameQuota
    <2>2. Sound(Opened(t), att) /\ SameQuota(Opened(t), t) /\ NotClosed(Opened(t), t)
      BY <1>5, <2>1, OpenedSound
    <2>3. QED  BY <1>3, <1>5, <1>6, <1>8, <2>2 DEF SameQuota, NotClosed
  <1>9. CASE ~StaleOutcome(s, a) /\ ~opens
    BY <1>3, <1>4, <1>5, <1>6, <1>9 DEF Sound, OwnerInFlight, SameQuota, NotClosed
  <1>10. QED  BY <1>7, <1>8, <1>9

\* A success closes the circuit, unless another attempt probes it.
LEMMA SucceededSound ==
    ASSUME NEW att, NEW s, Sound(s, att), NEW a \in Attempts
    PROVE  /\ Sound(Succeeded(s, a), att) /\ SameQuota(Succeeded(s, a), s)
           /\ StaleOutcome(s, a) => Succeeded(s, a) = s
  <1> DEFINE t == [s EXCEPT !.failures = <<>>, !.circuit_state = "CLOSED", !.probe_until = 0,
                            !.probe_token = NoProbe, !.blocked_until = 0]
  <1>1. s \in States /\ <<>> \in Seq(Nat) /\ Len(<<>>) = 0
    BY DEF Sound
  <1>2. t \in States /\ t.failures = <<>> /\ t.circuit_state = "CLOSED"
    BY <1>1 DEF States, Circuits
  <1>3. SameQuota(t, s) /\ SameQuota(s, s)
    BY <1>1 DEF States, SameQuota
  <1>4. Succeeded(s, a) = IF StaleOutcome(s, a) THEN s ELSE t
    BY DEF Succeeded
  <1> HIDE DEF t
  <1>5. Sound(t, att)
    BY <1>1, <1>2, <1>3, ConstantFacts DEF Sound, OwnerInFlight, SameQuota
  <1>6. QED  BY <1>3, <1>4, <1>5

\* A rate limit or an exhaustion found by the probe ends the probe.
LEMMA ReopenedSound ==
    ASSUME clock \in Nat, NEW att, NEW s, Sound(s, att)
    PROVE  /\ Sound(ReopenedIfProbing(s), att) /\ SameQuota(ReopenedIfProbing(s), s)
           /\ ReopenedIfProbing(s).circuit_state # "HALF_OPEN"
           /\ NotClosed(ReopenedIfProbing(s), s)
  <1>1. s \in States /\ (s.exhausted => s.reset_at # NoReset) /\ SameQuota(s, s)
    BY DEF Sound, SameQuota
  <1>2. Opened(s).circuit_state = "OPEN"
    BY <1>1 DEF Opened, States
  <1>3. QED  BY <1>1, <1>2, OpenedSound DEF ReopenedIfProbing, NotClosed

\* A throttle only lengthens the one before.
LEMMA ThrottledSound ==
    ASSUME clock \in Nat, NEW att, NEW s, Sound(s, att), NEW until \in Nat
    PROVE  LET t == Throttled(s, until) IN
           /\ Sound(t, att) /\ NotClosed(t, s)
           /\ t.used = s.used /\ t.exhausted = s.exhausted /\ t.reset_at = s.reset_at
           /\ t.window = s.window /\ t.sent = s.sent
           /\ t.lost = s.lost /\ t.regular = s.regular
           /\ t.throttled_until >= s.throttled_until
  <1> DEFINE r == ReopenedIfProbing(s)
             n == AtLeast(r.throttled_until, until)
             t == [r EXCEPT !.throttled_until = n]
  <1>1. Sound(r, att) /\ SameQuota(r, s) /\ NotClosed(r, s)
    BY ReopenedSound
  <1>2. r \in States /\ r.throttled_until \in Nat
    BY <1>1 DEF Sound, States
  <1>3. n \in Nat /\ n >= r.throttled_until
    BY <1>2 DEF AtLeast
  <1>4. Throttled(s, until) = t
    BY DEF Throttled
  <1> HIDE DEF r, n
  <1>5. t \in States
    BY <1>2, <1>3 DEF States
  <1>6. /\ t.used = r.used /\ t.exhausted = r.exhausted /\ t.reset_at = r.reset_at
        /\ t.window = r.window /\ t.sent = r.sent /\ t.throttled_until = n
        /\ t.circuit_state = r.circuit_state /\ t.probe_token = r.probe_token
        /\ t.failures = r.failures /\ t.lost = r.lost /\ t.regular = r.regular
    BY <1>2 DEF States
  <1> HIDE DEF t
  <1>7. QED  BY <1>1, <1>3, <1>4, <1>5, <1>6 DEF Sound, OwnerInFlight, SameQuota, NotClosed

\* FAIR's own idea of a reset always lies ahead.
LEMMA ExhaustionAhead ==
    ASSUME clock \in Nat, NEW reset \in Resets
    PROVE  ExhaustionReset(reset) \in Nat /\ ExhaustionReset(reset) > clock
  <1>1. Window # NoWindow => Window \in Windows
    BY GovernorAssumption
  <1>2. QED  BY <1>1, WindowAhead, ConstantFacts DEF ExhaustionReset, Resets

\* A request counted opens a window that ends, if there is a limit.
LEMMA CountedSound ==
    ASSUME clock \in Nat, NEW att, NEW s, Sound(s, att)
    PROVE  LET t == Counted(s) IN
           /\ Sound(t, att)
           /\ t.used = s.used + 1 /\ t.exhausted = s.exhausted
           /\ t.window = s.window /\ t.sent = s.sent
           /\ t.lost = s.lost /\ t.regular = s.regular
           /\ t.throttled_until = s.throttled_until
           /\ Limit # NoLimit => t.reset_at # NoReset
           /\ s.reset_at # NoReset => t.reset_at = s.reset_at
           /\ t.circuit_state = s.circuit_state
  <1> DEFINE n == s.used + 1
             r == IF s.reset_at = NoReset /\ Limit # NoLimit /\ Window # NoWindow
                    THEN next_window_reset(Window, clock) ELSE s.reset_at
             t == [s EXCEPT !.used = n, !.reset_at = r]
  <1>1. s \in States /\ n \in Nat /\ s.reset_at \in Resets
    BY DEF Sound, States
  <1>2. /\ Window # NoWindow => Window \in Windows
        /\ Limit # NoLimit => Window # NoWindow
    BY GovernorAssumption
  <1>3. /\ r \in Resets
        /\ Limit # NoLimit => r # NoReset
        /\ s.reset_at # NoReset => r = s.reset_at
    BY <1>1, <1>2, WindowAhead, ConstantFacts DEF Resets
  <1>4. Counted(s) = t
    BY <1>1 DEF Counted, States
  <1> HIDE DEF n, r
  <1>5. t \in States
    BY <1>1, <1>3 DEF States
  <1>6. /\ t.used = n /\ t.exhausted = s.exhausted /\ t.reset_at = r
        /\ t.window = s.window /\ t.sent = s.sent /\ t.throttled_until = s.throttled_until
        /\ t.circuit_state = s.circuit_state /\ t.probe_token = s.probe_token
        /\ t.failures = s.failures /\ t.lost = s.lost /\ t.regular = s.regular
    BY <1>1 DEF States
  <1> HIDE DEF t
  <1>7. n = s.used + 1
    BY DEF n
  <1>8. QED  BY <1>3, <1>4, <1>5, <1>6, <1>7 DEF Sound, OwnerInFlight

\* An exhaustion always records when it ends.
LEMMA ExhaustedSound ==
    ASSUME clock \in Nat, NEW att, NEW s, Sound(s, att), NEW reset \in Resets
    PROVE  LET t == Exhausted(s, reset) IN
           /\ Sound(t, att) /\ NotClosed(t, s)
           /\ t.used = s.used /\ t.window = s.window /\ t.sent = s.sent
           /\ t.lost = s.lost /\ t.regular = (s.regular /\ NotEarlier(s, ExhaustionReset(reset)))
           /\ t.throttled_until = s.throttled_until
           /\ t.exhausted = TRUE /\ t.reset_at = ExhaustionReset(reset)
           /\ t.circuit_state # "HALF_OPEN"
  <1> DEFINE r == ExhaustionReset(reset)
             g == s.regular /\ NotEarlier(s, r)
             t == [s EXCEPT !.exhausted = TRUE, !.reset_at = r, !.regular = g]
  <1>1. s \in States /\ r \in Nat /\ r \in Resets /\ r # NoReset
    BY ExhaustionAhead, ConstantFacts DEF Sound, Resets
  <1>8. g \in BOOLEAN
    BY DEF NotEarlier
  <1> HIDE DEF r, g
  <1>2. t \in States
    BY <1>1, <1>8 DEF States
  <1>3. /\ t.used = s.used /\ t.exhausted = TRUE /\ t.reset_at = r
        /\ t.window = s.window /\ t.sent = s.sent /\ t.throttled_until = s.throttled_until
        /\ t.circuit_state = s.circuit_state /\ t.probe_token = s.probe_token
        /\ t.failures = s.failures /\ t.lost = s.lost /\ t.regular = g
    BY <1>1, <1>8 DEF States
  <1>4. Exhausted(s, reset) = ReopenedIfProbing(t)
    BY <1>1 DEF Exhausted, States, r, g
  <1> HIDE DEF t
  <1>5. Sound(t, att)
    BY <1>1, <1>2, <1>3 DEF Sound, OwnerInFlight
  <1>6. r = ExhaustionReset(reset) /\ g = (s.regular /\ NotEarlier(s, r))
    BY DEF r, g
  <1>7. QED  BY <1>3, <1>4, <1>5, <1>6, ReopenedSound DEF SameQuota, NotClosed

\* A report never lowers the count, lifts an exhaustion or shortens one.
LEMMA ObservedSound ==
    ASSUME clock \in Nat, NEW att, NEW s, Sound(s, att), NEW reset \in Resets,
           NEW remaining \in Nat
    PROVE  LET t == Observed(s, remaining, reset) IN
           /\ Sound(t, att)
           /\ t.circuit_state = s.circuit_state /\ t.probe_token = s.probe_token
           /\ t.probe_until = s.probe_until
           /\ t.used >= s.used /\ t.window = s.window /\ t.sent = s.sent
           /\ t.lost = s.lost /\ (t.regular => s.regular /\ NotEarlier(s, t.reset_at))
           /\ s.reset_at # NoReset => t.reset_at # NoReset
           /\ Limit # NoLimit /\ s.used <= Limit => t.used <= Limit
           /\ t.throttled_until = s.throttled_until
           /\ s.exhausted => t.exhausted = TRUE /\ t.reset_at # NoReset
                             /\ t.reset_at >= s.reset_at
  <1> DEFINE k == KnownReset(s, remaining, reset)
             u == IF shared \/ Limit = NoLimit \/ remaining > Limit THEN s.used
                    ELSE AtLeast(s.used, Limit - remaining)
             e == (s.exhausted \/ remaining = 0)
             r == IF remaining = 0 /\ k = NoReset THEN ExhaustionReset(NoReset) ELSE k
             g == s.regular /\ NotEarlier(s, r)
             t == [s EXCEPT !.used = u, !.exhausted = e, !.reset_at = r, !.regular = g]
  <1>1. s \in States /\ s.reset_at \in Resets /\ s.used \in Nat /\ NoReset \in Resets
    BY DEF Sound, States, Resets
  <1>2. u \in Nat /\ u >= s.used /\ (Limit # NoLimit /\ s.used <= Limit => u <= Limit)
    <2>1. Limit # NoLimit => Limit \in Nat
      BY GovernorAssumption
    <2>2. QED  BY <1>1, <2>1 DEF AtLeast
  <1>3. /\ k \in Resets
        /\ s.reset_at # NoReset => k # NoReset
        /\ s.reset_at # NoReset /\ s.exhausted => k >= s.reset_at
    BY <1>1, ConstantFacts DEF KnownReset, Usable, AtLeast, Resets
  <1>4. s.exhausted => s.reset_at # NoReset
    BY DEF Sound
  <1>5. ExhaustionReset(NoReset) \in Nat
    BY <1>1, ExhaustionAhead
  <1> HIDE DEF k
  <1>6. /\ r \in Resets
        /\ s.exhausted => r # NoReset /\ r >= s.reset_at
        /\ remaining = 0 => r # NoReset
        /\ s.reset_at # NoReset => r # NoReset
    BY <1>1, <1>3, <1>4, <1>5, ConstantFacts DEF Resets
  <1>7. e \in BOOLEAN /\ (e => s.exhausted \/ remaining = 0) /\ (s.exhausted => e = TRUE)
    OBVIOUS
  <1>8. Observed(s, remaining, reset) = t
    BY <1>1 DEF Observed, ResetAfterObserving, States, k
  <1>12. g \in BOOLEAN /\ (g => s.regular /\ NotEarlier(s, r))
    BY DEF NotEarlier
  <1> HIDE DEF u, e, r, g
  <1>9. t \in States
    BY <1>1, <1>2, <1>6, <1>7, <1>12 DEF States
  <1>10. /\ t.used = u /\ t.exhausted = e /\ t.reset_at = r
         /\ t.window = s.window /\ t.sent = s.sent /\ t.throttled_until = s.throttled_until
         /\ t.circuit_state = s.circuit_state /\ t.probe_token = s.probe_token
         /\ t.failures = s.failures /\ t.probe_until = s.probe_until
         /\ t.lost = s.lost /\ t.regular = g
    BY <1>1, <1>7, <1>12 DEF States
  <1> HIDE DEF t
  <1>11. QED  BY <1>2, <1>4, <1>6, <1>7, <1>8, <1>9, <1>10, <1>12 DEF Sound, OwnerInFlight

\* The operator's resumption closes the circuit and forgets the failures.
LEMMA ResumedSound ==
    ASSUME NEW att, NEW s, Sound(s, att)
    PROVE  LET t == Resumed(s) IN
           /\ Sound(t, att)
           /\ t.used = s.used /\ t.exhausted = s.exhausted /\ t.reset_at = s.reset_at
           /\ t.window = s.window /\ t.sent = s.sent
           /\ t.lost = s.lost /\ t.regular = s.regular
  <1> DEFINE t == Resumed(s)
  <1>1. s \in States /\ <<>> \in Seq(Nat) /\ Len(<<>>) = 0
    BY DEF Sound
  <1>2. t \in States
    BY <1>1 DEF Resumed, States, Circuits
  <1>3. /\ t.used = s.used /\ t.exhausted = s.exhausted /\ t.reset_at = s.reset_at
        /\ t.window = s.window /\ t.sent = s.sent
        /\ t.lost = s.lost /\ t.regular = s.regular
        /\ t.circuit_state = "CLOSED" /\ t.failures = <<>>
    BY <1>1 DEF Resumed, States
  <1> HIDE DEF t
  <1>4. QED  BY <1>1, <1>2, <1>3, ConstantFacts DEF Sound, OwnerInFlight, t

\* A block for safety's sake changes nothing else.
LEMMA BlockedSound ==
    ASSUME NEW att, NEW s, Sound(s, att)
    PROVE  LET t == [s EXCEPT !.security_blocked = TRUE] IN
           Sound(t, att) /\ SameQuota(t, s) /\ NotClosed(t, s)
  <1> DEFINE t == [s EXCEPT !.security_blocked = TRUE]
  <1>1. s \in States
    BY DEF Sound
  <1>2. t \in States
    BY <1>1 DEF States
  <1>3. /\ SameQuota(t, s) /\ t.circuit_state = s.circuit_state
        /\ t.probe_token = s.probe_token /\ t.failures = s.failures
    BY <1>1 DEF States, SameQuota
  <1> HIDE DEF t
  <1>4. Sound(t, att) /\ NotClosed(t, s)
    BY <1>2, <1>3 DEF Sound, OwnerInFlight, NotClosed, SameQuota
  <1>5. QED  BY <1>3, <1>4 DEF t

\* An attempt that ends in its own window leaves its request counted as sent.
LEMMA SentSound ==
    ASSUME NEW att, NEW s, Sound(s, att), NEW a \in Attempts
    PROVE  LET t == Sent(s, a) IN
           /\ Sound(t, att) /\ NotClosed(t, s)
           /\ t.used = s.used /\ t.exhausted = s.exhausted /\ t.reset_at = s.reset_at
           /\ t.window = s.window /\ t.throttled_until = s.throttled_until
           /\ t.lost = s.lost /\ t.regular = s.regular
           /\ t.sent = IF attempt[a].window = s.window /\ ~shared THEN s.sent + 1 ELSE s.sent
           /\ t.circuit_state = s.circuit_state /\ t.probe_token = s.probe_token
  <1> DEFINE n == s.sent + 1
             t == [s EXCEPT !.sent = n]
  <1>1. s \in States /\ n \in Nat
    BY DEF Sound, States
  <1>2. Sent(s, a) = IF attempt[a].window = s.window /\ ~shared THEN t ELSE s
    BY <1>1 DEF Sent, States
  <1> HIDE DEF n
  <1>3. t \in States
    BY <1>1 DEF States
  <1>4. /\ t.used = s.used /\ t.exhausted = s.exhausted /\ t.reset_at = s.reset_at
        /\ t.window = s.window /\ t.sent = n /\ t.throttled_until = s.throttled_until
        /\ t.circuit_state = s.circuit_state /\ t.probe_token = s.probe_token
        /\ t.failures = s.failures /\ t.lost = s.lost /\ t.regular = s.regular
    BY <1>1 DEF States
  <1> HIDE DEF t
  <1>5. n = s.sent + 1
    BY DEF n
  <1>6. QED  BY <1>2, <1>3, <1>4, <1>5 DEF Sound, OwnerInFlight, NotClosed

-----------------------------------------------------------------------------
(* What a step does to the provider's state, whatever its operations *)

\* Between s and t no bench was shortened: the throttle was not, an exhaustion yet
\* to end has yet to end, and no earlier, unless the step is another refusal's.
ExhaustionHolds(t, s) ==
    s.exhausted /\ ~WindowOver(s) =>
        t.exhausted /\ ~WindowOver(t) /\ (~ExhaustAnswered => t.reset_at >= s.reset_at)

Holds(t, s) == t.throttled_until >= s.throttled_until /\ ExhaustionHolds(t, s)

\* From s to t only the owner of a slot whose lease still runs closes it.
OwnerOnly(t, s, a) ==
    s.circuit_state = "HALF_OPEN" /\ ~LeaseOver(s) /\ t.circuit_state = "CLOSED" =>
        s.probe_token = a

\* What SameQuota leaves alone is not shortened.
LEMMA SameHolds ==
    ASSUME NEW att, NEW s, Sound(s, att), NEW t, SameQuota(t, s)
    PROVE  Holds(t, s)
  <1>1. s.throttled_until \in Nat /\ s.reset_at \in Resets
    BY DEF Sound, States
  <1>2. s.exhausted => s.reset_at \in Nat
    BY <1>1 DEF Sound, Resets
  <1>3. QED  BY <1>1, <1>2 DEF Holds, ExhaustionHolds, SameQuota, WindowOver

\* One operation after the other shortens no bench if neither does.
LEMMA HoldsTransitive ==
    ASSUME clock \in Nat, NEW att1, NEW att2, NEW att3, NEW r, Sound(r, att1),
           NEW s, Sound(s, att2), NEW t, Sound(t, att3), Holds(s, r), Holds(t, s)
    PROVE  Holds(t, r)
  <1>1. /\ r.throttled_until \in Nat /\ s.throttled_until \in Nat /\ t.throttled_until \in Nat
        /\ r.reset_at \in Resets /\ s.reset_at \in Resets /\ t.reset_at \in Resets
    BY DEF Sound, States
  <1>2. /\ r.exhausted => r.reset_at \in Nat
        /\ s.exhausted => s.reset_at \in Nat
        /\ t.exhausted => t.reset_at \in Nat
    BY <1>1 DEF Sound, Resets
  <1>3. t.throttled_until >= r.throttled_until
    BY <1>1 DEF Holds
  <1>4. ASSUME r.exhausted, ~WindowOver(r)
        PROVE  t.exhausted /\ ~WindowOver(t) /\ (~ExhaustAnswered => t.reset_at >= r.reset_at)
    <2>1. s.exhausted /\ ~WindowOver(s) /\ (~ExhaustAnswered => s.reset_at >= r.reset_at)
      BY <1>4 DEF Holds, ExhaustionHolds
    <2>2. t.exhausted /\ ~WindowOver(t) /\ (~ExhaustAnswered => t.reset_at >= s.reset_at)
      BY <2>1 DEF Holds, ExhaustionHolds
    <2>3. QED  BY <1>2, <1>4, <2>1, <2>2
  <1>5. QED  BY <1>3, <1>4 DEF Holds, ExhaustionHolds

\* Recovering shortens no bench.
LEMMA RecoveredHolds ==
    ASSUME clock \in Nat, NEW att, NEW s, Sound(s, att)
    PROVE  Holds(Recovered(s), s)
  <1>1. s.throttled_until \in Nat /\ s.reset_at \in Resets
    BY DEF Sound, States
  <1>2. s.exhausted => s.reset_at \in Nat
    BY <1>1 DEF Sound, Resets
  <1> DEFINE t == Recovered(s)
  <1>3. /\ t.throttled_until = s.throttled_until
        /\ ~WindowOver(s) => t.exhausted = s.exhausted /\ t.reset_at = s.reset_at
    BY RecoveredSound
  <1> HIDE DEF t
  <1>4. Holds(t, s)
    BY <1>1, <1>2, <1>3 DEF Holds, ExhaustionHolds, WindowOver
  <1>5. QED  BY <1>4 DEF t

\* Who ends an attempt gives its slot back: what others own is still owned.
LEMMA OthersKeep ==
    ASSUME NEW att, NEW att2, NEW a \in Attempts, NEW s, Sound(s, att),
           s.circuit_state = "HALF_OPEN" => s.probe_token # a \/ att2[a].phase \in InFlight,
           \A b \in Attempts \ {a} : att2[b] = att[b]
    PROVE  Sound(s, att2)
  BY DEF Sound, OwnerInFlight

AttemptType == [phase: Phases, model: Models \cup {Provider}, local_window: Resets, window: Nat]
AttemptsType == [Attempts -> AttemptType]

\* The end of _attempt, whatever its outcome left of the state.
LEMMA Finishing ==
    ASSUME clock \in Nat, attempt \in AttemptsType, NEW s, Sound(s, attempt),
           NEW a \in Attempts, Finish(s, a)
    PROVE  /\ Sound(state', attempt')
           /\ attempt' = [attempt EXCEPT ![a] = Idle]
           /\ Holds(state', s) /\ NotClosed(state', s)
  <1> DEFINE r == Recovered(s)
             q == Sent(r, a)
             t == ProbeReleased(q, a)
  <1>1. Sound(r, attempt) /\ Holds(r, s) /\ NotClosed(r, s)
    BY RecoveredSound, RecoveredHolds
  <1>2. Sound(q, attempt) /\ NotClosed(q, r) /\ Holds(q, r)
    <2>1. r.throttled_until \in Nat /\ r.reset_at \in Resets /\ (r.exhausted => r.reset_at \in Nat)
      BY <1>1 DEF Sound, States, Resets
    <2> HIDE DEF r
    <2>2. QED  BY <1>1, <2>1, SentSound DEF Holds, ExhaustionHolds, WindowOver
  <1>3. Sound(t, attempt) /\ SameQuota(t, q) /\ NotClosed(t, q)
        /\ (t.circuit_state = "HALF_OPEN" => t.probe_token # a)
    BY <1>2, ReleasedSound
  <1>4. state' = t /\ attempt' = [attempt EXCEPT ![a] = Idle]
    BY DEF Finish, Ends
  <1> HIDE DEF r, q, t
  <1>5. Holds(t, q)
    BY <1>2, <1>3, SameHolds
  <1>6. Holds(t, s)
    <2>1. Holds(q, s)
      BY <1>1, <1>2, HoldsTransitive
    <2>2. QED  BY <1>2, <1>3, <1>5, <2>1, HoldsTransitive
  <1>7. NotClosed(t, s)
    BY <1>1, <1>2, <1>3 DEF NotClosed
  <1>8. \A b \in Attempts \ {a} : attempt'[b] = attempt[b]
    BY <1>4 DEF AttemptsType
  <1>9. Sound(t, attempt')
    BY <1>3, <1>8, OthersKeep
  <1>10. QED  BY <1>4, <1>6, <1>7, <1>9

-----------------------------------------------------------------------------
(* Benches of the models *)

StrikesType == [Models \cup {Provider} -> [count: 0..3, until: Nat]]

\* A refusal is counted, at most to three, and ends at some time.
LEMMA RefusalType ==
    ASSUME clock \in Nat, minute_strikes \in StrikesType,
           NEW key \in Models \cup {Provider}, NEW wait \in Nat
    PROVE  Refusal(key, wait) \in [count: 0..3, until: Nat]
  <1> DEFINE old == minute_strikes[key]
             stated == IF wait = 0 THEN MinuteWindow ELSE wait
             again == old.count > 0 /\ clock - old.until <= MinuteWindow
             count == IF ~again THEN 1 ELSE IF old.count = 3 THEN 3 ELSE old.count + 1
             hold == CASE count = 1 -> stated
                       [] count = 2 -> AtLeast(wait, MinuteWindow)
                       [] OTHER     -> AtLeast(AtLeast(wait, MinuteWindow), Cooldown)
  <1>1. old \in [count: 0..3, until: Nat] /\ old.count \in 0..3 /\ old.until \in Nat
    BY DEF StrikesType
  <1>2. stated \in Nat /\ count \in 0..3
    BY <1>1, ConstantFacts
  <1> HIDE DEF count
  <1>3. hold \in Nat
    BY <1>2, ConstantFacts DEF AtLeast
  <1>4. AtLeast(old.until, clock + stated) \in Nat /\ clock + hold \in Nat
    BY <1>1, <1>2, <1>3 DEF AtLeast
  <1>5. Refusal(key, wait) =
          IF old.count > 0 /\ clock < old.until
            THEN [old EXCEPT !.until = AtLeast(old.until, clock + stated)]
            ELSE [count |-> count, until |-> clock + hold]
    BY <1>1 DEF Refusal, count
  <1> HIDE DEF hold, stated
  <1>6. DEFINE u == AtLeast(old.until, clock + stated)
               v == clock + hold
  <1>7. u \in Nat /\ v \in Nat
    BY <1>4
  <1> HIDE DEF u, v
  <1>8. [old EXCEPT !.until = u] \in [count: 0..3, until: Nat]
        /\ [count |-> count, until |-> v] \in [count: 0..3, until: Nat]
    BY <1>1, <1>2, <1>7
  <1>9. QED  BY <1>5, <1>8 DEF u, v

\* How long a refusal benches its key is a time.
LEMMA ThrottleType ==
    ASSUME clock \in Nat, minute_strikes \in StrikesType,
           NEW key \in Models \cup {Provider}, NEW wait \in Nat, NEW per_minute \in BOOLEAN
    PROVE  /\ ThrottleUntil(key, wait, per_minute) \in Nat
           /\ StrikesAfter(key, wait, per_minute) \in StrikesType
           /\ \A k \in Models \cup {Provider} : k # key =>
                StrikesAfter(key, wait, per_minute)[k] = minute_strikes[k]
           /\ StrikesAfter(key, wait, per_minute)[key].until =
                IF per_minute THEN ThrottleUntil(key, wait, per_minute)
                              ELSE minute_strikes[key].until
  <1>1. clock + AtLeast(Cooldown, wait) \in Nat
    BY ConstantFacts DEF AtLeast
  <1>2. Refusal(key, wait) \in [count: 0..3, until: Nat]
    BY RefusalType
  <1>3. QED  BY <1>1, <1>2 DEF ThrottleUntil, StrikesAfter, StrikesType

\* A refusal that named no wait never outlasts its own model's bench.
StrikesWithinBenches == \A m \in Models : minute_strikes[m].until <= model_blocks[m]

\* Each attempt under way is for a model.
ModelsKnown == \A a \in Attempts : attempt[a].phase # "idle" => attempt[a].model \in Models

-----------------------------------------------------------------------------
(* The inductive invariant, and what every step does beside keeping it *)

GovInv ==
    /\ shared \in BOOLEAN
    /\ clock \in Nat
    /\ Sound(state, attempt)
    /\ model_blocks \in [Models -> Nat]
    /\ minute_strikes \in StrikesType
    /\ attempt \in AttemptsType
    /\ ModelsKnown
    /\ StrikesWithinBenches

\* The provider's state and the attempts after a step.
AttemptsKept ==
    /\ Sound(state', attempt')
    /\ attempt' \in AttemptsType
    /\ ModelsKnown'

\* The benches of the models after a step.
BenchesKept ==
    /\ model_blocks' \in [Models -> Nat]
    /\ minute_strikes' \in StrikesType
    /\ StrikesWithinBenches'
    /\ \A m \in Models : model_blocks'[m] >= model_blocks[m]

\* Only the slot's owner, ending, closes a circuit whose lease still runs.
ClosedByOwner ==
    state.circuit_state = "HALF_OPEN" /\ ~LeaseOver(state) /\ state'.circuit_state = "CLOSED" =>
        \E a \in Attempts : state.probe_token = a /\ attempt'[a] = Idle

\* A request goes out only while no bench of its model runs.
DispatchesHonour ==
    \A a \in Attempts : Dispatched(a) =>
        clock >= model_blocks[attempt'[a].model] /\ clock >= minute_strikes[attempt'[a].model].until

StepKept == AttemptsKept /\ Holds(state', state) /\ ClosedByOwner /\ DispatchesHonour

\* What does not concern the models' benches keeps them.
LEMMA BenchesUnchanged ==
    ASSUME GovInv, UNCHANGED <<model_blocks, minute_strikes>>
    PROVE  BenchesKept
  <1>1. \A m \in Models : model_blocks[m] \in Nat
    BY DEF GovInv
  <1>2. QED  BY <1>1 DEF GovInv, BenchesKept, StrikesWithinBenches

\* An answer forgets refusals; what it says of a model's allowance may bench it.
LEMMA BenchesAnswered ==
    ASSUME GovInv, NEW m \in Models, minute_strikes' = Answered(m),
           model_blocks' = model_blocks
             \/ \E until \in Nat : model_blocks' = Benched(m, until)
    PROVE  BenchesKept
  <1>1. \A k \in Models : model_blocks[k] \in Nat
    BY DEF GovInv
  <1>2. /\ model_blocks' \in [Models -> Nat]
        /\ \A k \in Models : model_blocks'[k] >= model_blocks[k]
    BY <1>1 DEF GovInv, Benched, AtLeast
  <1>3. /\ minute_strikes' \in StrikesType
        /\ \A k \in Models : minute_strikes'[k].until = 0
                             \/ minute_strikes'[k] = minute_strikes[k]
    <2>1. NoStrike \in [count: 0..3, until: Nat] /\ NoStrike.until = 0
      BY DEF NoStrike
    <2>2. minute_strikes \in StrikesType
      BY DEF GovInv
    <2>3. QED  BY <2>1, <2>2 DEF Answered, StrikesType
  <1>4. \A k \in Models : minute_strikes[k].until \in Nat
    BY DEF GovInv, StrikesType
  <1>5. StrikesWithinBenches'
    BY <1>1, <1>2, <1>3, <1>4 DEF GovInv, StrikesWithinBenches
  <1>6. QED  BY <1>2, <1>3, <1>5 DEF BenchesKept

\* A model benched for longer, its refusals not counted anew, is still benched.
LEMMA BenchesLengthened ==
    ASSUME GovInv, NEW m \in Models, NEW until \in Nat, model_blocks' = Benched(m, until),
           minute_strikes' = minute_strikes
    PROVE  BenchesKept
  <1>1. \A k \in Models : model_blocks[k] \in Nat /\ minute_strikes[k].until \in Nat
    BY DEF GovInv, StrikesType
  <1>2. /\ model_blocks' \in [Models -> Nat]
        /\ \A k \in Models : model_blocks'[k] >= model_blocks[k]
    BY <1>1 DEF GovInv, Benched, AtLeast
  <1>3. QED  BY <1>1, <1>2 DEF GovInv, BenchesKept, StrikesWithinBenches

\* A refusal benches its model for at least as long as the refusal is remembered.
LEMMA BenchesThrottled ==
    ASSUME GovInv, NEW m \in Models, NEW wait \in Nat, NEW per_minute \in BOOLEAN,
           model_blocks' = Benched(m, ThrottleUntil(m, wait, per_minute)),
           minute_strikes' = StrikesAfter(m, wait, per_minute)
    PROVE  BenchesKept
  <1> DEFINE u == ThrottleUntil(m, wait, per_minute)
  <1>1. \A k \in Models : model_blocks[k] \in Nat /\ minute_strikes[k].until \in Nat
    BY DEF GovInv, StrikesType
  <1>2. /\ u \in Nat /\ minute_strikes' \in StrikesType
        /\ \A k \in Models : k # m => minute_strikes'[k] = minute_strikes[k]
        /\ minute_strikes'[m].until = IF per_minute THEN u ELSE minute_strikes[m].until
    BY ThrottleType DEF GovInv
  <1> HIDE DEF u
  <1>3. model_blocks' = Benched(m, u)
    BY DEF u
  <1>4. /\ model_blocks' \in [Models -> Nat]
        /\ \A k \in Models : model_blocks'[k] >= model_blocks[k]
        /\ model_blocks'[m] >= u
    BY <1>1, <1>2, <1>3 DEF GovInv, Benched, AtLeast
  <1>5. \A k \in Models : minute_strikes[k].until <= model_blocks[k]
    BY DEF GovInv, StrikesWithinBenches
  <1>6. ASSUME NEW k \in Models PROVE minute_strikes'[k].until <= model_blocks'[k]
    BY <1>1, <1>2, <1>4, <1>5
  <1>7. QED  BY <1>2, <1>4, <1>6 DEF BenchesKept, StrikesWithinBenches

\* A refusal of the provider's is not one of a model's.
LEMMA BenchesProvider ==
    ASSUME GovInv, NEW wait \in Nat, NEW per_minute \in BOOLEAN,
           UNCHANGED model_blocks, minute_strikes' = StrikesAfter(Provider, wait, per_minute)
    PROVE  BenchesKept
  <1>1. /\ minute_strikes' \in StrikesType
        /\ \A k \in Models : minute_strikes'[k] = minute_strikes[k]
    BY ThrottleType, ConstantFacts DEF GovInv
  <1>2. \A k \in Models : model_blocks[k] \in Nat
    BY DEF GovInv
  <1>3. QED  BY <1>1, <1>2 DEF GovInv, BenchesKept, StrikesWithinBenches

\* What an attempt owns when it moves to another phase.
LEMMA BecomesType ==
    ASSUME attempt \in AttemptsType, NEW a \in Attempts, NEW phase \in Phases, Becomes(a, phase)
    PROVE  /\ attempt' \in AttemptsType
           /\ attempt'[a].phase = phase
           /\ attempt'[a].model = attempt[a].model
           /\ attempt'[a].local_window = attempt[a].local_window
           /\ attempt'[a].window = attempt[a].window
           /\ \A b \in Attempts \ {a} : attempt'[b] = attempt[b]
  <1>1. attempt[a] \in AttemptType
    BY DEF AttemptsType
  <1> DEFINE x == [attempt[a] EXCEPT !.phase = phase]
  <1>2. /\ x \in AttemptType /\ x.phase = phase /\ x.model = attempt[a].model
        /\ x.local_window = attempt[a].local_window /\ x.window = attempt[a].window
    BY <1>1 DEF AttemptType
  <1>3. attempt' = [attempt EXCEPT ![a] = x]
    BY DEF Becomes
  <1> HIDE DEF x
  <1>4. QED  BY <1>2, <1>3 DEF AttemptsType

\* An attempt that has ended is for no model.
LEMMA IdleType == Idle \in AttemptType /\ Idle.phase = "idle"
  BY DEF Idle, AttemptType, Phases, Resets

\* An attempt that ends keeps the invariant, if what it found out does.
LEMMA FinishKept ==
    ASSUME GovInv, NEW s, Sound(s, attempt), Holds(s, state), NEW a \in Attempts,
           OwnerOnly(s, state, a), Finish(s, a)
    PROVE  StepKept
  <1>1. clock \in Nat /\ attempt \in AttemptsType /\ Sound(state, attempt)
    BY DEF GovInv
  <1>2. /\ Sound(state', attempt')
        /\ attempt' = [attempt EXCEPT ![a] = Idle]
        /\ Holds(state', s) /\ NotClosed(state', s)
    BY <1>1, Finishing
  <1>3. /\ attempt' \in AttemptsType /\ attempt'[a] = Idle
        /\ \A b \in Attempts \ {a} : attempt'[b] = attempt[b]
    BY <1>1, <1>2, IdleType DEF AttemptsType
  <1>4. ModelsKnown'
    BY <1>3, IdleType DEF GovInv, ModelsKnown
  <1>5. Holds(state', state)
    BY <1>1, <1>2, HoldsTransitive
  <1>6. ClosedByOwner
    BY <1>2, <1>3 DEF ClosedByOwner, OwnerOnly, NotClosed
  <1>7. DispatchesHonour
    BY <1>3, IdleType DEF DispatchesHonour, Dispatched, In
  <1>8. QED  BY <1>2, <1>3, <1>4, <1>5, <1>6, <1>7 DEF StepKept, AttemptsKept

\* An attempt that waits for the ledger keeps the invariant likewise.
LEMMA WaitKept ==
    ASSUME GovInv, Sound(state', attempt), Holds(state', state), NotClosed(state', state),
           NEW a \in Attempts, attempt[a].phase # "idle",
           NEW phase \in Phases \ {"calling"}, Becomes(a, phase),
           state'.circuit_state = "HALF_OPEN" => state'.probe_token # a \/ phase \in InFlight
    PROVE  StepKept
  <1>1. attempt \in AttemptsType /\ phase \in Phases
    BY DEF GovInv
  <1>2. /\ attempt' \in AttemptsType
        /\ attempt'[a].phase = phase
        /\ attempt'[a].model = attempt[a].model
        /\ \A b \in Attempts \ {a} : attempt'[b] = attempt[b]
    BY <1>1, BecomesType
  <1>3. Sound(state', attempt')
    BY <1>2, OthersKeep
  <1>4. ModelsKnown'
    BY <1>2 DEF GovInv, ModelsKnown
  <1>5. ClosedByOwner
    BY DEF ClosedByOwner, NotClosed
  <1>6. DispatchesHonour
    BY <1>2 DEF DispatchesHonour, Dispatched, In
  <1>7. QED  BY <1>2, <1>3, <1>4, <1>5, <1>6 DEF StepKept, AttemptsKept

\* An attempt that ends without more ado keeps it, if it leaves the slot free.
LEMMA EndKept ==
    ASSUME GovInv, Sound(state', attempt), Holds(state', state), NotClosed(state', state),
           NEW a \in Attempts, Ends(a),
           state'.circuit_state = "HALF_OPEN" => state'.probe_token # a
    PROVE  StepKept
  <1>1. attempt \in AttemptsType
    BY DEF GovInv
  <1>2. /\ attempt' \in AttemptsType /\ attempt'[a] = Idle
        /\ \A b \in Attempts \ {a} : attempt'[b] = attempt[b]
    BY <1>1, IdleType DEF AttemptsType, Ends
  <1>3. Sound(state', attempt')
    BY <1>2, OthersKeep
  <1>4. ModelsKnown'
    BY <1>2, IdleType DEF GovInv, ModelsKnown
  <1>5. ClosedByOwner
    BY DEF ClosedByOwner, NotClosed
  <1>6. DispatchesHonour
    BY <1>2, IdleType DEF DispatchesHonour, Dispatched, In
  <1>7. QED  BY <1>2, <1>3, <1>4, <1>5, <1>6 DEF StepKept, AttemptsKept

\* What every operation starts from.
LEMMA RecoveredState ==
    ASSUME GovInv
    PROVE  /\ Sound(Recovered(state), attempt) /\ Holds(Recovered(state), state)
           /\ NotClosed(Recovered(state), state)
           /\ Sound(state, attempt) /\ Holds(state, state) /\ clock \in Nat
  <1>1. Sound(state, attempt) /\ clock \in Nat
    BY DEF GovInv
  <1>2. Holds(state, state)
    BY <1>1, SameHolds DEF SameQuota
  <1>3. QED  BY <1>1, <1>2, RecoveredSound, RecoveredHolds

-----------------------------------------------------------------------------
(* The actions, one lemma each *)

\* Time passing concerns nobody.
LEMMA TickKept == ASSUME GovInv, Tick PROVE StepKept /\ BenchesKept
  <1>1. AttemptsKept
    BY DEF GovInv, Tick, AttemptsKept, ModelsKnown
  <1>2. Holds(state', state)
    BY RecoveredState DEF Tick
  <1>3. ClosedByOwner /\ DispatchesHonour
    BY DEF Tick, ClosedByOwner, DispatchesHonour, Dispatched, In
  <1>4. BenchesKept
    BY BenchesUnchanged DEF Tick
  <1>5. QED  BY <1>1, <1>2, <1>3, <1>4 DEF StepKept

\* A look recovers and no more.
LEMMA LookKept == ASSUME GovInv, Look PROVE StepKept /\ BenchesKept
  <1>1. state' = Recovered(state) /\ attempt' = attempt
    BY DEF Look
  <1>2. AttemptsKept
    BY <1>1, RecoveredState DEF GovInv, AttemptsKept, ModelsKnown
  <1>3. Holds(state', state)
    BY <1>1, RecoveredState
  <1>4. ClosedByOwner /\ DispatchesHonour
    BY <1>1, RecoveredState DEF ClosedByOwner, DispatchesHonour, Dispatched, In, NotClosed
  <1>5. BenchesKept
    BY BenchesUnchanged DEF Look
  <1>6. QED  BY <1>2, <1>3, <1>4, <1>5 DEF StepKept

\* A reservation claims a free slot for itself, and finds its model unbenched.
LEMMA ReserveKept ==
    ASSUME GovInv, NEW a \in Attempts, NEW m \in Models, reserve_probe(a, m)
    PROVE  StepKept /\ BenchesKept
  <1> DEFINE r == Recovered(state)
             c == Claimed(r, a)
             t == IF shared THEN c ELSE Counted(c)
             x == [phase |-> IF shared THEN "reserving" ELSE "calling", model |-> m,
                   local_window |-> t.reset_at, window |-> t.window]
  <1>1. /\ state' = t /\ attempt' = [attempt EXCEPT ![a] = x] /\ AvailableLocal(r)
        /\ (shared \/ ModelAvailable(m))
    BY DEF reserve_probe
  <1>2. clock \in Nat /\ attempt \in AttemptsType /\ shared \in BOOLEAN
    BY DEF GovInv
  <1>3. /\ r.circuit_state # "HALF_OPEN" /\ ~r.exhausted
    BY <1>1 DEF AvailableLocal
  <1>4. Sound(r, attempt) /\ Holds(r, state)
    BY RecoveredState
  <1>5. /\ attempt'[a] = x /\ x.phase \in InFlight /\ x.model = m
        /\ \A b \in Attempts \ {a} : attempt'[b] = attempt[b]
    BY <1>1, <1>2 DEF AttemptsType, InFlight
  <1> HIDE DEF r
  <1>6. Sound(c, attempt') /\ SameQuota(c, r)
    BY <1>2, <1>3, <1>4, <1>5, ClaimedSound
  <1> HIDE DEF c
  <1>7. /\ Sound(t, attempt') /\ t.exhausted = r.exhausted
        /\ t.throttled_until = r.throttled_until
    BY <1>2, <1>6, CountedSound DEF SameQuota
  <1> HIDE DEF t
  <1>8. Holds(state', state)
    <2>1. r.throttled_until \in Nat
      BY <1>4 DEF Sound, States
    <2>2. Holds(t, r)
      BY <1>3, <1>7, <2>1 DEF Holds, ExhaustionHolds, WindowOver
    <2>3. Sound(state, attempt)
      BY DEF GovInv
    <2>4. QED  BY <1>1, <1>2, <1>4, <1>7, <2>2, <2>3, HoldsTransitive
  <1>9. t.reset_at \in Resets /\ t.window \in Nat
    BY <1>7 DEF Sound, States
  <1>10. x \in AttemptType
    BY <1>2, <1>9 DEF AttemptType, Phases
  <1> HIDE DEF x
  <1>11. attempt' \in AttemptsType
    BY <1>1, <1>2, <1>10 DEF AttemptsType
  <1>12. ModelsKnown'
    BY <1>5 DEF GovInv, ModelsKnown
  <1>13. ClosedByOwner
    <2>1. ASSUME state.circuit_state = "HALF_OPEN", ~LeaseOver(state) PROVE FALSE
      <3>1. r.circuit_state = state.circuit_state
        BY <1>2, <2>1, RecoveredSound DEF GovInv, r
      <3>2. QED  BY <1>3, <2>1, <3>1
    <2>2. QED  BY <2>1 DEF ClosedByOwner
  <1>14. DispatchesHonour
    <2>1. ASSUME ~shared PROVE clock >= model_blocks[m] /\ clock >= minute_strikes[m].until
      <3>1. model_blocks[m] \in Nat /\ minute_strikes[m].until \in Nat
            /\ minute_strikes[m].until <= model_blocks[m]
        BY DEF GovInv, StrikesType, StrikesWithinBenches
      <3>2. QED  BY <1>1, <1>2, <2>1, <3>1 DEF ModelAvailable
    <2>2. shared => x.phase = "reserving"
      BY DEF x
    <2>3. QED  BY <1>5, <2>1, <2>2 DEF DispatchesHonour, Dispatched, In
  <1>15. BenchesKept
    BY BenchesUnchanged DEF reserve_probe
  <1>16. QED
    BY <1>1, <1>7, <1>8, <1>11, <1>12, <1>13, <1>14, <1>15 DEF StepKept, AttemptsKept

\* A grant is used only if the model is still unbenched, and else given back.
LEMMA GrantedKept ==
    ASSUME GovInv, NEW a \in Attempts, Granted(a)
    PROVE  StepKept /\ BenchesKept
  <1>1. attempt[a].phase = "reserving" /\ attempt \in AttemptsType /\ clock \in Nat
    BY DEF Granted, In, GovInv
  <1>2. attempt[a].model \in Models
    BY <1>1 DEF GovInv, ModelsKnown
  <1>3. BenchesKept
    BY BenchesUnchanged DEF Granted
  <1>4. CASE ModelAvailable(attempt[a].model)
    <2>1. Becomes(a, "calling") /\ state' = state
      BY <1>4 DEF Granted
    <2>2. /\ attempt' \in AttemptsType
          /\ attempt'[a].phase = "calling" /\ attempt'[a].model = attempt[a].model
          /\ \A b \in Attempts \ {a} : attempt'[b] = attempt[b]
      <3>1. "calling" \in Phases
        BY DEF Phases
      <3>2. QED  BY <1>1, <2>1, <3>1, BecomesType
    <2>3. Sound(state', attempt')
      <3>1. Sound(state, attempt) /\ attempt'[a].phase \in InFlight
        BY <2>2, RecoveredState DEF InFlight
      <3>2. Sound(state, attempt')
        BY <2>2, <3>1, OthersKeep
      <3>3. QED  BY <2>1, <3>2
    <2>4. ModelsKnown'
      BY <1>2, <2>2 DEF GovInv, ModelsKnown
    <2>5. Holds(state', state)
      BY <2>1, RecoveredState
    <2>6. ClosedByOwner
      BY <2>1 DEF ClosedByOwner
    <2>7. DispatchesHonour
      <3> DEFINE m == attempt[a].model
      <3>1. model_blocks[m] \in Nat /\ minute_strikes[m].until \in Nat
            /\ minute_strikes[m].until <= model_blocks[m]
        BY <1>2 DEF GovInv, StrikesType, StrikesWithinBenches
      <3>2. clock >= model_blocks[m] /\ clock >= minute_strikes[m].until
        BY <1>1, <1>4, <3>1 DEF ModelAvailable
      <3>3. QED  BY <2>2, <3>2 DEF DispatchesHonour, Dispatched, In
    <2>8. QED  BY <1>3, <2>2, <2>3, <2>4, <2>5, <2>6, <2>7 DEF StepKept, AttemptsKept
  <1>5. CASE ~ModelAvailable(attempt[a].model)
    <2> DEFINE r == Recovered(state)
    <2>1. Becomes(a, "declining") /\ state' = ProbeReleased(r, a)
      BY <1>5 DEF Granted
    <2>2. Sound(r, attempt) /\ Holds(r, state) /\ NotClosed(r, state) /\ Sound(state, attempt)
      BY RecoveredState
    <2> HIDE DEF r
    <2>3. /\ Sound(state', attempt) /\ SameQuota(state', r) /\ NotClosed(state', r)
          /\ state'.circuit_state = "HALF_OPEN" => state'.probe_token # a
      BY <2>1, <2>2, ReleasedSound
    <2>4. Holds(state', r)
      BY <2>2, <2>3, SameHolds
    <2>5. Holds(state', state) /\ NotClosed(state', state)
      BY <1>1, <2>2, <2>3, <2>4, HoldsTransitive DEF NotClosed
    <2>6. "declining" \in Phases \ {"calling"}
      BY DEF Phases
    <2>7. StepKept
      BY <1>1, <2>1, <2>3, <2>5, <2>6, WaitKept
    <2>8. QED  BY <1>3, <2>7
  <1>6. QED  BY <1>4, <1>5

\* Refused, a reservation frees the slot it claimed.
LEMMA RefusedKept ==
    ASSUME GovInv, NEW a \in Attempts, Refused(a)
    PROVE  StepKept /\ BenchesKept
  <1>1. Sound(state, attempt) /\ state' = ProbeReleased(state, a) /\ Ends(a)
    BY RecoveredState DEF Refused
  <1>2. /\ Sound(state', attempt) /\ SameQuota(state', state) /\ NotClosed(state', state)
        /\ state'.circuit_state = "HALF_OPEN" => state'.probe_token # a
    BY <1>1, ReleasedSound
  <1>3. Holds(state', state)
    BY <1>1, <1>2, SameHolds
  <1>4. StepKept
    BY <1>1, <1>2, <1>3, EndKept
  <1>5. QED  BY <1>4, BenchesUnchanged DEF Refused

\* A declined grant freed the slot when it was declined.
LEMMA DeclinedKept ==
    ASSUME GovInv, NEW a \in Attempts, Declined(a)
    PROVE  StepKept /\ BenchesKept
  <1>1. /\ Sound(state, attempt) /\ state' = state /\ Ends(a) /\ Holds(state, state)
        /\ attempt[a].phase = "declining"
    BY RecoveredState DEF Declined, In
  <1>2. state.circuit_state = "HALF_OPEN" => state.probe_token # a
    BY <1>1 DEF Sound, OwnerInFlight, InFlight
  <1>3. StepKept
    BY <1>1, <1>2, EndKept DEF NotClosed
  <1>4. QED  BY <1>3, BenchesUnchanged DEF Declined

\* What an attempt goes by when its call is over: s is the state, or what its
\* reports made of it, with the same slot.
SameSlot(s) ==
    state.circuit_state = "HALF_OPEN" /\ ~LeaseOver(state) =>
        s.circuit_state = "HALF_OPEN" /\ ~LeaseOver(s) /\ s.probe_token = state.probe_token

\* Attempts past their reservation are for a model.
LEMMA ModelOfCall ==
    ASSUME GovInv, NEW a \in Attempts, NEW phases, In(a, phases), "idle" \notin phases
    PROVE  attempt[a].model \in Models /\ attempt[a].phase # "idle"
  BY DEF GovInv, ModelsKnown, In

\* A success closes the circuit only for the owner of its slot.
LEMMA SuccessKept ==
    ASSUME GovInv, NEW s, Sound(s, attempt), Holds(s, state), NotClosed(s, state), SameSlot(s),
           NEW a \in Attempts, success(s, a)
    PROVE  StepKept
  <1> DEFINE r == Recovered(s)
             t == Succeeded(r, a)
  <1>1. clock \in Nat /\ Sound(state, attempt) /\ Finish(t, a)
    BY DEF GovInv, success
  <1>2. Sound(r, attempt) /\ Holds(r, s)
    BY <1>1, RecoveredSound, RecoveredHolds
  <1>3. SameSlot(r)
    BY <1>1, RecoveredSound DEF SameSlot, LeaseOver
  <1> HIDE DEF r
  <1>4. Sound(t, attempt) /\ SameQuota(t, r) /\ (StaleOutcome(r, a) => t = r)
    BY <1>2, SucceededSound
  <1>5. Holds(t, r)
    BY <1>2, <1>4, SameHolds
  <1>6. Holds(r, state)
    BY <1>1, <1>2, HoldsTransitive
  <1>7. Holds(t, state)
    BY <1>1, <1>2, <1>4, <1>5, <1>6, HoldsTransitive
  <1>8. OwnerOnly(t, state, a)
    BY <1>3, <1>4 DEF OwnerOnly, SameSlot, StaleOutcome
  <1> HIDE DEF t
  <1>9. QED  BY <1>1, <1>4, <1>7, <1>8, FinishKept

\* An attempt's outcome may be taken in by any operation that keeps the state
\* sound, shortens no bench and closes no circuit.
LEMMA OutcomeKept ==
    ASSUME GovInv, NEW s, Sound(s, attempt), NEW r, r = Recovered(state), Holds(s, r),
           NotClosed(s, r), NEW a \in Attempts, Finish(s, a)
    PROVE  StepKept
  <1>1. Sound(r, attempt) /\ Holds(r, state) /\ NotClosed(r, state) /\ Sound(state, attempt)
        /\ clock \in Nat
    BY RecoveredState
  <1>2. Holds(s, state)
    BY <1>1, HoldsTransitive
  <1>3. OwnerOnly(s, state, a)
    BY <1>1 DEF OwnerOnly, NotClosed
  <1>4. QED  BY <1>2, <1>3, FinishKept

\* An answer that says nothing of the quota.
LEMMA PlainKept ==
    ASSUME GovInv, NEW a \in Attempts, AnsweredPlainly(a)
    PROVE  StepKept /\ BenchesKept
  <1>1. success(state, a) /\ attempt[a].model \in Models
    BY ModelOfCall DEF AnsweredPlainly
  <1>2. SameSlot(state) /\ NotClosed(state, state)
    BY DEF SameSlot, NotClosed
  <1>3. StepKept
    BY <1>1, <1>2, RecoveredState, SuccessKept
  <1>4. BenchesKept
    BY <1>1, BenchesAnswered DEF success, AnsweredPlainly
  <1>5. QED  BY <1>3, <1>4

\* An answer that reports a model's own allowance.
LEMMA ModelQuotaKept ==
    ASSUME GovInv, NEW a \in Attempts, NEW reset \in Resets, AnsweredWithModelQuota(a, reset)
    PROVE  StepKept /\ BenchesKept
  <1>1. success(state, a) /\ attempt[a].model \in Models
        /\ model_blocks' = Benched(attempt[a].model, ExhaustionReset(reset))
    BY ModelOfCall DEF AnsweredWithModelQuota
  <1>2. SameSlot(state) /\ NotClosed(state, state) /\ clock \in Nat
    BY DEF SameSlot, NotClosed, GovInv
  <1>3. StepKept
    BY <1>1, <1>2, RecoveredState, SuccessKept
  <1>4. ExhaustionReset(reset) \in Nat
    BY <1>2, ExhaustionAhead
  <1>5. BenchesKept
    BY <1>1, <1>4, BenchesAnswered DEF success
  <1>6. QED  BY <1>3, <1>5

\* An answer that reports the provider's quota, told to the ledger if there is one.
LEMMA QuotaKept ==
    ASSUME GovInv, NEW a \in Attempts, NEW remaining \in Nat, NEW reset \in Resets,
           AnsweredWithQuota(a, remaining, reset)
    PROVE  StepKept /\ BenchesKept
  <1> DEFINE r == Recovered(state)
             s == Observed(r, remaining, reset)
  <1>1. /\ attempt[a].phase = "calling" /\ model_blocks' = model_blocks
        /\ IF shared THEN state' = s /\ Becomes(a, "observing") /\ minute_strikes' = minute_strikes
                     ELSE success(s, a)
    BY DEF AnsweredWithQuota, In
  <1>2. /\ clock \in Nat /\ Sound(state, attempt) /\ attempt[a].model \in Models
    BY <1>1 DEF GovInv, ModelsKnown
  <1>3. Sound(r, attempt) /\ Holds(r, state) /\ NotClosed(r, state) /\ SameSlot(r)
    BY <1>2, RecoveredState, RecoveredSound DEF SameSlot, LeaseOver
  <1> HIDE DEF r
  <1>4. /\ Sound(s, attempt)
        /\ s.circuit_state = r.circuit_state /\ s.probe_token = r.probe_token
        /\ s.probe_until = r.probe_until /\ s.throttled_until = r.throttled_until
        /\ r.exhausted => s.exhausted = TRUE /\ s.reset_at >= r.reset_at
    BY <1>2, <1>3, ObservedSound
  <1> HIDE DEF s
  <1>5. Holds(s, r) /\ NotClosed(s, r)
    <2>1. r.throttled_until \in Nat /\ (r.exhausted => r.reset_at \in Nat)
          /\ (s.exhausted => s.reset_at \in Nat)
      BY <1>3, <1>4 DEF Sound, States, Resets
    <2>2. QED
      BY <1>2, <1>4, <2>1, ConstantFacts DEF Holds, ExhaustionHolds, WindowOver, NotClosed
  <1>6. Holds(s, state) /\ NotClosed(s, state) /\ SameSlot(s)
    <2>1. Holds(s, state)
      BY <1>2, <1>3, <1>4, <1>5, HoldsTransitive
    <2>2. NotClosed(s, state)
      BY <1>3, <1>5 DEF NotClosed
    <2>3. SameSlot(s)
      BY <1>3, <1>4 DEF SameSlot, LeaseOver
    <2>4. QED  BY <2>1, <2>2, <2>3
  <1>7. CASE shared
    <2>1. "observing" \in Phases \ {"calling"} /\ "observing" \in InFlight
      BY DEF Phases, InFlight
    <2>2. StepKept
      BY <1>1, <1>4, <1>6, <1>7, <2>1, WaitKept
    <2>3. QED  BY <1>1, <1>7, <2>2, BenchesUnchanged
  <1>8. CASE ~shared
    <2>1. StepKept
      BY <1>1, <1>4, <1>6, <1>8, SuccessKept
    <2>2. BenchesKept
      BY <1>1, <1>2, <1>8, BenchesAnswered DEF success
    <2>3. QED  BY <2>1, <2>2
  <1>9. QED  BY <1>7, <1>8

\* A rate limit of the provider's ends its probe and lengthens its throttle.
LEMMA ThrottleKept ==
    ASSUME GovInv, NEW a \in Attempts, NEW wait \in Nat, NEW per_minute \in BOOLEAN,
           throttle(a, wait, per_minute)
    PROVE  StepKept /\ BenchesKept
  <1> DEFINE r == Recovered(state)
             u == ThrottleUntil(Provider, wait, per_minute)
             s == Throttled(r, u)
  <1>1. Finish(s, a) /\ UNCHANGED model_blocks
        /\ minute_strikes' = StrikesAfter(Provider, wait, per_minute)
    BY DEF throttle
  <1>2. u \in Nat /\ Sound(r, attempt) /\ clock \in Nat
    BY ThrottleType, RecoveredState DEF GovInv
  <1>3. BenchesKept
    BY <1>1, BenchesProvider
  <1>4. r = Recovered(state)
    OBVIOUS
  <1> HIDE DEF r, u
  <1>5. /\ Sound(s, attempt) /\ NotClosed(s, r)
        /\ s.exhausted = r.exhausted /\ s.reset_at = r.reset_at
        /\ s.throttled_until >= r.throttled_until
    BY <1>2, ThrottledSound
  <1> HIDE DEF s
  <1>6. Holds(s, r)
    <2>1. r.exhausted => r.reset_at \in Nat
      BY <1>2 DEF Sound, States, Resets
    <2>2. QED  BY <1>5, <2>1 DEF Holds, ExhaustionHolds, WindowOver
  <1>7. StepKept
    BY <1>1, <1>4, <1>5, <1>6, OutcomeKept
  <1>8. QED  BY <1>3, <1>7

\* A rate limit of one model's benches that model alone.
LEMMA ModelThrottleKept ==
    ASSUME GovInv, NEW a \in Attempts, NEW wait \in Nat, NEW per_minute \in BOOLEAN,
           throttle_model(a, wait, per_minute)
    PROVE  StepKept /\ BenchesKept
  <1>1. Finish(state, a) /\ attempt[a].model \in Models
        /\ model_blocks' = Benched(attempt[a].model,
                                   ThrottleUntil(attempt[a].model, wait, per_minute))
        /\ minute_strikes' = StrikesAfter(attempt[a].model, wait, per_minute)
    BY ModelOfCall DEF throttle_model
  <1>2. OwnerOnly(state, state, a)
    BY DEF OwnerOnly
  <1>3. StepKept
    BY <1>1, <1>2, RecoveredState, FinishKept
  <1>4. BenchesKept
    BY <1>1, BenchesThrottled
  <1>5. QED  BY <1>3, <1>4

\* A refusal for a spent quota leaves the provider exhausted, until a later time.
LEMMA ExhaustKept ==
    ASSUME GovInv, NEW a \in Attempts, NEW reset \in ReportedResets \cup {NoReset},
           exhaust(a, reset)
    PROVE  StepKept /\ BenchesKept
  <1> DEFINE r == Recovered(state)
             s == Exhausted(r, reset)
  <1>1. /\ attempt[a].phase = "calling"
        /\ IF shared THEN state' = s /\ Becomes(a, "exhausting") ELSE Finish(s, a)
    BY DEF exhaust, In
  <1>2. Sound(r, attempt) /\ Holds(r, state) /\ NotClosed(r, state) /\ clock \in Nat
        /\ Sound(state, attempt)
    BY RecoveredState
  <1>3. r = Recovered(state)
    OBVIOUS
  <1> HIDE DEF r
  <1>10. reset \in Resets
    BY GovernorAssumption DEF Resets
  <1>11. ExhaustAnswered
    BY DEF ExhaustAnswered
  <1>4. /\ Sound(s, attempt) /\ NotClosed(s, r)
        /\ s.throttled_until = r.throttled_until /\ s.exhausted = TRUE
        /\ s.reset_at \in Nat /\ s.reset_at > clock
        /\ s.circuit_state # "HALF_OPEN"
    BY <1>2, <1>10, ExhaustedSound, ExhaustionAhead
  <1> HIDE DEF s
  <1>5. Holds(s, r)
    <2>1. r.throttled_until \in Nat /\ (r.exhausted => r.reset_at # NoReset)
      BY <1>2 DEF Sound, States
    <2>2. QED  BY <1>1, <1>2, <1>4, <1>11, <2>1 DEF Holds, ExhaustionHolds, WindowOver
  <1>6. BenchesKept
    BY BenchesUnchanged DEF exhaust
  <1>7. CASE shared
    <2>1. "exhausting" \in Phases \ {"calling"}
      BY DEF Phases
    <2>2. Holds(s, state)
      BY <1>2, <1>4, <1>5, HoldsTransitive
    <2>3. NotClosed(s, state)
      BY <1>2, <1>4 DEF NotClosed
    <2>4. StepKept
      BY <1>1, <1>4, <1>7, <2>1, <2>2, <2>3, WaitKept
    <2>5. QED  BY <1>6, <2>4
  <1>8. CASE ~shared
    BY <1>1, <1>3, <1>4, <1>5, <1>6, <1>8, OutcomeKept
  <1>9. QED  BY <1>7, <1>8

\* An exhausted model is benched until its reset.
LEMMA ModelExhaustKept ==
    ASSUME GovInv, NEW a \in Attempts, NEW reset \in Resets, exhaust_model(a, reset)
    PROVE  StepKept /\ BenchesKept
  <1>1. Finish(state, a) /\ attempt[a].model \in Models /\ minute_strikes' = minute_strikes
        /\ model_blocks' = Benched(attempt[a].model, ExhaustionReset(reset))
    BY ModelOfCall DEF exhaust_model
  <1>2. OwnerOnly(state, state, a) /\ clock \in Nat
    BY DEF OwnerOnly, GovInv
  <1>3. StepKept
    BY <1>1, <1>2, RecoveredState, FinishKept
  <1>4. ExhaustionReset(reset) \in Nat
    BY <1>2, ExhaustionAhead
  <1>5. BenchesKept
    BY <1>1, <1>4, BenchesLengthened
  <1>6. QED  BY <1>3, <1>5

\* A refund lowers the count and nothing else; one of another window is lost to it.
LEMMA RefundedSound ==
    ASSUME NEW att, NEW s, Sound(s, att), NEW a \in Attempts
    PROVE  LET t == GivenBack(s, a) IN
           /\ Sound(t, att) /\ NotClosed(t, s)
           /\ t.exhausted = s.exhausted /\ t.reset_at = s.reset_at
           /\ t.window = s.window /\ t.sent = s.sent /\ t.throttled_until = s.throttled_until
           /\ t.circuit_state = s.circuit_state /\ t.probe_token = s.probe_token
           /\ t.regular = s.regular
           /\ IF Refundable(s, a) THEN t.used = Refunded(s.used) ELSE t.used = s.used
           /\ IF Refundable(s, a) /\ attempt[a].window # s.window
                THEN t.lost = s.lost + (s.used - Refunded(s.used)) ELSE t.lost = s.lost
  <1> DEFINE n == Refunded(s.used)
             l == IF attempt[a].window = s.window THEN s.lost ELSE s.lost + (s.used - n)
             t == [s EXCEPT !.used = n, !.lost = l]
             g == GivenBack(s, a)
  <1>1. s \in States /\ s.used \in Nat /\ s.lost \in Nat
    BY DEF Sound, States
  <1>2. n \in Nat /\ n <= s.used
    BY <1>1 DEF Refunded, AtLeast
  <1>3. l \in Nat
    BY <1>1, <1>2
  <1>4. g = IF Refundable(s, a) THEN t ELSE s
    BY <1>1 DEF GivenBack, States
  <1>5. l = IF attempt[a].window = s.window THEN s.lost ELSE s.lost + (s.used - n)
    OBVIOUS
  <1> HIDE DEF n, l, g
  <1>6. t \in States
    BY <1>1, <1>2, <1>3 DEF States
  <1>7. /\ t.used = n /\ t.exhausted = s.exhausted /\ t.reset_at = s.reset_at
        /\ t.window = s.window /\ t.sent = s.sent /\ t.throttled_until = s.throttled_until
        /\ t.circuit_state = s.circuit_state /\ t.probe_token = s.probe_token
        /\ t.failures = s.failures /\ t.lost = l /\ t.regular = s.regular
    BY <1>1 DEF States
  <1> HIDE DEF t
  <1>8. Sound(t, att) /\ NotClosed(t, s) /\ NotClosed(s, s)
    BY <1>6, <1>7 DEF Sound, OwnerInFlight, NotClosed
  <1>9. CASE Refundable(s, a)
    <2>1. g = t
      BY <1>4, <1>9
    <2>2. QED  BY <1>5, <1>7, <1>8, <1>9, <2>1 DEF g, n
  <1>10. CASE ~Refundable(s, a)
    <2>1. g = s
      BY <1>4, <1>10
    <2>2. QED  BY <1>8, <1>10, <2>1 DEF g
  <1>11. QED  BY <1>9, <1>10

\* A request that was not sent gives back its slot, then its count.
LEMMA NotSentKept ==
    ASSUME GovInv, NEW a \in Attempts, NotSent(a)
    PROVE  StepKept /\ BenchesKept
  <1> DEFINE r == Recovered(state)
             s == ProbeReleased(r, a)
             t == GivenBack(s, a)
  <1>1. /\ attempt[a].phase = "calling"
        /\ IF shared THEN state' = s /\ Becomes(a, "releasing")
                     ELSE state' = t /\ Ends(a)
    BY DEF NotSent, In
  <1>2. Sound(r, attempt) /\ Holds(r, state) /\ NotClosed(r, state) /\ clock \in Nat
        /\ Sound(state, attempt)
    BY RecoveredState
  <1> HIDE DEF r
  <1>3. /\ Sound(s, attempt) /\ SameQuota(s, r) /\ NotClosed(s, r)
        /\ s.circuit_state = "HALF_OPEN" => s.probe_token # a
    BY <1>2, ReleasedSound
  <1>4. Holds(s, r)
    BY <1>2, <1>3, SameHolds
  <1>5. Holds(s, state) /\ NotClosed(s, state)
    BY <1>2, <1>3, <1>4, HoldsTransitive DEF NotClosed
  <1> HIDE DEF s
  <1>6. /\ Sound(t, attempt) /\ NotClosed(t, s)
        /\ t.exhausted = s.exhausted /\ t.reset_at = s.reset_at
        /\ t.throttled_until = s.throttled_until
        /\ t.circuit_state = s.circuit_state /\ t.probe_token = s.probe_token
    BY <1>3, RefundedSound
  <1> HIDE DEF t
  <1>7. Holds(t, s)
    <2>1. s.throttled_until \in Nat /\ (s.exhausted => s.reset_at \in Nat)
      BY <1>3 DEF Sound, States, Resets
    <2>2. QED  BY <1>6, <2>1 DEF Holds, ExhaustionHolds, WindowOver
  <1>8. Holds(t, state) /\ NotClosed(t, state)
    BY <1>2, <1>3, <1>5, <1>6, <1>7, HoldsTransitive DEF NotClosed
  <1>9. BenchesKept
    BY BenchesUnchanged DEF NotSent
  <1>10. CASE shared
    <2>1. "releasing" \in Phases \ {"calling"}
      BY DEF Phases
    <2>2. StepKept
      BY <1>1, <1>3, <1>5, <1>10, <2>1, WaitKept
    <2>3. QED  BY <1>9, <2>2
  <1>11. CASE ~shared
    <2>1. StepKept
      BY <1>1, <1>3, <1>5, <1>6, <1>8, <1>11, EndKept
    <2>2. QED  BY <1>9, <2>1
  <1>12. QED  BY <1>10, <1>11

\* An attempt without a verdict only ends.
LEMMA NoVerdictKept ==
    ASSUME GovInv, NEW a \in Attempts, NoVerdict(a)
    PROVE  StepKept /\ BenchesKept
  <1>1. Finish(state, a) /\ OwnerOnly(state, state, a)
    BY DEF NoVerdict, OwnerOnly
  <1>2. StepKept
    BY <1>1, RecoveredState, FinishKept
  <1>3. QED  BY <1>2, BenchesUnchanged DEF NoVerdict

\* A violation blocks the provider and ends the attempt.
LEMMA BlockKept ==
    ASSUME GovInv, NEW a \in Attempts, block_security(a)
    PROVE  StepKept /\ BenchesKept
  <1> DEFINE r == Recovered(state)
             s == [r EXCEPT !.security_blocked = TRUE]
  <1>1. Finish(s, a) /\ Sound(r, attempt) /\ r = Recovered(state)
    BY RecoveredState DEF block_security
  <1> HIDE DEF r
  <1>2. Sound(s, attempt) /\ SameQuota(s, r) /\ NotClosed(s, r)
    BY <1>1, BlockedSound
  <1> HIDE DEF s
  <1>3. Holds(s, r)
    BY <1>1, <1>2, SameHolds
  <1>4. StepKept
    BY <1>1, <1>2, <1>3, OutcomeKept
  <1>5. QED  BY <1>4, BenchesUnchanged DEF block_security

\* A failure is counted and ends the attempt.
LEMMA FailureKept ==
    ASSUME GovInv, NEW a \in Attempts, failure(a)
    PROVE  StepKept /\ BenchesKept
  <1> DEFINE r == Recovered(state)
             s == Failed(r, a)
  <1>1. Finish(s, a) /\ Sound(r, attempt) /\ r = Recovered(state) /\ clock \in Nat
    BY RecoveredState DEF failure
  <1> HIDE DEF r
  <1>2. Sound(s, attempt) /\ SameQuota(s, r) /\ NotClosed(s, r)
    BY <1>1, FailedSound
  <1> HIDE DEF s
  <1>3. Holds(s, r)
    BY <1>1, <1>2, SameHolds
  <1>4. StepKept
    BY <1>1, <1>2, <1>3, OutcomeKept
  <1>5. QED  BY <1>4, BenchesUnchanged DEF failure

\* However an attempt's call ends.
LEMMA OutcomesKept ==
    ASSUME GovInv, NEW a \in Attempts, Outcome(a)
    PROVE  StepKept /\ BenchesKept
  <1>1. /\ \A reset \in ReportedResets \cup {NoReset} : reset \in Resets
        /\ \A wait \in Waits : wait \in Nat
        /\ \A remaining \in 0..1 : remaining \in Nat
    BY GovernorAssumption DEF Resets
  <1>2. CASE AnsweredPlainly(a) \/ NotSent(a) \/ NoVerdict(a) \/ block_security(a) \/ failure(a)
    BY <1>2, PlainKept, NotSentKept, NoVerdictKept, BlockKept, FailureKept
  <1>3. ASSUME NEW reset \in ReportedResets \cup {NoReset},
               \/ AnsweredWithModelQuota(a, reset) \/ exhaust(a, reset)
               \/ exhaust_model(a, reset)
        PROVE  StepKept /\ BenchesKept
    BY <1>1, <1>3, ModelQuotaKept, ExhaustKept, ModelExhaustKept
  <1>4. ASSUME NEW reset \in ReportedResets \cup {NoReset}, NEW remaining \in 0..1,
               AnsweredWithQuota(a, remaining, reset)
        PROVE  StepKept /\ BenchesKept
    BY <1>1, <1>4, QuotaKept
  <1>5. ASSUME NEW wait \in Waits, NEW per_minute \in BOOLEAN,
               throttle(a, wait, per_minute) \/ throttle_model(a, wait, per_minute)
        PROVE  StepKept /\ BenchesKept
    BY <1>1, <1>5, ThrottleKept, ModelThrottleKept
  <1>6. QED  BY <1>2, <1>3, <1>4, <1>5 DEF Outcome

-----------------------------------------------------------------------------
(* Every step *)

\* What a step may not do; the throttle may be lifted and the circuit closed
\* where no attempt ends, which is what the operator's resumption looks like.
StepAllowed ==
    /\ AttemptsKept /\ BenchesKept /\ DispatchesHonour
    /\ ClosedByOwner \/ attempt' = attempt
    /\ state'.throttled_until >= state.throttled_until \/ attempt' = attempt
    /\ ExhaustionHolds(state', state)

\* A step of an attempt, or of nobody, is allowed.
LEMMA KeptAllowed == ASSUME StepKept, BenchesKept PROVE StepAllowed
  BY DEF StepKept, StepAllowed, Holds

\* The operator lifts the throttle and closes the circuit; he ends no exhaustion.
LEMMA ResumedAllowed == ASSUME GovInv, unblock_security PROVE StepAllowed
  <1> DEFINE r == Recovered(state)
             s == Resumed(r)
  <1>1. state' = s /\ attempt' = attempt
    BY DEF unblock_security
  <1>2. Sound(r, attempt) /\ Holds(r, state)
    BY RecoveredState
  <1> HIDE DEF r
  <1>3. Sound(s, attempt) /\ s.exhausted = r.exhausted /\ s.reset_at = r.reset_at
    BY <1>2, ResumedSound
  <1> HIDE DEF s
  <1>4. AttemptsKept
    BY <1>1, <1>3 DEF GovInv, AttemptsKept, ModelsKnown
  <1>5. DispatchesHonour
    BY <1>1 DEF DispatchesHonour, Dispatched, In
  <1>6. BenchesKept
    BY BenchesUnchanged DEF unblock_security
  <1>7. QED  BY <1>1, <1>2, <1>3, <1>4, <1>5, <1>6
    DEF StepAllowed, Holds, ExhaustionHolds, WindowOver

\* Nothing happening is allowed.
LEMMA StutterAllowed == ASSUME GovInv, UNCHANGED vars PROVE StepAllowed
  <1>1. AttemptsKept /\ DispatchesHonour
    BY DEF GovInv, vars, AttemptsKept, ModelsKnown, DispatchesHonour, Dispatched, In
  <1>2. BenchesKept
    BY BenchesUnchanged DEF vars
  <1>3. Holds(state', state) /\ attempt' = attempt
    BY RecoveredState DEF vars
  <1>4. QED  BY <1>1, <1>2, <1>3 DEF StepAllowed, Holds

\* Every step is allowed.
LEMMA StepsAllowed == ASSUME GovInv, [Next]_vars PROVE StepAllowed
  <1>1. CASE Tick
    BY <1>1, TickKept, KeptAllowed
  <1>2. CASE Look
    BY <1>2, LookKept, KeptAllowed
  <1>3. CASE unblock_security
    BY <1>3, ResumedAllowed
  <1>4. ASSUME NEW a \in Attempts, NEW m \in Models, reserve_probe(a, m) PROVE StepAllowed
    BY <1>4, ReserveKept, KeptAllowed
  <1>5. ASSUME NEW a \in Attempts, Granted(a) \/ Refused(a) \/ Declined(a) PROVE StepAllowed
    BY <1>5, GrantedKept, RefusedKept, DeclinedKept, KeptAllowed
  <1>6. ASSUME NEW a \in Attempts, Outcome(a) PROVE StepAllowed
    BY <1>6, OutcomesKept, KeptAllowed
  <1>7. CASE UNCHANGED vars
    BY <1>7, StutterAllowed
  <1>8. QED  BY <1>1, <1>2, <1>3, <1>4, <1>5, <1>6, <1>7 DEF Next

\* The ledger is configured for good; clocks only tick.
LEMMA SharedAndClock ==
    ASSUME GovInv, [Next]_vars
    PROVE  shared' = shared /\ (clock' = clock \/ Tick)
  <1>1. \A a \in Attempts : Outcome(a) => shared' = shared /\ clock' = clock
    BY DEF Outcome, AnsweredPlainly, NotSent, NoVerdict, block_security, failure,
           AnsweredWithModelQuota, exhaust, exhaust_model, AnsweredWithQuota, throttle,
           throttle_model, success
  <1>2. QED
    BY <1>1 DEF Next, vars, Tick, Look, unblock_security, reserve_probe, Granted, Refused, Declined

\* The invariant holds at first.
LEMMA GovInit == Init => GovInv
  <1> SUFFICES ASSUME Init PROVE GovInv
    OBVIOUS
  <1>1. /\ shared \in BOOLEAN /\ clock = 0
        /\ model_blocks = [m \in Models |-> 0]
        /\ minute_strikes = [k \in Models \cup {Provider} |-> NoStrike]
        /\ attempt = [a \in Attempts |-> Idle]
    BY DEF Init
  <1>2. state \in States /\ state.circuit_state = "CLOSED" /\ state.failures = <<>>
        /\ ~state.exhausted
    BY DEF Init, States, Circuits, Resets
  <1>3. Sound(state, attempt)
    BY <1>2, ConstantFacts DEF Sound, OwnerInFlight
  <1>4. minute_strikes \in StrikesType /\ StrikesWithinBenches
    BY <1>1 DEF StrikesType, NoStrike, StrikesWithinBenches
  <1>5. attempt \in AttemptsType /\ ModelsKnown
    BY <1>1, IdleType DEF AttemptsType, ModelsKnown
  <1>6. QED  BY <1>1, <1>3, <1>4, <1>5 DEF GovInv

\* Every step keeps the invariant.
LEMMA GovNext == GovInv /\ [Next]_vars => GovInv'
  <1> SUFFICES ASSUME GovInv, [Next]_vars PROVE GovInv'
    OBVIOUS
  <1>1. AttemptsKept /\ BenchesKept
    BY StepsAllowed DEF StepAllowed
  <1>2. shared' \in BOOLEAN /\ clock' \in Nat
    BY SharedAndClock DEF GovInv, Tick
  <1>3. QED  BY <1>1, <1>2 DEF GovInv, AttemptsKept, BenchesKept

\* Whatever the governor holds of its provider, the invariant is true of it.
LEMMA Invariance == Spec => []GovInv
  <1>1. QED  BY GovInit, GovNext, PTL DEF Spec

-----------------------------------------------------------------------------
(* The properties *)

\* The variables keep their types, and a half-open slot has a token.
THEOREM GovernorTypes == Spec => []TypeOK
  <1>1. GovInv => TypeOK
    BY ConstantFacts DEF GovInv, Sound, OwnerInFlight, TypeOK, StrikesType, AttemptsType,
       AttemptType
  <1>2. QED  BY <1>1, Invariance, PTL

\* However an attempt ends (cancelled waiting for the ledger, refused, benched
\* meanwhile, a defect), a half-open slot is owned by one in flight; and a
\* closed circuit holds fewer failures than open it.
THEOREM CircuitIsConsistent == Spec => []CircuitConsistent
  <1>1. GovInv => CircuitConsistent
    BY DEF GovInv, Sound, OwnerInFlight, InFlight, In, CircuitConsistent
  <1>2. QED  BY <1>1, Invariance, PTL

\* A late reply of an attempt that does not own the half-open slot never closes
\* the circuit while the probe's lease runs.
THEOREM OwnerCloses == Spec => OnlyOwnerCloses
  <1> DEFINE A == state.circuit_state = "HALF_OPEN" /\ ~LeaseOver(state)
                  /\ state'.circuit_state = "CLOSED" =>
                    attempt' = attempt
                      \/ \E a \in Attempts : state.probe_token = a /\ attempt'[a] = Idle
  <1>1. GovInv /\ [Next]_vars => A
    BY StepsAllowed DEF StepAllowed, ClosedByOwner
  <1>2. QED  BY <1>1, Invariance, PTL DEF Spec, OnlyOwnerCloses

\* No request is dispatched to a model on its bench, though the bench may have
\* begun after the model was selected and while the ledger's grant was awaited.
THEOREM DispatchHonours == Spec => DispatchHonoursBench
  <1> DEFINE A == \A a \in Attempts : Dispatched(a) =>
                    LET m == attempt'[a].model
                    IN clock >= model_blocks[m] /\ clock >= minute_strikes[m].until
  <1>1. GovInv /\ [Next]_vars => A
    BY StepsAllowed DEF StepAllowed, DispatchesHonour
  <1>2. QED  BY <1>1, Invariance, PTL DEF Spec, DispatchHonoursBench

\* Whatever outcomes arrive, in any order, shorten no model's bench and no
\* throttle, and lift no exhaustion before the reset on record has come; what moves
\* that reset to an earlier time is another refusal, and nothing else.
THEOREM BenchesHold == Spec => BenchesNeverShortened
  <1> DEFINE A == /\ \A m \in Models : model_blocks'[m] >= model_blocks[m]
                  /\ state'.throttled_until < state.throttled_until => attempt' = attempt
                  /\ state.exhausted /\ ~WindowOver(state) =>
                       /\ state'.exhausted /\ clock < state'.reset_at
                       /\ state'.reset_at >= state.reset_at \/ ExhaustAnswered
  <1>1. ASSUME GovInv, [Next]_vars PROVE A
    <2>1. StepAllowed
      BY <1>1, StepsAllowed
    <2>2. state.throttled_until \in Nat /\ state'.throttled_until \in Nat
      BY <1>1, <2>1 DEF GovInv, StepAllowed, AttemptsKept, Sound, States
    <2>3. clock \in Nat /\ (state'.exhausted => state'.reset_at \in Nat)
      BY <1>1, <2>1 DEF GovInv, StepAllowed, AttemptsKept, Sound, States, Resets
    <2>4. ASSUME state.exhausted, ~WindowOver(state)
          PROVE  /\ state'.exhausted /\ clock < state'.reset_at
                 /\ state'.reset_at >= state.reset_at \/ ExhaustAnswered
      <3>1. ExhaustionHolds(state', state)
        BY <2>1 DEF StepAllowed
      <3>2. QED  BY <2>3, <2>4, <3>1, ConstantFacts DEF ExhaustionHolds, WindowOver
    <2>5. /\ \A m \in Models : model_blocks'[m] >= model_blocks[m]
          /\ state'.throttled_until < state.throttled_until => attempt' = attempt
      BY <2>1, <2>2 DEF StepAllowed, BenchesKept
    <2>6. QED  BY <2>4, <2>5
  <1>2. QED  BY <1>1, Invariance, PTL DEF Spec, BenchesNeverShortened

-----------------------------------------------------------------------------
(* Without a ledger, the local counter and the provider's limit *)

\* The calls out that were counted in the window of s.
CallsInWindow(s, att) == {b \in Attempts : att[b].phase = "calling" /\ att[b].window = s.window}

\* A call out was counted in this window or in an earlier one; what tells them
\* apart, while no reset moved to an earlier time, is the reset it was counted
\* under, which a later window has behind it.
CallTimed(s, call, now) ==
    /\ call.local_window \in Nat /\ call.window <= s.window
    /\ call.window = s.window =>
          s.reset_at # NoReset /\ (s.regular => call.local_window <= s.reset_at)
    /\ call.window # s.window /\ s.regular => call.local_window <= now

CallsTimed(s, att, now) ==
    \A b \in Attempts : att[b].phase = "calling" => CallTimed(s, att[b], now)

\* The count covers n requests, but for what was lost; and nothing is lost unless
\* a reset moved to an earlier time.
Covers(s, n) ==
    /\ s.sent + n <= s.used + s.lost
    /\ s.used <= Limit
    /\ s.regular => s.lost = 0

Local(s, att, now) ==
    /\ \A b \in Attempts : att[b].phase \in {"idle", "calling"}
    /\ CallsTimed(s, att, now)
    /\ Covers(s, Cardinality(CallsInWindow(s, att)))

\* Where the local counter is what counts.
LocalCase == ~shared /\ Limit # NoLimit

LocalInv == LocalCase => Local(state, attempt, clock)

\* The same window, whose count was not lowered; its reset may have moved earlier.
SameWindow(t, s) ==
    /\ t.window = s.window /\ t.sent = s.sent /\ t.used >= s.used /\ t.used <= Limit
    /\ t.lost = s.lost /\ (t.regular => s.regular)
    /\ s.reset_at # NoReset =>
          t.reset_at # NoReset /\ (t.regular => t.reset_at >= s.reset_at)

\* A limit is a number; calls out are finitely many.
LEMMA LimitAndCalls ==
    ASSUME Limit # NoLimit, NEW s, NEW att
    PROVE  /\ Limit \in Nat
           /\ IsFiniteSet(CallsInWindow(s, att)) /\ Cardinality(CallsInWindow(s, att)) \in Nat
  <1>1. Limit \in Nat /\ IsFiniteSet(Attempts)
    BY GovernorAssumption
  <1>2. CallsInWindow(s, att) \subseteq Attempts
    BY DEF CallsInWindow
  <1>3. QED  BY <1>1, <1>2, FS_Subset, FS_CardinalityType

\* What keeps the window keeps the count right.
LEMMA LocalMoved ==
    ASSUME LocalCase, clock \in Nat, NEW att, NEW s, Sound(s, att), Local(s, att, clock),
           NEW t, Sound(t, att), SameWindow(t, s)
    PROVE  Local(t, att, clock)
  <1>1. /\ s.used \in Nat /\ t.used \in Nat /\ s.sent \in Nat /\ s.window \in Nat
        /\ s.reset_at \in Resets /\ t.reset_at \in Resets /\ s.lost \in Nat
    BY DEF Sound, States
  <1>2. CallsInWindow(t, att) = CallsInWindow(s, att)
    BY DEF CallsInWindow, SameWindow
  <1>3. Cardinality(CallsInWindow(s, att)) \in Nat /\ Limit \in Nat
    BY LimitAndCalls DEF LocalCase
  <1>4. CallsTimed(t, att, clock)
    BY <1>1 DEF Local, CallsTimed, CallTimed, SameWindow, Resets
  <1>5. Covers(t, Cardinality(CallsInWindow(t, att)))
    BY <1>1, <1>2, <1>3 DEF Local, Covers, SameWindow
  <1>6. QED  BY <1>4, <1>5 DEF Local

\* What leaves the quota alone keeps the window.
LEMMA SameQuotaSameWindow ==
    ASSUME NEW att, NEW s, Sound(s, att), Local(s, att, clock), NEW t, SameQuota(t, s)
    PROVE  SameWindow(t, s)
  BY DEF Sound, States, Local, Covers, SameQuota, SameWindow, Resets

\* Once a window is over, the calls counted in it are of an earlier one.
LEMMA LocalRecovered ==
    ASSUME LocalCase, clock \in Nat, NEW att \in AttemptsType, NEW s, Sound(s, att),
           Local(s, att, clock)
    PROVE  /\ Local(Recovered(s), att, clock)
           /\ ~WindowOver(Recovered(s))
  <1> DEFINE t == Recovered(s)
  <1>1. /\ Sound(t, att) /\ t.regular = s.regular
        /\ IF WindowOver(s)
             THEN t.used = 0 /\ t.exhausted = FALSE /\ t.reset_at = NoReset
                  /\ t.window = s.window + 1 /\ t.sent = 0 /\ t.lost = 0
             ELSE t.used = s.used /\ t.exhausted = s.exhausted /\ t.reset_at = s.reset_at
                  /\ t.window = s.window /\ t.sent = s.sent /\ t.lost = s.lost
    <2>1. ~shared
      BY DEF LocalCase
    <2>2. QED  BY <2>1, RecoveredSound
  <1>2. /\ s.used \in Nat /\ s.sent \in Nat /\ s.window \in Nat /\ s.reset_at \in Resets
    BY DEF Sound, States
  <1> HIDE DEF t
  <1>3. ~WindowOver(t)
    BY <1>1 DEF WindowOver
  <1>4. CASE WindowOver(s)
    <2>1. \A b \in Attempts : att[b].phase = "calling" => att[b].window # t.window
      BY <1>1, <1>2, <1>4 DEF Local, CallsTimed, CallTimed, AttemptsType, AttemptType
    <2>2. CallsInWindow(t, att) = {}
      BY <2>1 DEF CallsInWindow
    <2>3. CallsTimed(t, att, clock)
      <3>1. ASSUME NEW b \in Attempts, att[b].phase = "calling"
            PROVE  CallTimed(t, att[b], clock)
        <4>1. att[b].window \in Nat /\ CallTimed(s, att[b], clock)
          BY <3>1 DEF Local, CallsTimed, AttemptsType, AttemptType
        <4>2. s.reset_at \in Nat /\ s.reset_at <= clock
          BY <1>2, <1>4 DEF WindowOver, Resets
        <4>3. QED  BY <1>1, <1>2, <1>4, <4>1, <4>2 DEF CallTimed
      <3>2. QED  BY <3>1 DEF CallsTimed
    <2>4. Covers(t, Cardinality(CallsInWindow(t, att)))
      BY <1>1, <1>4, <2>2, FS_EmptySet, LimitAndCalls DEF LocalCase, Covers
    <2>5. Local(t, att, clock)
      BY <2>3, <2>4 DEF Local
    <2>6. QED  BY <1>3, <2>5 DEF t
  <1>5. CASE ~WindowOver(s)
    <2>1. SameWindow(t, s)
      BY <1>1, <1>2, <1>5 DEF SameWindow, Local, Covers, Resets
    <2>2. QED  BY <1>1, <1>3, <2>1, LocalMoved DEF t
  <1>6. QED  BY <1>4, <1>5

\* A call that ends stays counted as sent in its window, or is given back to it,
\* or is given back to a later one, which loses it.
LEMMA CallEnded ==
    ASSUME LocalCase, clock \in Nat, NEW att \in AttemptsType, NEW att2,
           NEW a \in Attempts, att2 = [att EXCEPT ![a] = Idle], att[a].phase = "calling",
           NEW s, Sound(s, att), Local(s, att, clock),
           NEW t, Sound(t, att2), t.window = s.window, t.reset_at = s.reset_at,
           t.regular = s.regular, t.used <= s.used,
           \/ att[a].window = s.window /\ t.used = s.used /\ t.sent = s.sent + 1
              /\ t.lost = s.lost
           \/ att[a].window = s.window /\ t.used = s.used - 1 /\ t.sent = s.sent
              /\ t.lost = s.lost
           \/ t.used = s.used /\ t.sent = s.sent /\ t.lost = s.lost
           \/ t.used + t.lost = s.used + s.lost /\ t.sent = s.sent /\ s.regular = FALSE
    PROVE  Local(t, att2, clock)
  <1> DEFINE C == CallsInWindow(s, att)
             D == CallsInWindow(t, att2)
  <1>1. /\ att2[a] = Idle /\ \A b \in Attempts \ {a} : att2[b] = att[b]
    BY DEF AttemptsType
  <1>2. /\ s.used \in Nat /\ s.sent \in Nat /\ t.used \in Nat /\ t.sent \in Nat
        /\ s.lost \in Nat /\ t.lost \in Nat
    BY DEF Sound, States
  <1>3. D = C \ {a}
    BY <1>1, IdleType DEF CallsInWindow
  <1>4. IsFiniteSet(C) /\ Cardinality(C) \in Nat /\ Limit \in Nat
    BY LimitAndCalls DEF LocalCase
  <1>5. a \in C <=> att[a].window = s.window
    BY DEF CallsInWindow
  <1>6. CallsTimed(t, att2, clock)
    BY <1>1, IdleType DEF Local, CallsTimed, CallTimed
  <1>7. \A b \in Attempts : att2[b].phase \in {"idle", "calling"}
    BY <1>1, IdleType DEF Local
  <1>8. /\ s.sent + Cardinality(C) <= s.used + s.lost /\ s.used <= Limit
        /\ s.regular => s.lost = 0
    BY DEF Local, Covers
  <1> HIDE DEF C, D
  <1>9. t.sent + Cardinality(D) <= t.used + t.lost
    <2>1. CASE a \in C
      <3>1. Cardinality(D) = Cardinality(C) - 1
        BY <1>3, <1>4, <2>1, FS_RemoveElement
      <3>2. QED  BY <1>2, <1>4, <1>8, <3>1
    <2>2. CASE a \notin C
      BY <1>2, <1>3, <1>4, <1>5, <1>8, <2>2
    <2>3. QED  BY <2>1, <2>2
  <1>10. t.used <= Limit /\ (t.regular => t.lost = 0)
    BY <1>2, <1>4, <1>8
  <1>11. QED  BY <1>6, <1>7, <1>9, <1>10 DEF Local, Covers, D

\* The end of _attempt, in the local case.
LEMMA LocalFinished ==
    ASSUME LocalCase, GovInv, NEW s, Sound(s, attempt), Local(s, attempt, clock),
           NEW a \in Attempts, attempt[a].phase = "calling", Finish(s, a)
    PROVE  Local(state', attempt', clock)
  <1> DEFINE r == Recovered(s)
             q == Sent(r, a)
             t == ProbeReleased(q, a)
  <1>1. clock \in Nat /\ attempt \in AttemptsType
    BY DEF GovInv
  <1>2. Sound(r, attempt) /\ Local(r, attempt, clock)
    BY <1>1, RecoveredSound, LocalRecovered
  <1>3. state' = t /\ attempt' = [attempt EXCEPT ![a] = Idle]
    BY DEF Finish, Ends
  <1> HIDE DEF r
  <1>4. /\ Sound(q, attempt) /\ q.used = r.used /\ q.reset_at = r.reset_at
        /\ q.window = r.window /\ q.lost = r.lost /\ q.regular = r.regular
        /\ q.sent = IF attempt[a].window = r.window /\ ~shared THEN r.sent + 1 ELSE r.sent
    BY <1>2, SentSound
  <1> HIDE DEF q
  <1>5. SameQuota(t, q)
    BY <1>4, ReleasedSound
  <1> HIDE DEF t
  <1>6. Sound(state', attempt')
    BY <1>1, Finishing
  <1>7. /\ t.used = r.used /\ t.reset_at = r.reset_at /\ t.window = r.window
        /\ t.lost = r.lost /\ t.regular = r.regular
        /\ \/ attempt[a].window = r.window /\ t.sent = r.sent + 1
           \/ t.sent = r.sent
    BY <1>4, <1>5 DEF SameQuota
  <1>8. Sound(t, attempt')
    BY <1>3, <1>6
  <1>9. r.used <= r.used
    BY <1>2 DEF Sound, States
  <1>10. t.used <= r.used
    BY <1>7, <1>9
  <1>11. attempt' = [attempt EXCEPT ![a] = Idle]
    BY <1>3
  <1> DEFINE att2 == attempt'
  <1>12. att2 = [attempt EXCEPT ![a] = Idle] /\ Sound(t, att2)
    BY <1>8, <1>11
  <1> HIDE DEF att2
  <1>13. ASSUME attempt[a].window = r.window /\ t.sent = r.sent + 1
         PROVE  Local(t, att2, clock)
    <2>1. t.window = r.window /\ t.reset_at = r.reset_at /\ t.regular = r.regular
      BY <1>7
    <2>2. /\ attempt[a].window = r.window /\ t.used = r.used /\ t.sent = r.sent + 1
          /\ t.lost = r.lost
      BY <1>7, <1>13
    <2>3. QED  BY <1>1, <1>2, <1>10, <1>12, <2>1, <2>2, CallEnded
  <1>14. ASSUME t.sent = r.sent  PROVE Local(t, att2, clock)
    <2>1. t.window = r.window /\ t.reset_at = r.reset_at /\ t.regular = r.regular
      BY <1>7
    <2>2. t.used = r.used /\ t.sent = r.sent /\ t.lost = r.lost
      BY <1>7, <1>14
    <2>3. QED  BY <1>1, <1>2, <1>10, <1>12, <2>1, <2>2, CallEnded
  <1>15. Local(t, att2, clock)
    BY <1>7, <1>13, <1>14
  <1>16. QED  BY <1>3, <1>15 DEF att2

\* What the local actions start from.
LEMMA LocalState ==
    ASSUME GovInv, LocalInv, LocalCase
    PROVE  /\ clock \in Nat /\ attempt \in AttemptsType /\ shared = FALSE
           /\ Sound(state, attempt) /\ Local(state, attempt, clock)
           /\ Sound(Recovered(state), attempt) /\ Local(Recovered(state), attempt, clock)
           /\ ~WindowOver(Recovered(state))
  <1>1. /\ clock \in Nat /\ attempt \in AttemptsType /\ shared = FALSE
        /\ Sound(state, attempt) /\ Local(state, attempt, clock)
    BY DEF GovInv, LocalInv, LocalCase
  <1>2. QED  BY <1>1, RecoveredSound, LocalRecovered

\* An outcome that stays in its window, taken in and the attempt ended.
LEMMA LocalOutcome ==
    ASSUME GovInv, LocalInv, LocalCase, NEW a \in Attempts, attempt[a].phase = "calling",
           NEW r, r = Recovered(state), NEW s, Sound(s, attempt), SameWindow(s, r), Finish(s, a)
    PROVE  Local(state', attempt', clock)
  <1>1. Local(s, attempt, clock)
    BY LocalState, LocalMoved
  <1>2. QED  BY <1>1, LocalFinished

\* A success, likewise.
LEMMA LocalSuccess ==
    ASSUME GovInv, LocalInv, LocalCase, NEW a \in Attempts, attempt[a].phase = "calling",
           NEW s, Sound(s, attempt), Local(s, attempt, clock), success(s, a)
    PROVE  Local(state', attempt', clock)
  <1> DEFINE r == Recovered(s)
             t == Succeeded(r, a)
  <1>1. clock \in Nat /\ attempt \in AttemptsType /\ Finish(t, a)
    BY LocalState DEF success
  <1>2. Sound(r, attempt) /\ Local(r, attempt, clock)
    BY <1>1, RecoveredSound, LocalRecovered
  <1> HIDE DEF r
  <1>3. Sound(t, attempt) /\ SameQuota(t, r)
    BY <1>2, SucceededSound
  <1> HIDE DEF t
  <1>4. Local(t, attempt, clock)
    BY <1>1, <1>2, <1>3, SameQuotaSameWindow, LocalMoved
  <1>5. QED  BY <1>1, <1>3, <1>4, LocalFinished

\* A call is counted when it goes out, in a window that ends.
LEMMA LocalReserved ==
    ASSUME GovInv, LocalInv, LocalCase, NEW a \in Attempts, NEW m \in Models,
           reserve_probe(a, m)
    PROVE  Local(state', attempt', clock)
  <1> DEFINE r == Recovered(state)
             c == Claimed(r, a)
             t == Counted(c)
             x == [phase |-> "calling", model |-> m,
                   local_window |-> t.reset_at, window |-> t.window]
             C == CallsInWindow(r, attempt)
             D == CallsInWindow(t, attempt')
  <1>1. /\ clock \in Nat /\ attempt \in AttemptsType /\ ~shared
        /\ Sound(r, attempt) /\ Local(r, attempt, clock) /\ Limit # NoLimit
    BY LocalState DEF LocalCase
  <1>2. /\ state' = t /\ attempt' = [attempt EXCEPT ![a] = x] /\ attempt[a].phase = "idle"
        /\ r.circuit_state # "HALF_OPEN" /\ r.used < Limit
    BY <1>1 DEF reserve_probe, AvailableLocal, HasRoom, In
  <1>3. /\ attempt'[a] = x /\ x.phase = "calling"
        /\ x.local_window = t.reset_at /\ x.window = t.window
        /\ \A b \in Attempts \ {a} : attempt'[b] = attempt[b]
    BY <1>1, <1>2 DEF AttemptsType
  <1>4. x.phase \in InFlight
    BY DEF InFlight
  <1> HIDE DEF r, x
  <1>5. Sound(c, attempt') /\ SameQuota(c, r)
    BY <1>1, <1>2, <1>3, <1>4, ClaimedSound
  <1> HIDE DEF c
  <1>6. /\ Sound(t, attempt') /\ t.used = r.used + 1 /\ t.window = r.window
        /\ t.sent = r.sent /\ t.reset_at # NoReset
        /\ r.reset_at # NoReset => t.reset_at = r.reset_at
        /\ t.lost = r.lost /\ t.regular = r.regular
    BY <1>1, <1>5, CountedSound DEF SameQuota
  <1> HIDE DEF t
  <1>7. /\ r.used \in Nat /\ r.sent \in Nat /\ r.window \in Nat /\ r.reset_at \in Resets
        /\ t.reset_at \in Nat /\ r.lost \in Nat
    BY <1>1, <1>6 DEF Sound, States, Resets
  <1>8. IsFiniteSet(C) /\ Cardinality(C) \in Nat /\ Limit \in Nat
    BY <1>1, LimitAndCalls
  <1>9. D = C \cup {a} /\ a \notin C
    BY <1>2, <1>3, <1>6 DEF CallsInWindow
  <1>10. Cardinality(D) = Cardinality(C) + 1
    BY <1>8, <1>9, FS_AddElement
  <1> HIDE DEF C
  <1>11. Covers(t, Cardinality(D))
    <2>1. r.sent + Cardinality(C) <= r.used + r.lost /\ (r.regular => r.lost = 0)
      BY <1>1 DEF Local, Covers, C
    <2>2. QED  BY <1>2, <1>6, <1>7, <1>8, <1>10, <2>1 DEF Covers
  <1>12. CallsTimed(t, attempt', clock)
    <2>1. ASSUME NEW b \in Attempts, attempt'[b].phase = "calling", b # a
          PROVE  CallTimed(t, attempt'[b], clock)
      <3>1. attempt'[b] = attempt[b] /\ CallTimed(r, attempt[b], clock)
        BY <1>1, <1>3, <2>1 DEF Local, CallsTimed
      <3>2. QED  BY <1>6, <1>7, <3>1 DEF CallTimed
    <2>2. CallTimed(t, attempt'[a], clock)
      BY <1>3, <1>6, <1>7 DEF CallTimed
    <2>3. QED  BY <2>1, <2>2 DEF CallsTimed
  <1>13. \A b \in Attempts : attempt'[b].phase \in {"idle", "calling"}
    BY <1>1, <1>3 DEF Local
  <1>14. QED  BY <1>2, <1>11, <1>12, <1>13 DEF Local

\* A refund is taken from the window its request was counted in; from a later one
\* only if a reset moved to an earlier time, and then it is lost there.
LEMMA LocalNotSent ==
    ASSUME GovInv, LocalInv, LocalCase, NEW a \in Attempts, NotSent(a)
    PROVE  Local(state', attempt', clock)
  <1> DEFINE r == Recovered(state)
             s == ProbeReleased(r, a)
             t == GivenBack(s, a)
  <1>1. /\ clock \in Nat /\ attempt \in AttemptsType /\ ~shared /\ Limit # NoLimit
        /\ Sound(r, attempt) /\ Local(r, attempt, clock) /\ ~WindowOver(r)
    BY LocalState DEF LocalCase
  <1>2. /\ attempt[a].phase = "calling" /\ attempt' = [attempt EXCEPT ![a] = Idle]
        /\ state' = t
    BY <1>1 DEF NotSent, In, Ends
  <1> HIDE DEF r
  <1>3. Sound(s, attempt) /\ SameQuota(s, r)
        /\ (s.circuit_state = "HALF_OPEN" => s.probe_token # a)
    BY <1>1, ReleasedSound
  <1> HIDE DEF s
  <1>4. Local(s, attempt, clock) /\ ~WindowOver(s)
    BY <1>1, <1>3, SameQuotaSameWindow, LocalMoved DEF SameQuota, WindowOver
  <1>5. /\ Sound(t, attempt) /\ t.reset_at = s.reset_at
        /\ t.window = s.window /\ t.sent = s.sent /\ t.regular = s.regular
        /\ t.circuit_state = s.circuit_state /\ t.probe_token = s.probe_token
        /\ IF Refundable(s, a) THEN t.used = Refunded(s.used) ELSE t.used = s.used
        /\ IF Refundable(s, a) /\ attempt[a].window # s.window
             THEN t.lost = s.lost + (s.used - Refunded(s.used)) ELSE t.lost = s.lost
    BY <1>3, RefundedSound
  <1> HIDE DEF t
  <1>6. \A b \in Attempts \ {a} : attempt'[b] = attempt[b]
    BY <1>1, <1>2 DEF AttemptsType
  <1>7. Sound(t, attempt')
    BY <1>3, <1>5, <1>6, OthersKeep
  <1>8. Refundable(s, a) /\ s.regular => attempt[a].window = s.window
    <2> SUFFICES ASSUME Refundable(s, a), s.regular PROVE attempt[a].window = s.window
      OBVIOUS
    <2>1. CallTimed(s, attempt[a], clock)
      BY <1>2, <1>4 DEF Local, CallsTimed
    <2>2. s.reset_at \in Nat /\ s.reset_at = attempt[a].local_window
      BY <2>1 DEF Refundable, CallTimed
    <2>3. clock < s.reset_at
      BY <1>1, <1>4, <2>2, ConstantFacts DEF WindowOver
    <2>4. QED  BY <1>1, <2>1, <2>2, <2>3 DEF CallTimed
  <1>9. /\ s.used \in Nat /\ s.lost \in Nat /\ s.regular \in BOOLEAN
        /\ Refunded(s.used) \in Nat /\ Refunded(s.used) <= s.used
        /\ s.used = 0 => Refunded(s.used) = s.used
        /\ s.used # 0 => Refunded(s.used) = s.used - 1
    BY <1>3 DEF Sound, States, Refunded, AtLeast
  <1>10. /\ t.used <= s.used
         /\ \/ attempt[a].window = s.window /\ t.used = s.used - 1 /\ t.sent = s.sent
               /\ t.lost = s.lost
            \/ t.used = s.used /\ t.sent = s.sent /\ t.lost = s.lost
            \/ t.used + t.lost = s.used + s.lost /\ t.sent = s.sent /\ s.regular = FALSE
    <2>1. CASE ~Refundable(s, a)
      BY <1>5, <1>9, <2>1
    <2>2. CASE Refundable(s, a) /\ attempt[a].window = s.window
      BY <1>5, <1>9, <2>2
    <2>3. CASE Refundable(s, a) /\ attempt[a].window # s.window
      <3>1. s.regular = FALSE
        BY <1>8, <1>9, <2>3
      <3>2. t.used = Refunded(s.used) /\ t.lost = s.lost + (s.used - Refunded(s.used))
        BY <1>5, <2>3
      <3>3. t.used <= s.used /\ t.used + t.lost = s.used + s.lost
        BY <1>9, <3>2
      <3>4. QED  BY <1>5, <3>1, <3>3
    <2>4. QED  BY <2>1, <2>2, <2>3
  <1>11. Local(t, attempt', clock)
    BY <1>1, <1>2, <1>3, <1>4, <1>5, <1>7, <1>10, CallEnded
  <1>12. QED  BY <1>2, <1>11

\* Whatever an attempt's call brings, the count stays right.
LEMMA LocalOutcomes ==
    ASSUME GovInv, LocalInv, LocalCase, NEW a \in Attempts, Outcome(a)
    PROVE  Local(state', attempt', clock)
  <1> DEFINE r == Recovered(state)
  <1>1. /\ clock \in Nat /\ attempt \in AttemptsType /\ ~shared
        /\ Sound(state, attempt) /\ Local(state, attempt, clock)
        /\ Sound(r, attempt) /\ Local(r, attempt, clock)
    BY LocalState
  <1>2. \A phases : In(a, phases) /\ "idle" \notin phases => attempt[a].phase = "calling"
    BY <1>1 DEF Local, In
  <1>3. /\ \A reset \in ReportedResets \cup {NoReset} : reset \in Resets
        /\ \A wait \in Waits : wait \in Nat
        /\ \A remaining \in 0..1 : remaining \in Nat
    BY GovernorAssumption DEF Resets
  <1>4. r.used \in Nat /\ r.reset_at \in Resets /\ r.used <= Limit
    BY <1>1 DEF Sound, States, Local, Covers
  <1>5. r = Recovered(state)
    OBVIOUS
  <1> HIDE DEF r
  <1>6. CASE AnsweredPlainly(a)
    <2>1. success(state, a) /\ attempt[a].phase = "calling"
      BY <1>2, <1>6 DEF AnsweredPlainly
    <2>2. QED  BY <1>1, <2>1, LocalSuccess
  <1>7. CASE NotSent(a)
    BY <1>7, LocalNotSent
  <1>8. CASE NoVerdict(a)
    <2>1. Finish(state, a) /\ attempt[a].phase = "calling"
      BY <1>2, <1>8 DEF NoVerdict
    <2>2. QED  BY <1>1, <2>1, LocalFinished
  <1>9. CASE block_security(a)
    <2> DEFINE s == [r EXCEPT !.security_blocked = TRUE]
    <2>1. Finish(s, a) /\ attempt[a].phase = "calling"
      BY <1>2, <1>5, <1>9 DEF block_security
    <2>2. Sound(s, attempt) /\ SameQuota(s, r)
      BY <1>1, BlockedSound
    <2> HIDE DEF s
    <2>3. QED  BY <1>1, <1>5, <2>1, <2>2, SameQuotaSameWindow, LocalOutcome
  <1>10. CASE failure(a)
    <2> DEFINE s == Failed(r, a)
    <2>1. Finish(s, a) /\ attempt[a].phase = "calling"
      BY <1>2, <1>5, <1>10 DEF failure
    <2>2. Sound(s, attempt) /\ SameQuota(s, r)
      BY <1>1, FailedSound
    <2> HIDE DEF s
    <2>3. QED  BY <1>1, <1>5, <2>1, <2>2, SameQuotaSameWindow, LocalOutcome
  <1>11. ASSUME NEW reset \in ReportedResets \cup {NoReset}, AnsweredWithModelQuota(a, reset)
         PROVE  Local(state', attempt', clock)
    <2>1. success(state, a) /\ attempt[a].phase = "calling"
      BY <1>2, <1>11 DEF AnsweredWithModelQuota
    <2>2. QED  BY <1>1, <2>1, LocalSuccess
  <1>12. ASSUME NEW reset \in ReportedResets \cup {NoReset}, exhaust(a, reset)
         PROVE  Local(state', attempt', clock)
    <2> DEFINE s == Exhausted(r, reset)
    <2>1. Finish(s, a) /\ attempt[a].phase = "calling"
      BY <1>1, <1>2, <1>5, <1>12 DEF exhaust
    <2>2. /\ Sound(s, attempt) /\ s.used = r.used /\ s.window = r.window /\ s.sent = r.sent
          /\ s.lost = r.lost /\ s.reset_at = ExhaustionReset(reset)
          /\ s.regular = (r.regular /\ NotEarlier(r, ExhaustionReset(reset)))
          /\ ExhaustionReset(reset) \in Nat
      BY <1>1, <1>3, ExhaustedSound, ExhaustionAhead
    <2> HIDE DEF s
    <2>3. s.regular => r.regular /\ NotEarlier(r, ExhaustionReset(reset))
      BY <2>2, Zenon
    <2>4. s.reset_at # NoReset /\ s.used >= r.used /\ s.used <= Limit
      BY <1>4, <2>2, ConstantFacts
    <2>5. SameWindow(s, r)
      BY <1>4, <2>2, <2>3, <2>4 DEF SameWindow, NotEarlier, LocalCase
    <2>6. QED  BY <1>5, <2>1, <2>2, <2>5, LocalOutcome
  <1>13. ASSUME NEW reset \in ReportedResets \cup {NoReset}, exhaust_model(a, reset)
         PROVE  Local(state', attempt', clock)
    <2>1. Finish(state, a) /\ attempt[a].phase = "calling"
      BY <1>2, <1>13 DEF exhaust_model
    <2>2. QED  BY <1>1, <2>1, LocalFinished
  <1>14. ASSUME NEW reset \in ReportedResets \cup {NoReset}, NEW remaining \in 0..1,
                AnsweredWithQuota(a, remaining, reset)
         PROVE  Local(state', attempt', clock)
    <2> DEFINE s == Observed(r, remaining, reset)
    <2>1. success(s, a) /\ attempt[a].phase = "calling"
      BY <1>1, <1>2, <1>5, <1>14 DEF AnsweredWithQuota
    <2>6. reset \in Resets /\ remaining \in Nat
      BY <1>3
    <2>2. /\ Sound(s, attempt) /\ s.used >= r.used /\ s.window = r.window /\ s.sent = r.sent
          /\ Limit # NoLimit /\ r.used <= Limit => s.used <= Limit
          /\ s.lost = r.lost /\ (s.regular => r.regular /\ NotEarlier(r, s.reset_at))
          /\ r.reset_at # NoReset => s.reset_at # NoReset
      BY <1>1, <2>6, ObservedSound, Zenon
    <2> HIDE DEF s
    <2>3. SameWindow(s, r)
      BY <1>4, <2>2 DEF SameWindow, NotEarlier, LocalCase
    <2>4. Local(s, attempt, clock)
      BY <1>1, <2>2, <2>3, LocalMoved
    <2>5. QED  BY <2>1, <2>2, <2>4, LocalSuccess
  <1>15. ASSUME NEW wait \in Waits, NEW per_minute \in BOOLEAN, throttle(a, wait, per_minute)
         PROVE  Local(state', attempt', clock)
    <2> DEFINE u == ThrottleUntil(Provider, wait, per_minute)
               s == Throttled(r, u)
    <2>1. Finish(s, a) /\ attempt[a].phase = "calling"
      BY <1>2, <1>5, <1>15 DEF throttle
    <2>2. u \in Nat
      BY <1>3, ThrottleType DEF GovInv
    <2> HIDE DEF u
    <2>3. /\ Sound(s, attempt) /\ s.used = r.used /\ s.reset_at = r.reset_at
          /\ s.window = r.window /\ s.sent = r.sent /\ s.lost = r.lost /\ s.regular = r.regular
      BY <1>1, <2>2, ThrottledSound
    <2> HIDE DEF s
    <2>4. SameWindow(s, r)
      BY <1>4, <2>3 DEF SameWindow, Resets
    <2>5. QED  BY <1>5, <2>1, <2>3, <2>4, LocalOutcome
  <1>16. ASSUME NEW wait \in Waits, NEW per_minute \in BOOLEAN,
                throttle_model(a, wait, per_minute)
         PROVE  Local(state', attempt', clock)
    <2>1. Finish(state, a) /\ attempt[a].phase = "calling"
      BY <1>2, <1>16 DEF throttle_model
    <2>2. QED  BY <1>1, <2>1, LocalFinished
  <1>17. QED
    BY <1>6, <1>7, <1>8, <1>9, <1>10, <1>11, <1>12, <1>13, <1>14, <1>15, <1>16 DEF Outcome

\* Every step keeps the count right.
LEMMA LocalNext == GovInv /\ LocalInv /\ [Next]_vars => LocalInv'
  <1> SUFFICES ASSUME GovInv, LocalInv, [Next]_vars, LocalCase
               PROVE  Local(state', attempt', clock')
    BY SharedAndClock DEF LocalInv, LocalCase
  <1>1. /\ clock \in Nat /\ attempt \in AttemptsType /\ ~shared
        /\ Sound(state, attempt) /\ Local(state, attempt, clock)
        /\ Sound(Recovered(state), attempt) /\ Local(Recovered(state), attempt, clock)
    BY LocalState
  <1>2. CASE Tick
    <2>1. state' = state /\ attempt' = attempt /\ clock' = clock + 1
      BY <1>2 DEF Tick
    <2>2. CallsTimed(state, attempt, clock + 1)
      BY <1>1 DEF Local, CallsTimed, CallTimed
    <2>3. QED  BY <1>1, <2>1, <2>2 DEF Local
  <1>3. CASE Look
    BY <1>1, <1>3 DEF Look
  <1>4. CASE unblock_security
    <2> DEFINE r == Recovered(state)
               s == Resumed(r)
    <2>1. state' = s /\ attempt' = attempt /\ clock' = clock
      BY <1>4 DEF unblock_security
    <2>2. Sound(r, attempt) /\ Local(r, attempt, clock)
      BY <1>1
    <2> HIDE DEF r
    <2>3. /\ Sound(s, attempt) /\ s.used = r.used /\ s.reset_at = r.reset_at
          /\ s.window = r.window /\ s.sent = r.sent /\ s.lost = r.lost /\ s.regular = r.regular
      BY <2>2, ResumedSound
    <2> HIDE DEF s
    <2>4. SameWindow(s, r)
      BY <2>2, <2>3 DEF SameWindow, Sound, States, Local, Covers, Resets
    <2>5. QED  BY <1>1, <2>1, <2>2, <2>3, <2>4, LocalMoved
  <1>5. ASSUME NEW a \in Attempts, NEW m \in Models, reserve_probe(a, m)
        PROVE  Local(state', attempt', clock')
    BY <1>5, LocalReserved DEF reserve_probe
  <1>6. ASSUME NEW a \in Attempts, Granted(a) \/ Refused(a) \/ Declined(a) PROVE FALSE
    BY <1>1, <1>6 DEF Local, Granted, Refused, Declined, In
  <1>7. ASSUME NEW a \in Attempts, Outcome(a) PROVE Local(state', attempt', clock')
    <2>1. Local(state', attempt', clock)
      BY <1>7, LocalOutcomes
    <2>2. clock' = clock
      BY <1>7 DEF Outcome, AnsweredPlainly, NotSent, NoVerdict, block_security, failure,
           AnsweredWithModelQuota, exhaust, exhaust_model, AnsweredWithQuota, throttle,
           throttle_model, success
    <2>3. QED  BY <2>1, <2>2
  <1>8. CASE UNCHANGED vars
    BY <1>1, <1>8 DEF vars
  <1>9. QED  BY <1>2, <1>3, <1>4, <1>5, <1>6, <1>7, <1>8 DEF Next

\* At first nothing is counted and nothing is out.
LEMMA LocalInit == Init => LocalInv
  <1> SUFFICES ASSUME Init, LocalCase PROVE Local(state, attempt, clock)
    BY DEF LocalInv
  <1>1. state.used = 0 /\ state.sent = 0 /\ state.lost = 0 /\ attempt = [a \in Attempts |-> Idle]
    BY DEF Init
  <1>2. \A b \in Attempts : attempt[b].phase = "idle"
    BY <1>1, IdleType
  <1>3. CallsInWindow(state, attempt) = {}
    BY <1>2 DEF CallsInWindow
  <1>4. Limit \in Nat
    BY LimitAndCalls DEF LocalCase
  <1>5. QED  BY <1>1, <1>2, <1>3, <1>4, FS_EmptySet DEF Local, Covers, CallsTimed

\* Without a ledger, a window's requests sent or out are covered by the local
\* counter and within the provider's limit, but for the refunds of earlier windows
\* taken off it, whatever is reported; and while no report or refusal moved the
\* reset on record to an earlier time, no refund is.
THEOREM LocalCounterCovers == Spec => []LocalWithinTier
  <1>1. GovInv /\ LocalInv => LocalWithinTier
    <2> SUFFICES ASSUME GovInv, LocalInv, ~shared, Limit # NoLimit
                 PROVE  LET taken == state.sent + Cardinality(Live)
                        IN /\ taken <= state.used + state.lost
                           /\ taken <= Limit + state.lost
                           /\ state.regular => state.lost = 0
      BY DEF LocalWithinTier
    <2>1. LocalCase
      BY DEF LocalCase
    <2>2. Local(state, attempt, clock) /\ Sound(state, attempt)
      BY <2>1 DEF LocalInv, GovInv
    <2>3. Live = CallsInWindow(state, attempt)
      BY DEF Live, CallsInWindow, In
    <2>4. /\ Cardinality(Live) \in Nat /\ Limit \in Nat
          /\ state.used \in Nat /\ state.sent \in Nat /\ state.lost \in Nat
      BY <2>2, <2>3, LimitAndCalls DEF Sound, States
    <2>5. QED  BY <2>2, <2>3, <2>4 DEF Local, Covers
  <1>2. QED  BY <1>1, Invariance, LocalInit, LocalNext, PTL DEF Spec
===============================================================================
