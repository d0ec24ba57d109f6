------------------------- MODULE TextAdapterProofs -------------------------
(***************************************************************************)
(* No request of an adapter leaves after the expiry of its provider's      *)
(* review, whatever was awaited between its checks; prices are proved by   *)
(* recent catalogues, attempts settled as what happened in them, and the   *)
(* sizes held back are ones the provider refused.                          *)
(***************************************************************************)
EXTENDS TextAdapter, CommonLemmas, SequenceTheorems, WellFoundedInduction

-----------------------------------------------------------------------------
(* When a review is lost: review_expiry is exact, a provider that          *)
(* qualifies goes on qualifying until the time it names and never after.   *)

\* A set of times that is not empty has an earliest one.
LEMMA EarliestExists ==
  ASSUME NEW times \in SUBSET Nat, times # {}
  PROVE  Earliest(times) \in times /\ \A u \in times : Earliest(times) <= u
<1>. DEFINE Less == {p \in Nat \X Nat : p[1] < p[2]}
<1>1. IsWellFoundedOn(Less, Nat)
  BY NatLessThanWellFounded, Zenon DEF OpToRel
<1>2. PICK t \in times : \A u \in times : ~ <<u, t>> \in Less
  <2>. HIDE DEF Less
  <2>. QED  BY <1>1, WFMin, Zenon
<1>3. \A u \in times : t <= u
  <2>. SUFFICES ASSUME NEW u \in times  PROVE t <= u
    OBVIOUS
  <2>1. u \in Nat /\ t \in Nat
    OBVIOUS
  <2>2. ~ (u < t)
    BY <1>2, <2>1
  <2>. QED  BY <2>1, <2>2
<1>. QED
  BY <1>3, Zenon DEF Earliest

\* The dates a review can be lost at are times, and there is at least one.
LEMMA LimitsAreTimes ==
  ASSUME NEW subject \in Specs, Reviewed(subject)
  PROVE  /\ Limits(subject) \in SUBSET Nat
         /\ subject.qualification.expires_at \in Limits(subject)
<1>1. subject.qualification \in Reviews /\ subject.active \in SUBSET Models
  BY DEF Specs, Reviewed
<1>2. \A m \in Tested(subject) : subject.qualification.live_test_at[m] \in Nat
  BY <1>1 DEF Tested, Reviews, Tests
<1>3. \A m \in Tested(subject) : subject.qualification.live_test_at[m] + MaxAge \in Nat
  BY <1>2, AdmissionAssumption
<1>4. subject.qualification.expires_at \in Nat
  BY <1>1 DEF Reviews
<1>. QED
  BY <1>3, <1>4 DEF Limits

LEMMA ExpiryIsEarliest ==
  ASSUME NEW subject \in Specs, Reviewed(subject)
  PROVE  /\ review_expiry(subject) \in Limits(subject)
         /\ \A t \in Limits(subject) : review_expiry(subject) <= t
BY LimitsAreTimes, EarliestExists, Zenon DEF review_expiry

\* qualified never holds after the time review_expiry names, so no selection
\* and no dispatch uses a review that an operator was told had expired.
THEOREM NeverPastExpiry ==
  ASSUME NEW subject \in Specs, Reviewed(subject),
         NEW now \in Nat, qualified(subject, now)
  PROVE  now <= review_expiry(subject)
<1>. DEFINE review == subject.qualification
<1>1. review \in Reviews /\ subject.active \in SUBSET Models
  BY DEF Specs, Reviewed
<1>2. now < review.expires_at
  BY DEF qualified, InDate
<1>3. ASSUME NEW m \in Tested(subject)
      PROVE  now <= review.live_test_at[m] + MaxAge
  <2>1. m \in subject.active /\ TestInDate(review, m, now)
    BY <1>3 DEF Tested, qualified
  <2>2. review.live_test_at[m] \in Nat
    BY <2>1, <1>1 DEF TestInDate, Reviews, Tests
  <2>3. now - MaxAge <= review.live_test_at[m]
    BY <2>1 DEF TestInDate
  <2>. QED  BY <2>2, <2>3, AdmissionAssumption
<1>4. \A t \in Limits(subject) : now <= t
  <2>1. review.expires_at \in Nat
    BY <1>1 DEF Reviews
  <2>2. now <= review.expires_at
    BY <1>2, <2>1
  <2>. HIDE DEF review
  <2>. QED  BY <2>2, <1>3 DEF Limits, review
<1>. QED
  BY <1>4, ExpiryIsEarliest

\* A provider that qualifies at one time still does at every later time before
\* review_expiry: nothing dated in qualified is missing from the expiry an
\* operator is shown.
THEOREM QualifiedUntilExpiry ==
  ASSUME NEW subject \in Specs, Reviewed(subject),
         NEW then \in Nat, qualified(subject, then),
         NEW now \in Nat, then <= now, now < review_expiry(subject)
  PROVE  qualified(subject, now)
<1>. DEFINE review == subject.qualification
<1>1. review \in Reviews /\ subject.active \in SUBSET Models
  BY DEF Specs, Reviewed
<1>2. \A t \in Limits(subject) : now < t
  <2>1. Limits(subject) \in SUBSET Nat
    BY LimitsAreTimes
  <2>2. review_expiry(subject) \in Nat
    BY <2>1, ExpiryIsEarliest
  <2>3. ASSUME NEW t \in Limits(subject)  PROVE now < t
    <3>1. t \in Nat /\ review_expiry(subject) <= t
      BY <2>1, <2>3, ExpiryIsEarliest
    <3>. QED  BY <3>1, <2>2
  <2>. QED  BY <2>3
<1>3. InDate(review, now)
  <2>1. review.reviewed_at \in Nat /\ review.expires_at \in Nat
    BY <1>1 DEF Reviews
  <2>2. InDate(review, then)
    BY DEF qualified
  <2>3. now < review.expires_at
    BY <1>2, LimitsAreTimes
  <2>. QED  BY <2>1, <2>2, <2>3, AdmissionAssumption DEF InDate
<1>4. ASSUME NEW m \in subject.active
      PROVE  TestInDate(review, m, now)
  <2>1. TestInDate(review, m, then)
    BY <1>4 DEF qualified
  <2>2. review.live_test_at[m] \in Nat
    BY <2>1, <1>1, <1>4 DEF TestInDate, Reviews, Tests
  <2>3. now < review.live_test_at[m] + MaxAge
    BY <2>1, <1>2, <1>4 DEF TestInDate, Limits, Tested
  <2>4. now - MaxAge <= review.live_test_at[m]
    BY <2>2, <2>3, AdmissionAssumption
  <2>. QED  BY <2>1, <2>4 DEF TestInDate
<1>. QED
  BY <1>3, <1>4 DEF qualified

-----------------------------------------------------------------------------
(* What the adapter keeps. *)

Fields == DOMAIN Idle

LEMMA FieldsOfIdle == {"phase", "refusal"} \subseteq Fields /\ Idle.phase = "idle"
BY DEF Fields, Idle

\* What the argument needs of the state: the clock and the review can be compared,
\* and each completion has a record of the same fields.
Known ==
    /\ clock \in Nat
    /\ spec \in Specs
    /\ call = [c \in Calls |-> call[c]]
    /\ \A c \in Calls : DOMAIN call[c] = Fields

-----------------------------------------------------------------------------
(* Who sends. *)

\* Only the completion whose record a step replaces can send.
LEMMA OneSender ==
  ASSUME Known, NEW c \in Calls, NEW r, call' = [call EXCEPT ![c] = r],
         NEW d \in Calls, Sends(d)
  PROVE  d = c /\ r.phase \in {"listing", "checking", "asking"}
BY DEF Known, Sends

LEMMA RaisingSendsNothing ==
  ASSUME Known, NEW c \in Calls, NEW e, NEW sent, Raise(c, e, sent),
         NEW d \in Calls
  PROVE  ~Sends(d)
BY FieldsOfIdle, OneSender DEF Raise

\* Mistral's question to the administrators' API is no request to its models.
LEMMA SurfacingSendsNothing ==
  ASSUME Known, NEW c \in Calls, NEW r, DOMAIN r = Fields, NEW e, Surface(c, r, e),
         NEW d \in Calls
  PROVE  ~Sends(d)
<1>1. CASE Raise(c, e, r.sent)
  BY <1>1, RaisingSendsNothing
<1>2. CASE call' = [call EXCEPT ![c] = [r EXCEPT !.phase = "confirming", !.refusal = e]]
  <2>1. [r EXCEPT !.phase = "confirming", !.refusal = e].phase = "confirming"
    BY FieldsOfIdle
  <2>. QED  BY <1>2, <2>1, OneSender
<1>. QED
  BY <1>1, <1>2, Zenon DEF Surface

LEMMA SendingIsAdmitted ==
  ASSUME Known, NEW c \in Calls, NEW r, Send(c, r) \/ Inquire(c, r),
         NEW d \in Calls, Sends(d)
  PROVE  Admitted
<1>1. ASSUME NEW e, Raise(c, e, FALSE)  PROVE FALSE
  BY <1>1, RaisingSendsNothing
<1>. QED
  BY <1>1, Zenon DEF Send, Inquire

LEMMA DispatchIsAdmitted ==
  ASSUME Known, NEW c \in Calls, NEW r, Dispatch(c, r),
         NEW d \in Calls, Sends(d)
  PROVE  Admitted
<1>1. ASSUME NEW e, Raise(c, e, FALSE)  PROVE FALSE
  BY <1>1, RaisingSendsNothing
<1>. QED
  BY <1>1, SendingIsAdmitted, Zenon DEF Dispatch

LEMMA ProceedIsAdmitted ==
  ASSUME Known, NEW c \in Calls, NEW r, NEW models, Proceed(c, r, models),
         NEW d \in Calls, Sends(d)
  PROVE  Admitted
<1>1. ASSUME NEW e, Raise(c, e, FALSE)  PROVE FALSE
  BY <1>1, RaisingSendsNothing
<1>. QED
  BY <1>1, DispatchIsAdmitted, SendingIsAdmitted, Zenon DEF Proceed

LEMMA CompleteIsAdmitted ==
  ASSUME Known, NEW c \in Calls, NEW m, NEW size, Complete(c, m, size),
         NEW d \in Calls, Sends(d)
  PROVE  Admitted
<1>. DEFINE r == [Idle EXCEPT !.model = m, !.size = size, !.now = clock]
<1>1. DOMAIN r = Fields
  BY DEF Fields
<1>. HIDE DEF r
<1>2. ASSUME NEW e, Raise(c, e, FALSE)  PROVE FALSE
  BY <1>2, RaisingSendsNothing
<1>3. ASSUME NEW e, Surface(c, r, e)  PROVE FALSE
  BY <1>1, <1>3, SurfacingSendsNothing
<1>4. \/ Admitted
      \/ \E u, models : Proceed(c, u, models)
      \/ \E e : Surface(c, r, e)
      \/ \E e : Raise(c, e, FALSE)
  BY Zenon DEF Complete, r
<1>. QED
  BY <1>2, <1>3, <1>4, ProceedIsAdmitted, Zenon

LEMMA SendersAreAdmitted ==
  ASSUME Known, [Next]_vars, NEW d \in Calls, Sends(d)
  PROVE  Admitted
<1>1. ASSUME NEW c \in Calls, NEW e, NEW sent, Raise(c, e, sent)  PROVE FALSE
  BY <1>1, RaisingSendsNothing
<1>2. ASSUME NEW c \in Calls, NEW e, Surface(c, call[c], e)  PROVE FALSE
  BY <1>2, SurfacingSendsNothing DEF Known
<1>3. ASSUME NEW c \in Calls, call' = [call EXCEPT ![c] = Idle]  PROVE FALSE
  BY <1>3, FieldsOfIdle, OneSender
<1>4. ASSUME NEW c \in Calls, NEW m \in Models, NEW size \in Sizes,
             Complete(c, m, size) \/ GeminiComplete(c, m, size)
      PROVE  Admitted
  <2>1. CASE Complete(c, m, size)
    BY <2>1, CompleteIsAdmitted
  <2>2. CASE GeminiComplete(c, m, size)
    BY <1>1, <2>2, SendingIsAdmitted, Zenon DEF GeminiComplete
  <2>. QED  BY <1>4, <2>1, <2>2
<1>5. ASSUME NEW c \in Calls, Render(c)  PROVE FALSE
  BY <1>5 DEF Render, Sends, Known
<1>6. ASSUME NEW c \in Calls, NEW q \in Allowances, Listed(c, q)  PROVE Admitted
  BY <1>6, ProceedIsAdmitted, Zenon DEF Listed
<1>7. ASSUME NEW c \in Calls, NEW q \in Allowances,
             Checked(c, q) \/ Described(c, q) \/ Shown(c, q)
      PROVE  Admitted
  <2>1. CASE Checked(c, q)
    BY <1>1, <2>1, DispatchIsAdmitted, Zenon DEF Checked
  <2>2. CASE Described(c, q) \/ Shown(c, q)
    BY <1>1, <2>2, SendingIsAdmitted, Zenon DEF Described, Shown
  <2>. QED  BY <1>7, <2>1, <2>2
<1>8. ASSUME NEW c \in Calls, NEW q \in Allowances, Headers(c, q)  PROVE FALSE
  BY <1>8 DEF Headers, Sends, Known
<1>9. ASSUME NEW c \in Calls, NEW e, ListingFails(c, e) \/ CheckFails(c, e) \/ Refused(c, e)
      PROVE  FALSE
  BY <1>1, <1>2, <1>9, Zenon DEF ListingFails, CheckFails, Refused
<1>10. ASSUME NEW c \in Calls, NEW cost, Completed(c, cost)  PROVE FALSE
  BY <1>1, <1>3, <1>10, Zenon DEF Completed
<1>11. ASSUME NEW c \in Calls, Generated(c) \/ Chatted(c) \/ GivenUp(c)  PROVE FALSE
  BY <1>3, <1>11, Zenon DEF Generated, Chatted, GivenUp
<1>12. ASSUME NEW c \in Calls, MonthlyLimitReached(c) \/ NotConfirmed(c)  PROVE FALSE
  BY <1>1, <1>12, Zenon DEF MonthlyLimitReached, NotConfirmed
<1>13. ASSUME NEW m \in Models, Relist(m)  PROVE FALSE
  BY <1>13 DEF Relist, Sends
<1>14. CASE Tick
  BY <1>14 DEF Tick, Sends
<1>15. CASE UNCHANGED vars
  BY <1>15 DEF vars, Sends
<1>. QED
  BY <1>4, <1>5, <1>6, <1>7, <1>8, <1>9, <1>10, <1>11, <1>12, <1>13, <1>14, <1>15,
     Zenon DEF Next

-----------------------------------------------------------------------------
(* What is known stays known: a step replaces at most one record, by one of *)
(* the same fields.                                                         *)

Replaces(c) == \E u : DOMAIN u = Fields /\ call' = [call EXCEPT ![c] = u]

LEMMA RaiseReplaces ==
  ASSUME NEW c, NEW e, NEW sent, Raise(c, e, sent)
  PROVE  Replaces(c)
BY Zenon DEF Raise, Replaces, Fields

LEMMA SurfaceReplaces ==
  ASSUME NEW c, NEW r, DOMAIN r = Fields, NEW e, Surface(c, r, e)
  PROVE  Replaces(c)
<1>1. DOMAIN [r EXCEPT !.phase = "confirming", !.refusal = e] = Fields
  OBVIOUS
<1>. QED
  BY <1>1, RaiseReplaces, Zenon DEF Surface, Replaces

LEMMA SendReplaces ==
  ASSUME NEW c, NEW r, DOMAIN r = Fields, Send(c, r) \/ Inquire(c, r)
  PROVE  Replaces(c)
<1>1. /\ DOMAIN [r EXCEPT !.phase = "asking", !.sent = TRUE] = Fields
      /\ DOMAIN [r EXCEPT !.phase = "checking"] = Fields
  OBVIOUS
<1>. QED
  BY <1>1, RaiseReplaces, Zenon DEF Send, Inquire, Replaces

LEMMA DispatchReplaces ==
  ASSUME NEW c, NEW r, DOMAIN r = Fields, Dispatch(c, r)
  PROVE  Replaces(c)
BY RaiseReplaces, SendReplaces, Zenon DEF Dispatch

LEMMA ProceedReplaces ==
  ASSUME NEW c, NEW r, DOMAIN r = Fields, NEW models, Proceed(c, r, models)
  PROVE  Replaces(c)
BY RaiseReplaces, SendReplaces, DispatchReplaces, Zenon DEF Proceed

LEMMA CompleteReplaces ==
  ASSUME NEW c, NEW m, NEW size, Complete(c, m, size) \/ GeminiComplete(c, m, size)
  PROVE  Replaces(c)
<1>. DEFINE r == [Idle EXCEPT !.model = m, !.size = size, !.now = clock]
            g == [Idle EXCEPT !.model = m, !.size = size, !.now = clock, !.shown = clock]
            s == [r EXCEPT !.shown = model_cache.began]
            t == [r EXCEPT !.phase = "listing", !.seen = listed]
<1>1. DOMAIN r = Fields /\ DOMAIN g = Fields /\ DOMAIN s = Fields /\ DOMAIN t = Fields
  BY DEF Fields
<1>. HIDE DEF r, g, s, t
<1>2. CASE Complete(c, m, size)
  <2>1. \/ Proceed(c, s, model_cache.models)
        \/ Surface(c, r, catalog_error.error)
        \/ Raise(c, Refusal, FALSE)
        \/ call' = [call EXCEPT ![c] = t]
    BY <1>2, Zenon DEF Complete, r, s, t
  <2>. QED
    BY <1>1, <2>1, ProceedReplaces, SurfaceReplaces, RaiseReplaces, Zenon DEF Replaces
<1>3. CASE GeminiComplete(c, m, size)
  <2>1. Raise(c, "RequestNotSupported", FALSE) \/ Inquire(c, g)
    BY <1>3, Zenon DEF GeminiComplete, g
  <2>. QED
    BY <1>1, <2>1, RaiseReplaces, SendReplaces
<1>. QED
  BY <1>2, <1>3

LEMMA StepReplacesOne ==
  ASSUME Known, [Next]_vars
  PROVE  UNCHANGED call \/ \E c \in Calls : Replaces(c)
<1>1. ASSUME NEW c \in Calls, NEW q, Listed(c, q)  PROVE Replaces(c)
  <2>. DEFINE r == [call[c] EXCEPT !.observed = q, !.shown = call[c].now, !.seen = {}]
  <2>1. DOMAIN r = Fields
    BY DEF Known
  <2>2. Proceed(c, r, call[c].seen)
    BY <1>1, Zenon DEF Listed
  <2>. QED  BY <2>1, <2>2, ProceedReplaces
<1>2. ASSUME NEW c \in Calls, NEW q, Checked(c, q) \/ Described(c, q) \/ Shown(c, q)
      PROVE  Replaces(c)
  <2>. DEFINE r == [call[c] EXCEPT !.observed = q]
  <2>1. DOMAIN r = Fields
    BY DEF Known
  <2>. HIDE DEF r
  <2>2. Dispatch(c, r) \/ Send(c, r) \/ \E e : Raise(c, e, FALSE)
    BY <1>2, Zenon DEF Checked, Described, Shown, r
  <2>. QED  BY <2>1, <2>2, DispatchReplaces, SendReplaces, RaiseReplaces
<1>3. ASSUME NEW c \in Calls, NEW q, Headers(c, q) \/ Render(c)  PROVE Replaces(c)
  <2>1. /\ call' = [call EXCEPT ![c] = call'[c]]
        /\ DOMAIN call'[c] = Fields
    BY <1>3 DEF Headers, Render, Known
  <2>. QED  BY <2>1 DEF Replaces
<1>4. ASSUME NEW c \in Calls, NEW e, ListingFails(c, e) \/ CheckFails(c, e) \/ Refused(c, e)
      PROVE  Replaces(c)
  <2>1. DOMAIN call[c] = Fields
    BY DEF Known
  <2>. QED
    BY <1>4, <2>1, RaiseReplaces, SurfaceReplaces, Zenon DEF ListingFails, CheckFails, Refused
<1>5. ASSUME NEW c \in Calls, NEW cost, Completed(c, cost)  PROVE Replaces(c)
  BY <1>5, RaiseReplaces, Zenon DEF Completed, Replaces, Fields
<1>6. ASSUME NEW c \in Calls,
             Generated(c) \/ Chatted(c) \/ MonthlyLimitReached(c) \/ NotConfirmed(c) \/ GivenUp(c)
      PROVE  Replaces(c)
  BY <1>6, RaiseReplaces, Zenon
     DEF Generated, Chatted, MonthlyLimitReached, NotConfirmed, GivenUp, Replaces, Fields
<1>7. ASSUME NEW m, Relist(m) \/ Tick  PROVE UNCHANGED call
  BY <1>7, Zenon DEF Relist, Tick
<1>8. CASE UNCHANGED vars
  BY <1>8, Zenon DEF vars
<1>. QED
  BY <1>1, <1>2, <1>3, <1>4, <1>5, <1>6, <1>7, <1>8, CompleteReplaces, Zenon DEF Next

LEMMA KnownInductive ==
  ASSUME Known, [Next]_vars
  PROVE  Known'
<1>1. UNCHANGED spec /\ (UNCHANGED clock \/ Tick)
  <2>1. ASSUME NEW c, NEW m, NEW size, Complete(c, m, size) \/ GeminiComplete(c, m, size)
        PROVE  UNCHANGED <<clock, spec>>
    BY <2>1, Zenon DEF Complete, GeminiComplete
  <2>2. ASSUME NEW c, NEW q,
               Listed(c, q) \/ Checked(c, q) \/ Described(c, q) \/ Shown(c, q) \/ Headers(c, q)
        PROVE  UNCHANGED <<clock, spec>>
    BY <2>2, Zenon DEF Listed, Checked, Described, Shown, Headers
  <2>3. ASSUME NEW c, NEW e,
               ListingFails(c, e) \/ CheckFails(c, e) \/ Refused(c, e) \/ Completed(c, e)
        PROVE  UNCHANGED <<clock, spec>>
    BY <2>3, Zenon DEF ListingFails, CheckFails, Refused, Completed
  <2>4. ASSUME NEW c, \/ Render(c) \/ Generated(c) \/ Chatted(c) \/ GivenUp(c)
                      \/ MonthlyLimitReached(c) \/ NotConfirmed(c)
        PROVE  UNCHANGED <<clock, spec>>
    BY <2>4, Zenon DEF Render, Generated, Chatted, GivenUp, MonthlyLimitReached, NotConfirmed
  <2>5. ASSUME NEW m, Relist(m)  PROVE UNCHANGED <<clock, spec>>
    BY <2>5, Zenon DEF Relist
  <2>6. CASE Tick
    BY <2>6, Zenon DEF Tick
  <2>7. CASE UNCHANGED vars
    BY <2>7, Zenon DEF vars
  <2>. QED
    BY <2>1, <2>2, <2>3, <2>4, <2>5, <2>6, <2>7, Zenon DEF Next
<1>2. clock' \in Nat
  BY <1>1 DEF Tick, Known
<1>3. call' = [c \in Calls |-> call'[c]] /\ \A c \in Calls : DOMAIN call'[c] = Fields
  <2>1. CASE UNCHANGED call
    BY <2>1 DEF Known
  <2>2. ASSUME NEW c \in Calls, Replaces(c)
        PROVE  call' = [d \in Calls |-> call'[d]] /\ \A d \in Calls : DOMAIN call'[d] = Fields
    <3>1. PICK u : DOMAIN u = Fields /\ call' = [call EXCEPT ![c] = u]
      BY <2>2, Zenon DEF Replaces
    <3>. QED  BY <3>1 DEF Known
  <2>. QED  BY <2>1, <2>2, StepReplacesOne
<1>. QED
  BY <1>1, <1>2, <1>3 DEF Known, Fields

LEMMA KnownInitially == Init => Known
BY AdapterAssumption DEF Init, Known, Fields

\* No request of any kind leaves after the review's expiry as an operator is shown
\* it: _admit is asked again after every await, and review_expiry names every date
\* that _admit's answer turns on.
THEOREM SendsEndWithReview == Spec => NothingSentAfterExpiry
<1>1. ASSUME Known, [Next]_vars
      PROVE  \A c \in Calls : Sends(c) /\ Reviewed(spec) => clock <= review_expiry(spec)
  <2>. SUFFICES ASSUME NEW c \in Calls, Sends(c), Reviewed(spec)
                PROVE  clock <= review_expiry(spec)
    OBVIOUS
  <2>1. qualified(spec, clock)
    BY <1>1, SendersAreAdmitted, Zenon DEF Admitted, admit_provider
  <2>. QED
    BY <1>1, <2>1, NeverPastExpiry DEF Known
<1>. QED
  BY <1>1, KnownInitially, KnownInductive, PTL DEF Spec, NothingSentAfterExpiry

-----------------------------------------------------------------------------
(* How errors travel: from the adapter through the guard to the router. *)

\* What a class and the classes above it are, written out.
Ancestry(e) ==
    IF e \notin DOMAIN Parent THEN {e, "Exception"}
    ELSE IF Parent[e] \notin DOMAIN Parent THEN {e, Parent[e], "Exception"}
    ELSE {e, Parent[e], Parent[Parent[e]], "Exception"}

LEMMA ParentsAreErrors ==
  /\ DOMAIN Parent \subseteq Errors
  /\ \A e \in DOMAIN Parent : Parent[e] \in Errors
  /\ \A e \in DOMAIN Parent : Parent[e] \in DOMAIN Parent =>
        Parent[Parent[e]] \notin DOMAIN Parent
BY DEF Parent, Errors, Roots

\* The hierarchy is two deep at most, so that the recursion of Kinds ends.
LEMMA KindsAreAncestry ==
  ASSUME NEW e \in Errors
  PROVE  Kinds[e] = Ancestry(e)
<1>. DEFINE Unrolled(f) ==
        [x \in Errors |-> IF x \in DOMAIN Parent THEN {x} \cup f[Parent[x]] ELSE {x, "Exception"}]
            K == [x \in Errors |-> Ancestry(x)]
<1>1. K = Unrolled(K)
  <2>1. ASSUME NEW x \in Errors
        PROVE  Ancestry(x) =
                 IF x \in DOMAIN Parent THEN {x} \cup K[Parent[x]] ELSE {x, "Exception"}
    <3>1. CASE x \notin DOMAIN Parent
      BY <3>1, Zenon DEF Ancestry
    <3>2. CASE x \in DOMAIN Parent /\ Parent[x] \notin DOMAIN Parent
      <4>1. K[Parent[x]] = {Parent[x], "Exception"}
        BY <3>2, ParentsAreErrors, Zenon DEF Ancestry
      <4>. QED  BY <3>2, <4>1 DEF Ancestry
    <3>3. CASE x \in DOMAIN Parent /\ Parent[x] \in DOMAIN Parent
      <4>1. K[Parent[x]] = {Parent[x], Parent[Parent[x]], "Exception"}
        BY <3>3, ParentsAreErrors, Zenon DEF Ancestry
      <4>. QED  BY <3>3, <4>1 DEF Ancestry
    <3>. QED  BY <3>1, <3>2, <3>3
  <2>. QED  BY <2>1, Zenon
<1>2. Kinds = CHOOSE f : f = Unrolled(f)
  BY Zenon DEF Kinds
<1>. HIDE DEF K
<1>3. Kinds = Unrolled(Kinds)
  BY <1>1, <1>2, Zenon
<1>4. \A x \in Errors :
         Kinds[x] = IF x \in DOMAIN Parent THEN {x} \cup Kinds[Parent[x]] ELSE {x, "Exception"}
  BY <1>3, Zenon
<1>5. CASE e \notin DOMAIN Parent
  BY <1>4, <1>5, Zenon DEF Ancestry
<1>6. CASE e \in DOMAIN Parent /\ Parent[e] \notin DOMAIN Parent
  <2>1. Kinds[Parent[e]] = {Parent[e], "Exception"}
    BY <1>4, <1>6, ParentsAreErrors, Zenon
  <2>2. Kinds[e] = {e} \cup Kinds[Parent[e]]
    BY <1>4, <1>6, Zenon
  <2>. QED  BY <1>6, <2>1, <2>2 DEF Ancestry
<1>7. CASE e \in DOMAIN Parent /\ Parent[e] \in DOMAIN Parent
  <2>. DEFINE q == Parent[e]  r == Parent[q]
  <2>1. q \in Errors /\ q \in DOMAIN Parent /\ r \in Errors /\ r \notin DOMAIN Parent
    BY <1>7, ParentsAreErrors, Zenon
  <2>2. Kinds[r] = {r, "Exception"} /\ Kinds[q] = {q} \cup Kinds[r] /\ Kinds[e] = {e} \cup Kinds[q]
    BY <1>4, <1>7, <2>1, Zenon
  <2>3. Kinds[e] = {e, q, r, "Exception"}
    BY <2>2
  <2>. QED  BY <1>7, <2>3, Zenon DEF Ancestry
<1>. QED  BY <1>5, <1>6, <1>7

\* The clause that wins is the first that names the error or a class above it.
LEMMA CaughtByFirst ==
  ASSUME NEW e \in Errors, NEW S, NEW clauses \in Seq(S),
         NEW k \in DOMAIN clauses, clauses[k] \in Ancestry(e)
  PROVE  \E i \in DOMAIN clauses :
            /\ Caught(clauses, e) = clauses[i] /\ clauses[i] \in Ancestry(e)
            /\ \A j \in DOMAIN clauses : clauses[j] \in Ancestry(e) => i <= j
<1>. DEFINE T == {i \in DOMAIN clauses : clauses[i] \in Kinds[e]}
<1>1. T \in SUBSET Nat /\ k \in T
  BY KindsAreAncestry
<1>2. Earliest(T) \in T /\ \A j \in T : Earliest(T) <= j
  BY <1>1, EarliestExists, Zenon
<1>3. Caught(clauses, e) = clauses[Earliest(T)]
  BY Zenon DEF Caught
<1>. QED
  BY <1>2, <1>3, KindsAreAncestry, Zenon

\* The guard raises an error again as what it was; only the refusal to admit,
\* which no clause names, becomes another.
LEMMA GuardKeepsTheError ==
  ASSUME NEW e \in Errors
  PROVE  /\ Guarded(e) \in Errors
         /\ Guarded(e) \in {"RequestNotSupported", "ModelUnavailable"} => Guarded(e) = e
<1>1. /\ GuardClauses \in Seq(Errors \cup {"Exception"})
      /\ DOMAIN GuardClauses = 1..12
      /\ GuardClauses[12] = "Exception" /\ GuardClauses[7] = "RequestTooLarge"
      /\ GuardClauses[8] = "RequestNotSupported"
      /\ \A i \in 1..12 : GuardClauses[i] = "RequestNotSupported" => i = 8
  BY DEF GuardClauses, Errors, Roots, Parent
<1>2. "Exception" \in Ancestry(e)
  BY DEF Ancestry
<1>3. PICK i \in DOMAIN GuardClauses :
         /\ Caught(GuardClauses, e) = GuardClauses[i] /\ GuardClauses[i] \in Ancestry(e)
         /\ \A j \in DOMAIN GuardClauses : GuardClauses[j] \in Ancestry(e) => i <= j
  <2>1. 12 \in DOMAIN GuardClauses /\ GuardClauses[12] \in Ancestry(e)
    BY <1>1, <1>2
  <2>. QED  BY <1>1, <2>1, CaughtByFirst
<1>4. Guarded(e) = IF GuardClauses[i] = "Exception" THEN "ProviderUnavailable" ELSE GuardClauses[i]
  BY <1>3 DEF Guarded
<1>5. Guarded(e) \in Errors
  <2>1. GuardClauses[i] \in Errors \cup {"Exception"}
    <3>. DEFINE E == Errors \cup {"Exception"}  clauses == GuardClauses
    <3>1. clauses \in Seq(E) /\ i \in DOMAIN clauses
      BY <1>1, <1>3
    <3>. HIDE DEF E, clauses
    <3>2. clauses[i] \in E
      BY <3>1
    <3>. QED  BY <3>2 DEF E, clauses
  <2>2. "ProviderUnavailable" \in Errors
    BY DEF Errors, Roots
  <2>. QED  BY <1>4, <2>1, <2>2, Zenon
<1>6. CASE Guarded(e) = "ModelUnavailable"
  <2>1. "ModelUnavailable" \in Ancestry(e)
    BY <1>3, <1>4, <1>6
  <2>. QED  BY <1>5, <1>6, <2>1 DEF Ancestry, Parent, Errors, Roots
<1>7. CASE Guarded(e) = "RequestNotSupported"
  <2>1. "RequestNotSupported" \in Ancestry(e) /\ i = 8
    BY <1>1, <1>3, <1>4, <1>7
  <2>2. e \in {"RequestNotSupported", "RequestTooLarge"}
    BY <2>1 DEF Ancestry, Parent, Errors, Roots
  <2>3. e # "RequestTooLarge"
    <3>1. SUFFICES ASSUME e = "RequestTooLarge"  PROVE FALSE
      OBVIOUS
    <3>2. GuardClauses[7] \in Ancestry(e)
      BY <1>1, <3>1 DEF Ancestry
    <3>. QED  BY <1>1, <1>3, <2>1, <3>2
  <2>. QED  BY <1>5, <1>7, <2>2, <2>3
<1>. QED  BY <1>5, <1>6, <1>7

\* No error is settled as an answer, and only two give the reservation back:
\* those raised before a completion is sent.
LEMMA ErrorsSettle ==
  ASSUME NEW e \in Errors
  PROVE  LET effect == EffectOf[Caught(RouterClauses, Guarded(e))] IN
         /\ effect \in Effects \ {"answered"}
         /\ effect = "refunded" => e \in {"RequestNotSupported", "ModelUnavailable"}
<1>. DEFINE g == Guarded(e)
<1>1. g \in Errors
  BY GuardKeepsTheError
<1>2. /\ RouterClauses \in Seq(Errors \cup {"Exception"})
      /\ DOMAIN RouterClauses = 1..10
      /\ RouterClauses[10] = "Exception" /\ RouterClauses[5] = "RequestTooLarge"
      /\ \A i \in 1..10 : RouterClauses[i] = "RequestNotSupported" => i = 6
      /\ \A i \in 1..10 : RouterClauses[i] \in DOMAIN EffectOf
  BY DEF RouterClauses, EffectOf, Errors, Roots, Parent
<1>3. "Exception" \in Ancestry(g)
  BY DEF Ancestry
<1>. HIDE DEF g
<1>4. PICK i \in DOMAIN RouterClauses :
         /\ Caught(RouterClauses, g) = RouterClauses[i] /\ RouterClauses[i] \in Ancestry(g)
         /\ \A j \in DOMAIN RouterClauses : RouterClauses[j] \in Ancestry(g) => i <= j
  <2>1. 10 \in DOMAIN RouterClauses /\ RouterClauses[10] \in Ancestry(g)
    BY <1>2, <1>3
  <2>. QED  BY <1>1, <1>2, <2>1, CaughtByFirst
<1>. DEFINE clause == RouterClauses[i]
<1>5. clause \in DOMAIN EffectOf
  BY <1>2
<1>6. EffectOf[clause] \in Effects \ {"answered"}
  BY <1>5 DEF EffectOf, Effects
<1>7. ASSUME EffectOf[clause] = "refunded"
      PROVE  e \in {"RequestNotSupported", "ModelUnavailable"}
  <2>1. clause \in {"RequestNotSupported", "ModelUnavailable"}
    BY <1>5, <1>7 DEF EffectOf
  <2>2. g \in {"RequestNotSupported", "ModelUnavailable", "RequestTooLarge"}
    BY <1>1, <1>4, <2>1 DEF Ancestry, Parent, Errors, Roots
  <2>3. g # "RequestTooLarge"
    <3>1. SUFFICES ASSUME g = "RequestTooLarge"  PROVE FALSE
      OBVIOUS
    <3>2. clause = "RequestNotSupported"
      BY <1>4, <2>1, <3>1 DEF Ancestry, Parent
    <3>3. RouterClauses[5] \in Ancestry(g)
      BY <1>2, <3>1 DEF Ancestry
    <3>. QED  BY <1>2, <1>4, <3>2, <3>3
  <2>. QED  BY <2>2, <2>3, GuardKeepsTheError DEF g
<1>. QED  BY <1>4, <1>6, <1>7 DEF g

-----------------------------------------------------------------------------
(* The inductive invariant: the types, and what makes the properties hold. *)

\* The catalogue is held under the time it was asked for, which has been.
World ==
    /\ clock \in Nat /\ adapter \in Adapters /\ spec \in Providers[adapter]
    /\ listed \subseteq Models
    /\ model_cache \in [held: BOOLEAN, models: SUBSET Models, at: Nat, began: Nat]
    /\ model_cache.began = model_cache.at /\ model_cache.at <= clock
    /\ catalog_error \in [error: Errors \cup {NoError}, at: Nat]
    /\ quota \in Allowances

\* The model was shown by a recent catalogue by the time a completion is on its
\* way, only a refusal for quota or rate is ever confirmed, and what a stream's
\* headers said stays with the call.
Fits(r, now) ==
    /\ r \in CallType /\ r.now <= now
    /\ r.phase = "idle" <=> r = Idle
    /\ r.phase # "idle" => r.model \in Models /\ r.size \in Sizes
    /\ r.phase \in {"listing", "checking"} => ~r.sent
    /\ r.phase \in {"checking"} \cup Sent => r.now - r.shown < CatalogTTL
    /\ r.phase = "confirming" => r.refusal \in {"QuotaExceeded", "RateLimited"}
    /\ r.phase = "streaming" => r.observed = r.reported

CallsFit == call \in [Calls -> CallType] /\ \A c \in Calls : Fits(call[c], clock)

SettledFits ==
    /\ settled \in Settlements
    /\ settled.effect = "answered" =>
          /\ settled.quota = settled.reported
          /\ ZeroPriced(adapter) =>
                settled.cost \in {"zero", "missing"} /\ settled.price_age < CatalogTTL
    /\ settled.effect = "refunded" => ~settled.sent

\* Each size held back is one the provider refused, held no longer than that allows.
Backed(m, e) ==
    last_refused[m][e.size] # Never /\ e.until <= last_refused[m][e.size] + SizeTTL

SizesFit ==
    /\ refused_sizes \in [Models -> Seq(Entries)]
    /\ last_refused \in [Models -> [Sizes -> Nat \cup {Never}]]
    /\ \A m \in Models, z \in Sizes : last_refused[m][z] # Never => last_refused[m][z] <= clock
    /\ \A m \in Models :
          /\ Len(refused_sizes[m]) <= Slots
          /\ \A i \in DOMAIN refused_sizes[m] : Backed(m, refused_sizes[m][i])

AdapterInv == World /\ CallsFit /\ SettledFits /\ SizesFit

LEMMA AdapterConstants ==
  /\ CatalogTTL \in Nat \ {0} /\ SizeTTL \in Nat \ {0} /\ Slots \in Nat \ {0}
  /\ NoError \notin Errors /\ Never \notin Nat
  /\ Sizes \subseteq Nat \X Nat
BY AdapterAssumption, AdmissionAssumption DEF Sizes

-----------------------------------------------------------------------------
(* Sizes held back *)

LEMMA LiveKeeps ==
  ASSUME SizesFit, NEW m \in Models
  PROVE  /\ Live(m) \in Seq(Entries) /\ Len(Live(m)) <= Slots
         /\ \A n \in DOMAIN Live(m) :
               /\ clock < Live(m)[n].until
               /\ \E i \in DOMAIN refused_sizes[m] : Live(m)[n] = refused_sizes[m][i]
<1>. DEFINE s == refused_sizes[m]  K == {i \in DOMAIN s : clock < s[i].until}
<1>1. s \in Seq(Entries) /\ Len(s) <= Slots
  BY DEF SizesFit
<1>2. K \in SUBSET DOMAIN s /\ \A i \in K : clock < s[i].until
  OBVIOUS
<1>3. Live(m) = Picked(s, K)
  BY DEF Live
<1>. HIDE DEF s, K
<1>4. /\ Cardinality(K) \in Nat /\ Cardinality(K) <= Len(s)
      /\ Picked(s, K) \in Seq(Entries) /\ Len(Picked(s, K)) = Cardinality(K)
      /\ \A n \in DOMAIN Picked(s, K) : Nth(K, n) \in K /\ Picked(s, K)[n] = s[Nth(K, n)]
  BY <1>1, <1>2, PickedItems
<1>5. Len(Live(m)) <= Slots
  BY <1>1, <1>3, <1>4, AdapterConstants
<1>6. \A n \in DOMAIN Live(m) :
         clock < Live(m)[n].until /\ \E i \in DOMAIN s : Live(m)[n] = s[i]
  BY <1>2, <1>3, <1>4
<1>. QED  BY <1>3, <1>4, <1>5, <1>6 DEF s

\* Of a list the last n items are kept; the very last is one of them.
LEMMA LastOfKeeps ==
  ASSUME NEW S, NEW s \in Seq(S), NEW n \in Nat \ {0}
  PROVE  /\ LastOf(n, s) \in Seq(S) /\ Len(LastOf(n, s)) <= n
         /\ \A i \in DOMAIN LastOf(n, s) : \E j \in DOMAIN s : LastOf(n, s)[i] = s[j]
         /\ s # <<>> => \E i \in DOMAIN LastOf(n, s) : LastOf(n, s)[i] = s[Len(s)]
<1>1. CASE Len(s) <= n
  BY <1>1 DEF LastOf
<1>2. CASE Len(s) > n
  <2>. DEFINE k == Len(s) - n  t == SubSeq(s, k + 1, Len(s))
  <2>1. k \in Nat /\ Len(s) \in Nat /\ k + n = Len(s)
    BY <1>2
  <2>2. t \in Seq(S) /\ Len(t) = n /\ \A i \in 1..n : t[i] = s[k + i]
    <3>. HIDE DEF k
    <3>1. \A i \in (k + 1)..Len(s) : s[i] \in S
      BY <2>1
    <3>2. k + 1 \in Int /\ Len(s) \in Int /\ k + 1 <= Len(s)
      BY <2>1
    <3>3. /\ SubSeq(s, k + 1, Len(s)) \in Seq(S)
          /\ Len(SubSeq(s, k + 1, Len(s))) = Len(s) - (k + 1) + 1
          /\ \A i \in 1..(Len(s) - (k + 1) + 1) : SubSeq(s, k + 1, Len(s))[i] = s[k + 1 + i - 1]
      BY <3>1, <3>2, SubSeqProperties
    <3>4. Len(s) - (k + 1) + 1 = n /\ \A i \in 1..n : k + 1 + i - 1 = k + i
      BY <2>1
    <3>. QED  BY <3>3, <3>4
  <2>3. LastOf(n, s) = t
    BY <1>2 DEF LastOf
  <2>. HIDE DEF t, k
  <2>4. DOMAIN t = 1..n /\ \A i \in 1..n : k + i \in DOMAIN s
    BY <2>1, <2>2
  <2>5. n \in DOMAIN t /\ t[n] = s[Len(s)]
    BY <2>1, <2>2, <2>4
  <2>. QED  BY <2>2, <2>3, <2>4, <2>5
<1>. QED  BY <1>1, <1>2

\* Remembering a refused size keeps of the others only some that were held, and
\* holds the size itself, unless what is held covers it already.
LEMMA RememberedKeeps ==
  ASSUME SizesFit, clock \in Nat, NEW m \in Models, NEW size \in Sizes
  PROVE  LET new == [size |-> size, until |-> clock + SizeTTL]  after == Remembered(m, size) IN
         /\ after \in Seq(Entries) /\ Len(after) <= Slots
         /\ \A n \in DOMAIN after :
               after[n] = new \/ \E i \in DOMAIN refused_sizes[m] : after[n] = refused_sizes[m][i]
         /\ ~Covers(Live(m), size) => \E n \in DOMAIN after : after[n] = new
         /\ Covers(Live(m), size) => after = Live(m)
<1>. DEFINE new == [size |-> size, until |-> clock + SizeTTL]
            live == Live(m)
            kept == Smaller(live, size)
            all == Append(kept, new)
            after == Remembered(m, size)
<1>1. /\ live \in Seq(Entries) /\ Len(live) <= Slots
      /\ \A n \in DOMAIN live : \E i \in DOMAIN refused_sizes[m] : live[n] = refused_sizes[m][i]
  BY LiveKeeps
<1>2. new \in Entries
  BY AdapterConstants DEF Entries
<1>3. CASE Covers(live, size)
  <2>1. after = live
    BY <1>3 DEF Remembered
  <2>. QED  BY <1>1, <1>3, <2>1
<1>4. CASE ~Covers(live, size)
  <2>1. after = LastOf(Slots, all)
    BY <1>4 DEF Remembered
  <2>2. kept \in Seq(Entries) /\ \A n \in DOMAIN kept : \E i \in DOMAIN live : kept[n] = live[i]
    <3>. DEFINE K == {i \in DOMAIN live : ~AsLarge(live[i].size, size)}
    <3>1. K \in SUBSET DOMAIN live /\ kept = Picked(live, K)
      BY DEF Smaller
    <3>. HIDE DEF K, live, kept
    <3>. QED  BY <1>1, <3>1, PickedItems
  <2>. HIDE DEF new, live, kept, after
  <2>3. /\ all \in Seq(Entries) /\ all # <<>> /\ all[Len(all)] = new
        /\ \A n \in DOMAIN all : all[n] = new \/ \E i \in DOMAIN kept : all[n] = kept[i]
    BY <1>2, <2>2
  <2>. HIDE DEF all
  <2>4. \A n \in DOMAIN all :
           all[n] = new \/ \E i \in DOMAIN refused_sizes[m] : all[n] = refused_sizes[m][i]
    BY <1>1, <2>2, <2>3
  <2>5. /\ after \in Seq(Entries) /\ Len(after) <= Slots
        /\ \A i \in DOMAIN after : \E j \in DOMAIN all : after[i] = all[j]
        /\ \E i \in DOMAIN after : after[i] = all[Len(all)]
    BY <2>1, <2>3, LastOfKeeps, AdapterConstants
  <2>6. /\ \A n \in DOMAIN after :
              after[n] = new \/ \E i \in DOMAIN refused_sizes[m] : after[n] = refused_sizes[m][i]
        /\ \E n \in DOMAIN after : after[n] = new
    BY <2>3, <2>4, <2>5
  <2>. QED  BY <1>4, <2>5, <2>6 DEF new, live, after
<1>. QED  BY <1>3, <1>4

\* Entries that lapsed are forgotten whenever a size is looked up.
LEMMA ForgettingFits ==
  ASSUME SizesFit, NEW m \in Models, refused_sizes' = [refused_sizes EXCEPT ![m] = Live(m)],
         UNCHANGED <<clock, last_refused>>
  PROVE  SizesFit'
<1>. DEFINE live == Live(m)
<1>1. /\ live \in Seq(Entries) /\ Len(live) <= Slots
      /\ \A n \in DOMAIN live : \E i \in DOMAIN refused_sizes[m] : live[n] = refused_sizes[m][i]
  BY LiveKeeps
<1>2. refused_sizes' = [refused_sizes EXCEPT ![m] = live]
  OBVIOUS
<1>. HIDE DEF live
<1>3. refused_sizes' \in [Models -> Seq(Entries)]
  BY <1>1, <1>2 DEF SizesFit
<1>4. ASSUME NEW k \in Models
      PROVE  /\ Len(refused_sizes'[k]) <= Slots
             /\ \A i \in DOMAIN refused_sizes'[k] : Backed(k, refused_sizes'[k][i])
  <2>1. CASE k = m
    <3>1. refused_sizes'[k] = live
      BY <1>2, <2>1 DEF SizesFit
    <3>. QED  BY <1>1, <2>1, <3>1 DEF SizesFit
  <2>2. CASE k # m
    <3>1. refused_sizes'[k] = refused_sizes[k]
      BY <1>2, <2>2 DEF SizesFit
    <3>. QED  BY <3>1 DEF SizesFit
  <2>. QED  BY <2>1, <2>2
<1>. QED  BY <1>3, <1>4 DEF SizesFit, Backed

LEMMA RememberingFits ==
  ASSUME SizesFit, clock \in Nat, UNCHANGED clock, NEW m \in Models, NEW size \in Sizes,
         refused_sizes' = [refused_sizes EXCEPT ![m] = Remembered(m, size)],
         last_refused' = [last_refused EXCEPT ![m][size] = clock]
  PROVE  SizesFit'
<1>. DEFINE new == [size |-> size, until |-> clock + SizeTTL]  after == Remembered(m, size)
            Held(k, e) == /\ last_refused'[k][e.size] # Never
                          /\ e.until <= last_refused'[k][e.size] + SizeTTL
<1>1. /\ after \in Seq(Entries) /\ Len(after) <= Slots
      /\ \A n \in DOMAIN after :
            after[n] = new \/ \E i \in DOMAIN refused_sizes[m] : after[n] = refused_sizes[m][i]
  BY RememberedKeeps
<1>2. refused_sizes' = [refused_sizes EXCEPT ![m] = after]
  OBVIOUS
<1>3. new.size = size /\ new.until = clock + SizeTTL
  OBVIOUS
<1>. HIDE DEF new, after
<1>4. /\ refused_sizes' \in [Models -> Seq(Entries)]
      /\ last_refused' \in [Models -> [Sizes -> Nat \cup {Never}]]
  BY <1>1, <1>2 DEF SizesFit
<1>5. ASSUME NEW k \in Models, NEW z \in Sizes
      PROVE  last_refused'[k][z] = IF k = m /\ z = size THEN clock ELSE last_refused[k][z]
  BY DEF SizesFit
<1>6. \A k \in Models, z \in Sizes : last_refused'[k][z] # Never => last_refused'[k][z] <= clock'
  BY <1>5 DEF SizesFit
<1>7. ASSUME NEW k \in Models, NEW e \in Entries, Backed(k, e)
      PROVE  Held(k, e)
  <2>1. e.size \in Sizes /\ e.until \in Nat
    BY DEF Entries
  <2>2. /\ last_refused[k][e.size] # Never /\ last_refused[k][e.size] \in Nat
        /\ e.until <= last_refused[k][e.size] + SizeTTL /\ last_refused[k][e.size] <= clock
    BY <1>7, <2>1 DEF Backed, SizesFit
  <2>3. clock # Never
    BY AdapterConstants
  <2>. QED  BY <1>5, <2>1, <2>2, <2>3, AdapterConstants
<1>8. Held(m, new)
  <2>1. clock # Never /\ clock + SizeTTL <= clock + SizeTTL
    BY AdapterConstants
  <2>. QED  BY <1>3, <1>5, <2>1
<1>9. ASSUME NEW k \in Models
      PROVE  /\ Len(refused_sizes'[k]) <= Slots
             /\ \A i \in DOMAIN refused_sizes'[k] : Held(k, refused_sizes'[k][i])
  <2>0. \A i \in DOMAIN refused_sizes[k] :
           refused_sizes[k][i] \in Entries /\ Backed(k, refused_sizes[k][i])
    BY DEF SizesFit
  <2>1. CASE k = m
    <3>1. refused_sizes'[k] = after
      BY <1>2, <2>1 DEF SizesFit
    <3>2. \A i \in DOMAIN after : Held(k, after[i])
      BY <1>1, <1>7, <1>8, <2>0, <2>1
    <3>. QED  BY <1>1, <3>1, <3>2
  <2>2. CASE k # m
    <3>1. refused_sizes'[k] = refused_sizes[k]
      BY <1>2, <2>2 DEF SizesFit
    <3>. QED  BY <1>7, <2>0, <3>1 DEF SizesFit
  <2>. QED  BY <2>1, <2>2
<1>. QED  BY <1>4, <1>6, <1>9 DEF SizesFit, Backed

-----------------------------------------------------------------------------
(* What one step does to the call it is of, and how it settles it. *)

\* The step replaces the record of c by one that fits, and settles as it should.
Kept(c) == SettledFits' /\ \E u : Fits(u, clock) /\ call' = [call EXCEPT ![c] = u]

Refundable == {"RequestNotSupported", "ModelUnavailable"}

\* A record from which the completion, or a question before it, may be sent.
Ready(r) ==
    /\ r \in CallType /\ r.now <= clock /\ r.model \in Models /\ r.size \in Sizes
    /\ ~r.sent /\ r.now - r.shown < CatalogTTL

LEMMA IdleFits == clock \in Nat => Fits(Idle, clock)
BY DEF Fits, Idle, CallType, Phases, Sent, Allowances

LEMMA UnansweredFits ==
  ASSUME NEW effect \in Effects \ {"answered"}, NEW sent \in BOOLEAN,
         effect = "refunded" => ~sent, settled' = Ended(effect, sent)
  PROVE  SettledFits'
<1>1. /\ settled' \in Settlements /\ settled'.effect = effect /\ settled'.sent = sent
  BY DEF Ended, Settlements, Costs, Allowances
<1>. QED  BY <1>1, Zenon DEF SettledFits

LEMMA NothingFits == settled' = Nothing => SettledFits'
<1>1. "none" \in Effects \ {"answered"} /\ FALSE \in BOOLEAN /\ "none" # "refunded"
  BY DEF Effects
<1>. QED  BY <1>1, UnansweredFits, Zenon DEF Nothing

\* An error that gives the reservation back is raised only for a call unsent.
LEMMA RaiseKept ==
  ASSUME clock \in Nat, NEW c, NEW e \in Errors, NEW sent \in BOOLEAN,
         sent => e \notin Refundable, Raise(c, e, sent)
  PROVE  Kept(c)
<1>. DEFINE effect == EffectOf[Caught(RouterClauses, Guarded(e))]
<1>1. effect \in Effects \ {"answered"} /\ (effect = "refunded" => e \in Refundable)
  BY ErrorsSettle DEF Refundable
<1>2. settled' = Ended(effect, sent) /\ call' = [call EXCEPT ![c] = Idle]
  BY DEF Raise
<1>. HIDE DEF effect
<1>3. SettledFits'
  BY <1>1, <1>2, UnansweredFits
<1>. QED  BY <1>2, <1>3, IdleFits, Zenon DEF Kept

LEMMA RaiseUnsentKept ==
  ASSUME clock \in Nat, NEW c, NEW e \in Errors, Raise(c, e, FALSE)
  PROVE  Kept(c)
<1>. DEFINE sent == FALSE
<1>1. sent \in BOOLEAN /\ (sent => e \notin Refundable) /\ Raise(c, e, sent)
  BY Zenon
<1>. HIDE DEF sent
<1>. QED  BY <1>1, RaiseKept, Zenon

LEMMA RaisedAreErrors ==
  /\ Refusal \in Errors
  /\ {"RequestNotSupported", "ModelUnavailable", "AuthenticationFailed", "BillingViolation",
       "QuotaExceeded", "RateLimited"} \subseteq Errors
  /\ ReplyErrors \subseteq Errors /\ ReplyErrors \cap Refundable = {}
  /\ {"QuotaExceeded", "RateLimited", "BillingViolation"} \cap Refundable = {}
  /\ CatalogFaults \subseteq ReplyErrors
BY AdapterAssumption
   DEF Refusal, Errors, Roots, Parent, ReplyErrors, StatusErrors, BodyErrors, ReadErrors, Refundable

LEMMA SendKept ==
  ASSUME clock \in Nat, NEW c, NEW r, Ready(r), Send(c, r) \/ Inquire(c, r)
  PROVE  Kept(c)
<1>. DEFINE s == [r EXCEPT !.phase = "asking", !.sent = TRUE]
            q == [r EXCEPT !.phase = "checking"]
<1>1. Fits(s, clock)
  <2>1. /\ s \in CallType /\ s.phase = "asking" /\ s.now = r.now /\ s.shown = r.shown
        /\ s.model = r.model /\ s.size = r.size
    BY DEF Ready, CallType, Phases
  <2>2. s # Idle
    BY <2>1 DEF Idle
  <2>. HIDE DEF s
  <2>. QED  BY <2>1, <2>2 DEF Ready, Fits, Sent
<1>2. Fits(q, clock)
  <2>1. /\ q \in CallType /\ q.phase = "checking" /\ q.now = r.now /\ q.shown = r.shown
        /\ q.model = r.model /\ q.size = r.size /\ q.sent = r.sent
    BY DEF Ready, CallType, Phases
  <2>2. q # Idle
    BY <2>1 DEF Idle
  <2>. HIDE DEF q
  <2>. QED  BY <2>1, <2>2 DEF Ready, Fits, Sent
<1>3. CASE Raise(c, Refusal, FALSE)
  BY <1>3, RaiseUnsentKept, RaisedAreErrors
<1>4. CASE call' = [call EXCEPT ![c] = s] /\ settled' = Nothing
  <2>. HIDE DEF s
  <2>. QED  BY <1>1, <1>4, NothingFits, Zenon DEF Kept
<1>5. CASE call' = [call EXCEPT ![c] = q] /\ settled' = Nothing
  <2>. HIDE DEF q
  <2>. QED  BY <1>2, <1>5, NothingFits, Zenon DEF Kept
<1>. QED  BY <1>3, <1>4, <1>5, Zenon DEF Send, Inquire

LEMMA SurfaceKept ==
  ASSUME clock \in Nat, NEW c, NEW r \in CallType, r.now <= clock, r.model \in Models,
         r.size \in Sizes, NEW e \in Errors, r.sent => e \notin Refundable, Surface(c, r, e)
  PROVE  Kept(c)
<1>. DEFINE w == [r EXCEPT !.phase = "confirming", !.refusal = e]
<1>1. CASE Raise(c, e, r.sent)
  <2>1. r.sent \in BOOLEAN
    BY DEF CallType
  <2>. QED  BY <1>1, <2>1, RaiseKept
<1>2. CASE e \in {"QuotaExceeded", "RateLimited"} /\ call' = [call EXCEPT ![c] = w] /\ settled' = Nothing
  <2>1. /\ w \in CallType /\ w.phase = "confirming" /\ w.refusal = e /\ w.now = r.now
        /\ w.model = r.model /\ w.size = r.size
    BY DEF CallType, Phases
  <2>2. w # Idle
    BY <2>1 DEF Idle
  <2>. HIDE DEF w
  <2>3. Fits(w, clock)
    BY <1>2, <2>1, <2>2 DEF Fits, Sent
  <2>. QED  BY <1>2, <2>3, NothingFits, Zenon DEF Kept
<1>. QED  BY <1>1, <1>2, Zenon DEF Surface

LEMMA SizesStay ==
  ASSUME SizesFit, UNCHANGED <<clock, refused_sizes, last_refused>>
  PROVE  SizesFit'
BY DEF SizesFit, Backed

LEMMA DispatchKept ==
  ASSUME clock \in Nat, SizesFit, NEW c, NEW r, Ready(r), Dispatch(c, r),
         UNCHANGED <<clock, last_refused>>
  PROVE  Kept(c) /\ SizesFit'
<1>1. Kept(c)
  BY RaiseUnsentKept, RaisedAreErrors, SendKept, Zenon DEF Dispatch
<1>2. \/ UNCHANGED refused_sizes
      \/ refused_sizes' = [refused_sizes EXCEPT ![r.model] = Live(r.model)]
  BY Zenon DEF Dispatch
<1>3. SizesFit'
  <2>. DEFINE m == r.model
  <2>1. m \in Models
    BY DEF Ready
  <2>2. UNCHANGED refused_sizes \/ refused_sizes' = [refused_sizes EXCEPT ![m] = Live(m)]
    BY <1>2
  <2>. HIDE DEF m
  <2>. QED  BY <2>1, <2>2, SizesStay, ForgettingFits
<1>. QED  BY <1>1, <1>3

LEMMA ProceedKept ==
  ASSUME clock \in Nat, SizesFit, NEW c, NEW r, Ready(r), NEW models, Proceed(c, r, models),
         UNCHANGED <<clock, last_refused>>
  PROVE  Kept(c) /\ SizesFit'
<1>1. CASE Dispatch(c, r)
  BY <1>1, DispatchKept
<1>2. CASE Inquire(c, r) /\ UNCHANGED refused_sizes
  BY <1>2, SendKept, SizesStay
<1>3. ASSUME NEW e \in {"ModelUnavailable", "RequestNotSupported"}, Raise(c, e, FALSE),
             UNCHANGED refused_sizes
      PROVE  Kept(c) /\ SizesFit'
  BY <1>3, RaiseUnsentKept, RaisedAreErrors, SizesStay
<1>. QED  BY <1>1, <1>2, <1>3, Zenon DEF Proceed

-----------------------------------------------------------------------------
(* Every step keeps the invariant. *)

LEMMA CallsStep ==
  ASSUME CallsFit, NEW c \in Calls, Kept(c), UNCHANGED clock
  PROVE  CallsFit' /\ SettledFits'
<1>1. PICK u : Fits(u, clock) /\ call' = [call EXCEPT ![c] = u]
  BY Zenon DEF Kept
<1>2. u \in CallType
  BY <1>1 DEF Fits
<1>3. call' \in [Calls -> CallType]
  BY <1>1, <1>2 DEF CallsFit
<1>4. ASSUME NEW d \in Calls  PROVE Fits(call'[d], clock')
  <2>1. call'[d] = IF d = c THEN u ELSE call[d]
    BY <1>1 DEF CallsFit
  <2>2. Fits(call[d], clock)
    BY DEF CallsFit
  <2>3. Fits(call'[d], clock)
    BY <1>1, <2>1, <2>2, Zenon
  <2>. QED  BY <2>3, Zenon
<1>. QED  BY <1>3, <1>4, Zenon DEF CallsFit, Kept

LEMMA ReportsAreAllowances ==
  ASSUME quota \in Allowances
  PROVE  /\ Observable \subseteq Allowances
         /\ \A e : Reports(e) \subseteq Allowances
<1>1. Observable \subseteq Allowances
  BY AdapterAssumption DEF Observable, Allowances
<1>2. "spent" \in Allowances
  BY DEF Allowances
<1>3. ASSUME NEW e  PROVE HeaderReports(e) \subseteq Allowances
  BY <1>1 DEF HeaderReports
<1>. QED
  BY <1>1, <1>2, <1>3 DEF Reports, GroqReports, CloudflareReports, GeminiReports

LEMMA CompleteFits ==
  ASSUME AdapterInv, NEW c \in Calls, NEW m \in Models, NEW size \in Sizes,
         Complete(c, m, size)
  PROVE  AdapterInv'
<1>. DEFINE r == [Idle EXCEPT !.model = m, !.size = size, !.now = clock]
            s == [r EXCEPT !.shown = model_cache.began]
            t == [r EXCEPT !.phase = "listing", !.seen = listed]
            refused == [error |-> Refusal, at |-> clock]
<1>1. /\ clock \in Nat /\ listed \subseteq Models /\ SizesFit /\ CallsFit
      /\ model_cache.began \in Nat /\ model_cache.at \in Nat /\ model_cache.began = model_cache.at
      /\ catalog_error \in [error: Errors \cup {NoError}, at: Nat]
  BY DEF AdapterInv, World
<1>2. /\ r \in CallType /\ r.now = clock /\ r.model = m /\ r.size = size /\ r.sent = FALSE
      /\ r.phase = "idle"
  BY <1>1 DEF Idle, CallType, Phases, Allowances
<1>3. /\ s \in CallType /\ s.now = clock /\ s.model = m /\ s.size = size /\ s.sent = FALSE
      /\ s.shown = model_cache.began
  BY <1>1 DEF Idle, CallType, Phases, Allowances
<1>4. /\ t \in CallType /\ t.now = clock /\ t.model = m /\ t.size = size /\ t.sent = FALSE
      /\ t.phase = "listing"
  BY <1>1 DEF Idle, CallType, Phases, Allowances
<1>5. refused \in [error: Errors \cup {NoError}, at: Nat]
  BY <1>1, RaisedAreErrors
<1>6. /\ UNCHANGED <<clock, adapter, spec, listed, model_cache, quota, last_refused>>
      /\ \/ CacheFresh /\ Proceed(c, s, model_cache.models) /\ UNCHANGED catalog_error
         \/ /\ ErrorFresh /\ Surface(c, r, catalog_error.error)
            /\ UNCHANGED <<catalog_error, refused_sizes>>
         \/ Raise(c, Refusal, FALSE) /\ catalog_error' = refused /\ UNCHANGED refused_sizes
         \/ /\ call' = [call EXCEPT ![c] = t] /\ settled' = Nothing
            /\ UNCHANGED <<catalog_error, refused_sizes>>
  BY Zenon DEF Complete, r, s, t, refused
<1>. HIDE DEF r, s, t, refused
<1>7. catalog_error' \in [error: Errors \cup {NoError}, at: Nat]
  BY <1>1, <1>5, <1>6, Zenon
<1>8. Kept(c) /\ SizesFit'
  <2>1. CASE CacheFresh /\ Proceed(c, s, model_cache.models)
    <3>1. Ready(s)
      BY <1>1, <1>3, <2>1 DEF Ready, CacheFresh
    <3>. QED  BY <1>1, <1>6, <2>1, <3>1, ProceedKept
  <2>2. CASE ErrorFresh /\ Surface(c, r, catalog_error.error) /\ UNCHANGED refused_sizes
    <3>. DEFINE e == catalog_error.error
    <3>1. e \in Errors /\ Surface(c, r, e)
      BY <1>1, <2>2 DEF ErrorFresh
    <3>2. r.now <= clock
      BY <1>1, <1>2
    <3>. HIDE DEF e
    <3>. QED  BY <1>1, <1>2, <1>6, <2>2, <3>1, <3>2, SurfaceKept, SizesStay
  <2>3. CASE Raise(c, Refusal, FALSE) /\ UNCHANGED refused_sizes
    BY <1>1, <1>6, <2>3, RaiseUnsentKept, RaisedAreErrors, SizesStay
  <2>4. CASE call' = [call EXCEPT ![c] = t] /\ settled' = Nothing /\ UNCHANGED refused_sizes
    <3>1. t # Idle
      BY <1>4 DEF Idle
    <3>2. Fits(t, clock)
      BY <1>1, <1>4, <3>1 DEF Fits, Sent
    <3>. QED  BY <1>1, <1>6, <2>4, <3>2, NothingFits, SizesStay, Zenon DEF Kept
  <2>. QED  BY <1>6, <2>1, <2>2, <2>3, <2>4
<1>9. World'
  BY <1>6, <1>7 DEF AdapterInv, World
<1>. QED
  BY <1>1, <1>6, <1>8, <1>9, CallsStep DEF AdapterInv

LEMMA GeminiCompleteFits ==
  ASSUME AdapterInv, NEW c \in Calls, NEW m \in Models, NEW size \in Sizes,
         GeminiComplete(c, m, size)
  PROVE  AdapterInv'
<1>. DEFINE r == [Idle EXCEPT !.model = m, !.size = size, !.now = clock, !.shown = clock]
<1>1. clock \in Nat /\ SizesFit /\ CallsFit
  BY DEF AdapterInv, World
<1>2. /\ UNCHANGED <<clock, adapter, spec, listed, model_cache, catalog_error, refused_sizes,
                     quota, last_refused>>
      /\ Raise(c, "RequestNotSupported", FALSE) \/ Inquire(c, r)
  BY Zenon DEF GeminiComplete, r
<1>3. /\ r \in CallType /\ r.now = clock /\ r.model = m /\ r.size = size /\ r.sent = FALSE
      /\ r.shown = clock
  BY <1>1 DEF Idle, CallType, Phases, Allowances
<1>. HIDE DEF r
<1>4. Ready(r)
  BY <1>1, <1>3, AdapterConstants DEF Ready
<1>5. Kept(c)
  BY <1>1, <1>2, <1>4, RaiseUnsentKept, RaisedAreErrors, SendKept
<1>6. World' /\ SizesFit'
  BY <1>1, <1>2, SizesStay DEF AdapterInv, World
<1>. QED  BY <1>1, <1>2, <1>5, <1>6, CallsStep DEF AdapterInv

LEMMA RenderFits ==
  ASSUME AdapterInv, NEW c \in Calls, Render(c)
  PROVE  AdapterInv'
<1>. DEFINE u == [call[c] EXCEPT !.seen = listed]
<1>1. /\ clock \in Nat /\ listed \subseteq Models /\ SizesFit /\ CallsFit
      /\ call[c] \in CallType /\ Fits(call[c], clock) /\ call[c].phase = "listing"
  BY DEF AdapterInv, World, CallsFit, Render
<1>2. /\ UNCHANGED <<clock, adapter, spec, listed, model_cache, catalog_error, refused_sizes,
                     quota, last_refused>>
      /\ call' = [call EXCEPT ![c] = u] /\ settled' = Nothing
  BY DEF Render
<1>3. /\ u \in CallType /\ u.phase = "listing" /\ u.now = call[c].now /\ u.model = call[c].model
      /\ u.size = call[c].size /\ u.sent = call[c].sent
  BY <1>1 DEF CallType
<1>4. u # Idle
  BY <1>3 DEF Idle
<1>. HIDE DEF u
<1>5. Fits(u, clock)
  BY <1>1, <1>3, <1>4 DEF Fits, Sent
<1>6. Kept(c)
  BY <1>2, <1>5, NothingFits, Zenon DEF Kept
<1>7. World' /\ SizesFit'
  BY <1>1, <1>2, SizesStay DEF AdapterInv, World
<1>. QED  BY <1>1, <1>2, <1>6, <1>7, CallsStep DEF AdapterInv

LEMMA ListedFits ==
  ASSUME AdapterInv, NEW c \in Calls, NEW q \in Allowances, Listed(c, q)
  PROVE  AdapterInv'
<1>. DEFINE r == [call[c] EXCEPT !.observed = q, !.shown = call[c].now, !.seen = {}]
            none == [error |-> NoError, at |-> 0]
            stored == Stored(call[c])
<1>1. /\ clock \in Nat /\ SizesFit /\ CallsFit
      /\ call[c] \in CallType /\ Fits(call[c], clock) /\ call[c].phase = "listing"
  BY DEF AdapterInv, World, CallsFit, Listed
<1>2. /\ UNCHANGED <<clock, adapter, spec, listed, last_refused>>
      /\ quota' = q /\ model_cache' = stored /\ catalog_error' = none
      /\ Proceed(c, r, call[c].seen)
  BY Zenon DEF Listed, r, none, stored
<1>3. /\ r \in CallType /\ r.now = call[c].now /\ r.model = call[c].model
      /\ r.size = call[c].size /\ r.sent = call[c].sent /\ r.shown = call[c].now
  BY <1>1 DEF CallType
<1>4. none \in [error: Errors \cup {NoError}, at: Nat]
  OBVIOUS
<1>5. /\ stored \in [held: BOOLEAN, models: SUBSET Models, at: Nat, began: Nat]
      /\ stored.began = stored.at /\ stored.at <= clock
  BY <1>1 DEF Stored, CallType, Fits
<1>. HIDE DEF r, none, stored
<1>6. call[c].now \in Nat
  BY <1>1 DEF CallType
<1>7. Ready(r)
  BY <1>1, <1>3, <1>6, AdapterConstants DEF Ready, Fits
<1>8. Kept(c) /\ SizesFit'
  BY <1>1, <1>2, <1>7, ProceedKept
<1>9. World'
  BY <1>2, <1>4, <1>5 DEF AdapterInv, World
<1>. QED  BY <1>1, <1>2, <1>8, <1>9, CallsStep DEF AdapterInv

LEMMA ListingFailsFits ==
  ASSUME AdapterInv, NEW c \in Calls, NEW e \in CatalogFaults, ListingFails(c, e)
  PROVE  AdapterInv'
<1>. DEFINE r == call[c]  error == [error |-> e, at |-> r.now]
<1>1. /\ clock \in Nat /\ SizesFit /\ CallsFit
      /\ r \in CallType /\ Fits(r, clock) /\ r.phase = "listing"
  BY DEF AdapterInv, World, CallsFit, ListingFails
<1>2. /\ UNCHANGED <<clock, adapter, spec, listed, model_cache, refused_sizes, last_refused>>
      /\ quota' \in Reports(e) /\ catalog_error' = error /\ Surface(c, r, e)
  BY DEF ListingFails
<1>3. e \in Errors /\ e \notin Refundable
  BY RaisedAreErrors
<1>4. error \in [error: Errors \cup {NoError}, at: Nat]
  BY <1>1, <1>3 DEF CallType
<1>. HIDE DEF r, error
<1>5. r.now <= clock /\ r.model \in Models /\ r.size \in Sizes
  BY <1>1 DEF Fits
<1>6. Kept(c)
  BY <1>1, <1>2, <1>3, <1>5, SurfaceKept
<1>7. quota' \in Allowances
  BY <1>2, ReportsAreAllowances DEF AdapterInv, World
<1>8. World' /\ SizesFit'
  BY <1>1, <1>2, <1>4, <1>7, SizesStay DEF AdapterInv, World
<1>. QED  BY <1>1, <1>2, <1>6, <1>8, CallsStep DEF AdapterInv

LEMMA CheckedFits ==
  ASSUME AdapterInv, NEW c \in Calls, NEW q \in Allowances,
         Checked(c, q) \/ Described(c, q) \/ Shown(c, q)
  PROVE  AdapterInv'
<1>. DEFINE r == [call[c] EXCEPT !.observed = q]
<1>1. /\ clock \in Nat /\ SizesFit /\ CallsFit
      /\ call[c] \in CallType /\ Fits(call[c], clock) /\ call[c].phase = "checking"
  BY DEF AdapterInv, World, CallsFit, Checked, Described, Shown
<1>2. /\ UNCHANGED <<clock, adapter, spec, listed, model_cache, catalog_error, last_refused>>
      /\ quota' = q
      /\ \/ Dispatch(c, r)
         \/ Send(c, r) /\ UNCHANGED refused_sizes
         \/ \E e \in {"AuthenticationFailed", "ModelUnavailable", "RequestNotSupported"} :
               Raise(c, e, FALSE) /\ UNCHANGED refused_sizes
  BY DEF Checked, Described, Shown
<1>3. /\ r \in CallType /\ r.now = call[c].now /\ r.model = call[c].model
      /\ r.size = call[c].size /\ r.sent = call[c].sent /\ r.shown = call[c].shown
  BY <1>1 DEF CallType
<1>. HIDE DEF r
<1>4. Ready(r)
  BY <1>1, <1>3 DEF Ready, Fits, Sent
<1>5. Kept(c) /\ SizesFit'
  <2>1. CASE Dispatch(c, r)
    BY <1>1, <1>2, <1>4, <2>1, DispatchKept
  <2>2. CASE Send(c, r) /\ UNCHANGED refused_sizes
    BY <1>1, <1>2, <1>4, <2>2, SendKept, SizesStay
  <2>3. ASSUME NEW e \in {"AuthenticationFailed", "ModelUnavailable", "RequestNotSupported"},
               Raise(c, e, FALSE), UNCHANGED refused_sizes
        PROVE  Kept(c) /\ SizesFit'
    BY <1>1, <1>2, <2>3, RaiseUnsentKept, RaisedAreErrors, SizesStay
  <2>. QED  BY <1>2, <2>1, <2>2, <2>3
<1>6. World'
  BY <1>2 DEF AdapterInv, World
<1>. QED  BY <1>1, <1>2, <1>5, <1>6, CallsStep DEF AdapterInv

LEMMA CheckFailsFits ==
  ASSUME AdapterInv, NEW c \in Calls, NEW e \in ReplyErrors, CheckFails(c, e)
  PROVE  AdapterInv'
<1>1. clock \in Nat /\ SizesFit /\ CallsFit
  BY DEF AdapterInv, World
<1>2. /\ UNCHANGED <<clock, adapter, spec, listed, model_cache, catalog_error, refused_sizes,
                     last_refused>>
      /\ quota' \in Reports(e) /\ Raise(c, e, FALSE)
  BY DEF CheckFails
<1>3. Kept(c)
  BY <1>1, <1>2, RaiseUnsentKept, RaisedAreErrors
<1>4. quota' \in Allowances
  BY <1>2, ReportsAreAllowances DEF AdapterInv, World
<1>5. World' /\ SizesFit'
  BY <1>1, <1>2, <1>4, SizesStay DEF AdapterInv, World
<1>. QED  BY <1>1, <1>2, <1>3, <1>5, CallsStep DEF AdapterInv

LEMMA RefusedFits ==
  ASSUME AdapterInv, NEW c \in Calls, NEW e \in ReplyErrors, Refused(c, e)
  PROVE  AdapterInv'
<1>. DEFINE r == call[c]  m == r.model  size == r.size
<1>1. /\ clock \in Nat /\ SizesFit /\ CallsFit
      /\ r \in CallType /\ Fits(r, clock) /\ r.phase \in Sent
  BY DEF AdapterInv, World, CallsFit, Refused
<1>2. /\ UNCHANGED <<clock, adapter, spec, listed, model_cache, catalog_error>>
      /\ quota' \in Reports(e) /\ Surface(c, r, e)
      /\ \/ /\ refused_sizes' = [refused_sizes EXCEPT ![m] = Remembered(m, size)]
            /\ last_refused' = [last_refused EXCEPT ![m][size] = clock]
         \/ UNCHANGED <<refused_sizes, last_refused>>
  BY DEF Refused
<1>. HIDE DEF r
<1>3. r.now <= clock /\ m \in Models /\ size \in Sizes
  BY <1>1 DEF Fits, Sent
<1>4. Kept(c)
  BY <1>1, <1>2, <1>3, SurfaceKept, RaisedAreErrors
<1>5. SizesFit'
  <2>. HIDE DEF m, size
  <2>. QED  BY <1>1, <1>2, <1>3, RememberingFits, SizesStay
<1>6. quota' \in Allowances
  BY <1>2, ReportsAreAllowances DEF AdapterInv, World
<1>7. World'
  BY <1>2, <1>6 DEF AdapterInv, World
<1>. QED  BY <1>1, <1>2, <1>4, <1>5, <1>7, CallsStep DEF AdapterInv

LEMMA HeadersFits ==
  ASSUME AdapterInv, NEW c \in Calls, NEW q \in Allowances, Headers(c, q)
  PROVE  AdapterInv'
<1>. DEFINE r == call[c]  u == [r EXCEPT !.phase = "streaming", !.observed = q, !.reported = q]
<1>1. /\ clock \in Nat /\ SizesFit /\ CallsFit
      /\ r \in CallType /\ Fits(r, clock) /\ r.phase = "asking"
  BY DEF AdapterInv, World, CallsFit, Headers
<1>2. /\ UNCHANGED <<clock, adapter, spec, listed, model_cache, catalog_error, refused_sizes,
                     last_refused>>
      /\ quota' = q /\ settled' = Nothing
      /\ call' = [call EXCEPT ![c] = u]
  BY DEF Headers, CallsFit, AdapterInv, CallType
<1>3. /\ u \in CallType /\ u.phase = "streaming" /\ u.now = r.now /\ u.model = r.model
      /\ u.size = r.size /\ u.shown = r.shown /\ u.observed = q /\ u.reported = q
  BY <1>1 DEF CallType, Phases
<1>4. u # Idle
  BY <1>3 DEF Idle
<1>. HIDE DEF r, u
<1>5. Fits(u, clock)
  BY <1>1, <1>3, <1>4 DEF Fits, Sent
<1>6. Kept(c)
  BY <1>2, <1>5, NothingFits, Zenon DEF Kept
<1>7. World' /\ SizesFit'
  BY <1>1, <1>2, SizesStay DEF AdapterInv, World
<1>. QED  BY <1>1, <1>2, <1>6, <1>7, CallsStep DEF AdapterInv

LEMMA EndsFits ==
  ASSUME AdapterInv, NEW c \in Calls,
         UNCHANGED <<clock, adapter, spec, listed, model_cache, catalog_error, refused_sizes,
                     last_refused>>,
         quota' \in Allowances, Kept(c)
  PROVE  AdapterInv'
<1>1. clock \in Nat /\ SizesFit /\ CallsFit
  BY DEF AdapterInv, World
<1>2. World' /\ SizesFit'
  BY <1>1, SizesStay DEF AdapterInv, World
<1>. QED  BY <1>1, <1>2, CallsStep DEF AdapterInv

\* An answer carries the allowance its own headers reported; where prices must be
\* proved and none was stated, the catalogue that proves it is fresh at the end.
LEMMA CompletedFits ==
  ASSUME AdapterInv, NEW c \in Calls, NEW cost \in {"zero", "missing", "charged"},
         Completed(c, cost)
  PROVE  AdapterInv'
<1>1. /\ clock \in Nat /\ call[c] \in CallType /\ Fits(call[c], clock)
      /\ call[c].phase = "streaming" /\ quota \in Allowances
      /\ model_cache.began \in Nat /\ model_cache.began = model_cache.at /\ model_cache.at <= clock
  BY DEF AdapterInv, World, CallsFit, Completed
<1>2. UNCHANGED <<clock, adapter, spec, listed, model_cache, catalog_error, refused_sizes,
                  quota, last_refused>>
  BY DEF Completed
<1>3. CASE Raise(c, "BillingViolation", TRUE)
  <2>. DEFINE e == "BillingViolation"  sent == TRUE
  <2>1. e \in Errors /\ e \notin Refundable /\ sent \in BOOLEAN /\ Raise(c, e, sent)
    BY <1>3, RaisedAreErrors
  <2>. HIDE DEF e, sent
  <2>2. Kept(c)
    BY <1>1, <2>1, RaiseKept
  <2>. QED  BY <1>1, <1>2, <2>2, EndsFits
<1>4. CASE Proved(call[c].model, cost) /\ ~Raise(c, "BillingViolation", TRUE)
  <2>. DEFINE price == IF ZeroPriced(adapter) THEN cost ELSE "none"
              age == IF ZeroPriced(adapter) /\ cost = "missing" THEN clock - model_cache.began ELSE 0
  <2>1. /\ settled' = [Ended("answered", TRUE) EXCEPT !.cost = price,
               !.quota = response_quota(c), !.reported = call[c].reported, !.price_age = age]
        /\ call' = [call EXCEPT ![c] = Idle]
    BY <1>4 DEF Completed
  <2>2. price \in Costs /\ age \in Nat
    BY <1>1 DEF Costs
  <2>3. ZeroPriced(adapter) => price \in {"zero", "missing"} /\ age < CatalogTTL
    BY <1>1, <1>4, AdapterConstants DEF Proved, CatalogueProves, CacheFresh
  <2>4. response_quota(c) = call[c].reported /\ call[c].reported \in Allowances
    BY <1>1 DEF response_quota, Fits, CallType
  <2>. HIDE DEF price, age
  <2>5. /\ settled' \in Settlements /\ settled'.effect = "answered"
        /\ settled'.quota = settled'.reported /\ settled'.cost = price /\ settled'.price_age = age
    BY <2>1, <2>2, <2>4 DEF Ended, Settlements, Effects, Allowances, Costs
  <2>6. SettledFits'
    BY <1>2, <2>3, <2>5 DEF SettledFits
  <2>7. Kept(c)
    BY <1>1, <2>1, <2>6, IdleFits, Zenon DEF Kept
  <2>. QED  BY <1>1, <1>2, <2>7, EndsFits
<1>. QED  BY <1>3, <1>4, Zenon DEF Completed

LEMMA GeneratedFits ==
  ASSUME AdapterInv, NEW c \in Calls, Generated(c) \/ Chatted(c)
  PROVE  AdapterInv'
<1>1. /\ clock \in Nat /\ call[c] \in CallType /\ Fits(call[c], clock)
      /\ call[c].phase = "streaming" /\ quota \in Allowances
  BY DEF AdapterInv, World, CallsFit, Generated, Chatted
<1>2. /\ UNCHANGED <<clock, adapter, spec, listed, model_cache, catalog_error, refused_sizes,
                     quota, last_refused>>
      /\ call' = [call EXCEPT ![c] = Idle] /\ ~ZeroPriced(adapter)
  BY DEF Generated, Chatted, ZeroPriced
<1>3. response_quota(c) = call[c].reported /\ call[c].reported \in Allowances
  BY <1>1 DEF response_quota, Fits, CallType
<1>4. /\ settled' \in Settlements /\ settled'.effect = "answered"
      /\ settled'.quota = settled'.reported
  <2>1. CASE Generated(c)
    <3>1. settled' = [Ended("answered", TRUE) EXCEPT
             !.quota = response_quota(c), !.reported = call[c].reported]
      BY <2>1, Zenon DEF Generated
    <3>. QED  BY <1>3, <3>1 DEF Ended, Settlements, Effects, Allowances, Costs
  <2>2. CASE Chatted(c)
    BY <2>2 DEF Chatted, Ended, Settlements, Effects, Allowances, Costs
  <2>. QED  BY <2>1, <2>2
<1>5. SettledFits'
  BY <1>2, <1>4 DEF SettledFits
<1>6. Kept(c)
  BY <1>1, <1>2, <1>5, IdleFits, Zenon DEF Kept
<1>. QED  BY <1>1, <1>2, <1>6, EndsFits

LEMMA ConfirmedFits ==
  ASSUME AdapterInv, NEW c \in Calls, MonthlyLimitReached(c) \/ NotConfirmed(c)
  PROVE  AdapterInv'
<1>. DEFINE sent == call[c].sent
<1>1. /\ clock \in Nat /\ sent \in BOOLEAN /\ Fits(call[c], clock)
      /\ call[c].phase = "confirming" /\ quota \in Allowances
  BY DEF AdapterInv, World, CallsFit, CallType, MonthlyLimitReached, NotConfirmed
<1>2. /\ UNCHANGED <<clock, adapter, spec, listed, model_cache, catalog_error, refused_sizes,
                     last_refused>>
      /\ quota' \in {"spent", quota}
      /\ \E e \in {"QuotaExceeded", call[c].refusal} : Raise(c, e, sent)
  BY DEF MonthlyLimitReached, NotConfirmed
<1>3. PICK e \in {"QuotaExceeded", "RateLimited"} : Raise(c, e, sent)
  BY <1>1, <1>2 DEF Fits
<1>4. e \in Errors /\ e \notin Refundable
  BY RaisedAreErrors
<1>. HIDE DEF sent
<1>5. Kept(c)
  BY <1>1, <1>3, <1>4, RaiseKept
<1>6. quota' \in Allowances
  BY <1>1, <1>2 DEF Allowances
<1>. QED  BY <1>2, <1>5, <1>6, EndsFits

LEMMA GivenUpFits ==
  ASSUME AdapterInv, NEW c \in Calls, GivenUp(c)
  PROVE  AdapterInv'
<1>. DEFINE sent == call[c].sent
<1>1. clock \in Nat /\ sent \in BOOLEAN /\ quota \in Allowances
  BY DEF AdapterInv, World, CallsFit, CallType
<1>2. PICK effect \in {"charged", "failed"} : settled' = Ended(effect, sent)
  BY DEF GivenUp
<1>3. effect \in Effects \ {"answered"} /\ effect # "refunded"
  BY DEF Effects
<1>. HIDE DEF sent
<1>4. SettledFits'
  BY <1>1, <1>2, <1>3, UnansweredFits
<1>5. /\ UNCHANGED <<clock, adapter, spec, listed, model_cache, catalog_error, refused_sizes,
                     quota, last_refused>>
      /\ call' = [call EXCEPT ![c] = Idle]
  BY DEF GivenUp
<1>6. Kept(c)
  BY <1>1, <1>4, <1>5, IdleFits, Zenon DEF Kept
<1>. QED  BY <1>1, <1>5, <1>6, EndsFits

LEMMA RelistFits ==
  ASSUME AdapterInv, NEW m \in Models, Relist(m)
  PROVE  AdapterInv'
<1>1. /\ UNCHANGED <<clock, adapter, spec, model_cache, catalog_error, refused_sizes, quota,
                     call, last_refused>>
      /\ settled' = Nothing /\ listed' \subseteq Models
  BY DEF Relist, AdapterInv, World
<1>2. World' /\ SizesFit' /\ CallsFit'
  BY <1>1, SizesStay DEF AdapterInv, World, CallsFit
<1>. QED  BY <1>1, <1>2, NothingFits DEF AdapterInv

LEMMA TickFits ==
  ASSUME AdapterInv, Tick
  PROVE  AdapterInv'
<1>1. /\ UNCHANGED <<adapter, spec, listed, model_cache, catalog_error, refused_sizes, quota,
                     call, last_refused>>
      /\ settled' = Nothing /\ clock' = clock + 1 /\ clock \in Nat
  BY DEF Tick, AdapterInv, World
<1>2. World'
  BY <1>1 DEF AdapterInv, World
<1>3. CallsFit'
  <2>1. \A c \in Calls : call[c] \in CallType /\ call[c].now \in Nat /\ Fits(call[c], clock)
    BY DEF AdapterInv, CallsFit, CallType
  <2>. QED  BY <1>1, <2>1 DEF AdapterInv, CallsFit, Fits
<1>4. SizesFit'
  <2>1. \A m \in Models, z \in Sizes : last_refused[m][z] # Never =>
           last_refused[m][z] \in Nat /\ last_refused[m][z] <= clock
    BY DEF AdapterInv, SizesFit
  <2>. QED  BY <1>1, <2>1 DEF AdapterInv, SizesFit, Backed
<1>. QED  BY <1>1, <1>2, <1>3, <1>4, NothingFits DEF AdapterInv

LEMMA AdapterInitially == Init => AdapterInv
<1>. SUFFICES ASSUME Init  PROVE AdapterInv
  OBVIOUS
<1>1. clock \in Nat
  BY AdapterAssumption DEF Init
<1>2. World
  BY <1>1 DEF Init, World, Allowances
<1>3. CallsFit
  <2>1. Fits(Idle, clock)
    BY <1>1, IdleFits
  <2>2. Idle \in CallType
    BY <2>1, Zenon DEF Fits
  <2>. QED  BY <2>1, <2>2 DEF Init, CallsFit
<1>4. SettledFits
  BY DEF Init, SettledFits, Nothing, Ended, Settlements, Effects, Costs, Allowances
<1>5. SizesFit
  BY AdapterConstants DEF Init, SizesFit
<1>. QED  BY <1>2, <1>3, <1>4, <1>5 DEF AdapterInv

LEMMA AdapterInductive ==
  ASSUME AdapterInv, [Next]_vars
  PROVE  AdapterInv'
<1>1. CASE UNCHANGED vars
  <2>1. UNCHANGED vars /\ SizesFit
    BY <1>1 DEF AdapterInv
  <2>2. SizesFit'
    BY <2>1, SizesStay DEF vars
  <2>. QED  BY <1>1, <2>2 DEF vars, AdapterInv, World, CallsFit, SettledFits
<1>2. CASE Next
  BY <1>2, CompleteFits, GeminiCompleteFits, RenderFits, ListedFits, CheckedFits, HeadersFits,
     ListingFailsFits, CheckFailsFits, RefusedFits, CompletedFits, GeneratedFits, ConfirmedFits,
     GivenUpFits, RelistFits, TickFits, Zenon DEF Next
<1>. QED  BY <1>1, <1>2

\* In every behaviour the variables hold what they are declared to, and no more
\* refused sizes than there are slots.
THEOREM AdapterTypes == Spec => []TypeOK
<1>1. AdapterInv => TypeOK
  BY DEF AdapterInv, World, CallsFit, Fits, SettledFits, SizesFit, TypeOK
<1>. QED  BY <1>1, AdapterInitially, AdapterInductive, PTL DEF Spec

\* No completion is on its way, and no unpriced answer taken, but on a catalogue
\* asked for within its time to live, however calls and reads of it interleave.
THEOREM PricesAreProved == Spec => []PriceProvedRecently
<1>1. AdapterInv => PriceProvedRecently
  BY DEF AdapterInv, CallsFit, Fits, SettledFits, PriceProvedRecently
<1>. QED  BY <1>1, AdapterInitially, AdapterInductive, PTL DEF Spec

\* An answer is reported with its own response's allowance, and a reservation
\* given back only for a completion that was never sent.
THEOREM SettlementsAreTrue == Spec => []SettledAsHappened
<1>1. AdapterInv => SettledAsHappened
  BY DEF AdapterInv, SettledFits, SettledAsHappened
<1>. QED  BY <1>1, AdapterInitially, AdapterInductive, PTL DEF Spec

\* What is held back was refused: a recorded size is one the provider refused, and
\* it lapses no later than that refusal allows.
THEOREM HeldBackJustly == Spec => []HeldBackWithReason
<1>1. ASSUME AdapterInv  PROVE HeldBackWithReason
  <2>. SUFFICES ASSUME NEW m \in Models, NEW size \in Sizes, Covers(Live(m), size)
                PROVE  \E z \in Sizes :
                          /\ AsLarge(size, z) /\ last_refused[m][z] # Never
                          /\ clock < last_refused[m][z] + SizeTTL
    BY DEF HeldBackWithReason
  <2>1. PICK n \in DOMAIN Live(m) : AsLarge(size, Live(m)[n].size)
    BY DEF Covers
  <2>2. PICK i \in DOMAIN refused_sizes[m] : Live(m)[n] = refused_sizes[m][i]
    BY <1>1, <2>1, LiveKeeps DEF AdapterInv
  <2>3. clock < Live(m)[n].until
    BY <1>1, <2>1, LiveKeeps DEF AdapterInv
  <2>. DEFINE e == refused_sizes[m][i]
  <2>4. /\ e \in Entries /\ Backed(m, e) /\ clock \in Nat
        /\ \A z \in Sizes : last_refused[m][z] \in Nat \cup {Never}
    BY <1>1, <2>2 DEF AdapterInv, SizesFit, World
  <2>5. AsLarge(size, e.size) /\ clock < e.until
    BY <2>1, <2>2, <2>3
  <2>. HIDE DEF e
  <2>6. e.size \in Sizes /\ e.until \in Nat
    BY <2>4 DEF Entries
  <2>7. last_refused[m][e.size] # Never /\ clock < last_refused[m][e.size] + SizeTTL
    BY <2>4, <2>5, <2>6, AdapterConstants DEF Backed
  <2>. QED  BY <2>5, <2>6, <2>7
<1>. QED  BY <1>1, AdapterInitially, AdapterInductive, PTL DEF Spec

-----------------------------------------------------------------------------
(* A larger size never displaces a smaller one. *)

Displaces(m, i) ==
    \/ \E j \in DOMAIN refused_sizes'[m] : refused_sizes'[m][j] = Live(m)[i]
    \/ \E j \in DOMAIN refused_sizes'[m] :
          ~AsLarge(refused_sizes'[m][j].size, Live(m)[i].size)

\* The refused sizes change in one of three ways.
LEMMA SizesStep ==
  ASSUME AdapterInv, [Next]_vars
  PROVE  \/ UNCHANGED refused_sizes
         \/ \E m \in Models : refused_sizes' = [refused_sizes EXCEPT ![m] = Live(m)]
         \/ \E m \in Models, size \in Sizes :
               refused_sizes' = [refused_sizes EXCEPT ![m] = Remembered(m, size)]
<1>. DEFINE Forgets == \E m \in Models : refused_sizes' = [refused_sizes EXCEPT ![m] = Live(m)]
<1>1. ASSUME NEW c, NEW r, r.model \in Models, Dispatch(c, r)
      PROVE  UNCHANGED refused_sizes \/ Forgets
  BY <1>1, Zenon DEF Dispatch
<1>2. ASSUME NEW c, NEW r, r.model \in Models, NEW models, Proceed(c, r, models)
      PROVE  UNCHANGED refused_sizes \/ Forgets
  BY <1>1, <1>2, Zenon DEF Proceed
<1>3. ASSUME NEW c \in Calls, NEW m \in Models, NEW size, Complete(c, m, size)
      PROVE  UNCHANGED refused_sizes \/ Forgets
  <2>. DEFINE r == [Idle EXCEPT !.model = m, !.size = size, !.now = clock]
              s == [r EXCEPT !.shown = model_cache.began]
  <2>1. s.model = m
    BY DEF Idle
  <2>. HIDE DEF s
  <2>2. UNCHANGED refused_sizes \/ Proceed(c, s, model_cache.models)
    BY <1>3, Zenon DEF Complete, s
  <2>. QED  BY <1>2, <2>1, <2>2
<1>4. ASSUME NEW c \in Calls, NEW q, Listed(c, q)
      PROVE  UNCHANGED refused_sizes \/ Forgets
  <2>. DEFINE r == [call[c] EXCEPT !.observed = q, !.shown = call[c].now, !.seen = {}]
  <2>1. r.model \in Models
    BY <1>4 DEF Listed, AdapterInv, CallsFit, Fits, CallType
  <2>. HIDE DEF r
  <2>2. Proceed(c, r, call[c].seen)
    BY <1>4, Zenon DEF Listed, r
  <2>. QED  BY <1>2, <2>1, <2>2
<1>5. ASSUME NEW c \in Calls, NEW q, Checked(c, q)
      PROVE  UNCHANGED refused_sizes \/ Forgets
  <2>. DEFINE r == [call[c] EXCEPT !.observed = q]
  <2>1. r.model \in Models
    BY <1>5 DEF Checked, AdapterInv, CallsFit, Fits, CallType
  <2>. HIDE DEF r
  <2>2. UNCHANGED refused_sizes \/ Dispatch(c, r)
    BY <1>5, Zenon DEF Checked, r
  <2>. QED  BY <1>1, <2>1, <2>2
<1>6. ASSUME NEW c \in Calls, NEW e, Refused(c, e)
      PROVE  \/ UNCHANGED refused_sizes
             \/ \E m \in Models, size \in Sizes :
                   refused_sizes' = [refused_sizes EXCEPT ![m] = Remembered(m, size)]
  <2>1. call[c].model \in Models /\ call[c].size \in Sizes
    BY <1>6 DEF Refused, AdapterInv, CallsFit, Fits, Sent
  <2>. QED  BY <1>6, <2>1, Zenon DEF Refused
<1>. HIDE DEF Forgets
<1>7. ASSUME NEW c, NEW x, NEW y,
             \/ GeminiComplete(c, x, y) \/ Render(c) \/ Described(c, x) \/ Shown(c, x)
             \/ Headers(c, x) \/ ListingFails(c, x) \/ CheckFails(c, x) \/ Completed(c, x)
             \/ Generated(c) \/ Chatted(c) \/ MonthlyLimitReached(c) \/ NotConfirmed(c)
             \/ GivenUp(c) \/ Relist(x) \/ Tick
      PROVE  UNCHANGED refused_sizes
  BY <1>7, Zenon DEF GeminiComplete, Render, Described, Shown, Headers, ListingFails, CheckFails,
     Completed, Generated, Chatted, MonthlyLimitReached, NotConfirmed, GivenUp, Relist, Tick
<1>8. CASE UNCHANGED vars
  BY <1>8, Zenon DEF vars
<1>. QED
  BY <1>3, <1>4, <1>5, <1>6, <1>7, <1>8, Zenon DEF Next, Forgets

\* A size still held makes way only for one it does not cover.
THEOREM SmallSizesStay == Spec => SmallestKept
<1>1. ASSUME AdapterInv, [Next]_vars
      PROVE  \A m \in Models : \A i \in DOMAIN Live(m) : Displaces(m, i)
  <2>. SUFFICES ASSUME NEW m \in Models, NEW i \in DOMAIN Live(m)  PROVE Displaces(m, i)
    OBVIOUS
  <2>0. SizesFit /\ clock \in Nat /\ DOMAIN refused_sizes = Models
    BY <1>1 DEF AdapterInv, SizesFit, World
  <2>1. CASE refused_sizes'[m] = refused_sizes[m]
    <3>1. PICK j \in DOMAIN refused_sizes[m] : Live(m)[i] = refused_sizes[m][j]
      BY <2>0, LiveKeeps
    <3>. QED  BY <2>1, <3>1, Zenon DEF Displaces
  <2>2. CASE refused_sizes' = [refused_sizes EXCEPT ![m] = Live(m)]
    <3>1. refused_sizes'[m] = Live(m)
      BY <2>0, <2>2
    <3>. QED  BY <3>1, Zenon DEF Displaces
  <2>3. ASSUME NEW size \in Sizes, refused_sizes' = [refused_sizes EXCEPT ![m] = Remembered(m, size)]
        PROVE  Displaces(m, i)
    <3>. DEFINE new == [size |-> size, until |-> clock + SizeTTL]
    <3>1. refused_sizes'[m] = Remembered(m, size)
      BY <2>0, <2>3
    <3>2. CASE Covers(Live(m), size)
      <4>1. refused_sizes'[m] = Live(m)
        BY <2>0, <3>1, <3>2, RememberedKeeps
      <4>. QED  BY <4>1, Zenon DEF Displaces
    <3>3. CASE ~Covers(Live(m), size)
      <4>1. PICK j \in DOMAIN refused_sizes'[m] : refused_sizes'[m][j] = new
        BY <2>0, <3>1, <3>3, RememberedKeeps
      <4>2. ~AsLarge(size, Live(m)[i].size)
        BY <3>3 DEF Covers
      <4>3. refused_sizes'[m][j].size = size
        BY <4>1
      <4>. QED  BY <4>2, <4>3, Zenon DEF Displaces
    <3>. QED  BY <3>2, <3>3
  <2>4. \/ refused_sizes'[m] = refused_sizes[m]
        \/ refused_sizes' = [refused_sizes EXCEPT ![m] = Live(m)]
        \/ \E size \in Sizes : refused_sizes' = [refused_sizes EXCEPT ![m] = Remembered(m, size)]
    <3>1. ASSUME NEW k \in Models, k # m, NEW x, refused_sizes' = [refused_sizes EXCEPT ![k] = x]
          PROVE  refused_sizes'[m] = refused_sizes[m]
      BY <2>0, <3>1
    <3>. QED  BY <1>1, <3>1, SizesStep, Zenon
  <2>. QED  BY <2>1, <2>2, <2>3, <2>4
<1>. QED
  BY <1>1, AdapterInitially, AdapterInductive, PTL DEF Spec, SmallestKept, Displaces
=============================================================================
