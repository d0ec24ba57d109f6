----------------------------- MODULE Admission -----------------------------
(***************************************************************************)
(* When a provider may be used (fair/governor/policy.py, admit_provider;   *)
(* fair/governor/qualification.py; fair/providers/live.py, _admit).  A     *)
(* provider's specification carries a manual review; registration,         *)
(* selection and every dispatch ask these operators again with the clock   *)
(* of that moment.  Only what depends on the clock is spelled out: the     *)
(* answers a review must contain whatever the time are one Boolean, and a  *)
(* review without its two dates, which never qualifies, is left out.       *)
(***************************************************************************)
EXTENDS Integers, FiniteSets

CONSTANTS
    Models,        \* the models a provider may list
    MaxAge,        \* REVIEW_MAX_AGE
    TermsMaxAge,   \* settings.review_max_age_days
    NoReview, NoTest, Never   \* the code's None, per use

ASSUME AdmissionAssumption ==
    /\ IsFiniteSet(Models)
    /\ MaxAge \in Nat \ {0} /\ TermsMaxAge \in Nat \ {0}
    /\ NoTest \notin Nat /\ Never \notin Nat

Tests   == [Models -> Nat \cup {NoTest}]
Reviews == [reviewed_at: Nat, expires_at: Nat, live_test_at: Tests]

\* eligible: the undated conditions of admit_provider; sound: those of qualified
Specs ==
    [eligible: BOOLEAN, sound: BOOLEAN, local: BOOLEAN, active: SUBSET Models,
     terms_last_verified: Nat, qualification: Reviews \cup {NoReview}]

ASSUME NoReviewAssumption == NoReview \notin Reviews

Reviewed(spec) == spec.qualification # NoReview

\* The models whose live test ages: the active ones the review tested.
Tested(spec) == {m \in spec.active : spec.qualification.live_test_at[m] # NoTest}

Earliest(times) == CHOOSE t \in times : \A u \in times : t <= u

Limits(spec) ==
    {spec.qualification.expires_at}
      \cup {spec.qualification.live_test_at[m] + MaxAge : m \in Tested(spec)}

review_expiry(spec) == IF Reviewed(spec) THEN Earliest(Limits(spec)) ELSE Never

InDate(review, now) ==
    /\ now - MaxAge <= review.reviewed_at
    /\ review.reviewed_at <= now
    /\ now < review.expires_at
    /\ review.expires_at <= review.reviewed_at + MaxAge

TestInDate(review, m, now) ==
    /\ review.live_test_at[m] # NoTest
    /\ now - MaxAge <= review.live_test_at[m]
    /\ review.live_test_at[m] <= review.reviewed_at

\* A provider without a review is qualified only if it runs locally.
qualified(spec, now) ==
    IF Reviewed(spec)
      THEN /\ spec.sound
           /\ InDate(spec.qualification, now)
           /\ spec.active # {}
           /\ \A m \in spec.active : TestInDate(spec.qualification, m, now)
      ELSE spec.local

admit_provider(spec, now) == spec.eligible /\ qualified(spec, now)

\* _admit's own dated condition: the provider's terms were read recently.
TermsCurrent(spec, now) ==
    spec.local \/ (spec.terms_last_verified <= now
                     /\ now - spec.terms_last_verified <= TermsMaxAge)
=============================================================================
