------------------------ MODULE MCSharedQuotaLedger ------------------------
(***************************************************************************)
(* Finite instances of SharedQuotaLedger.                                  *)
(***************************************************************************)
EXTENDS SharedQuotaLedger, TLC

CONSTANTS p1, p2, app1, app2, a1, a2, a3

OneDailyPool  == [p \in {p1} |-> "DAILY_UTC"]
LimitTwo      == [p \in {p1} |-> 2]
TwoLimits     == p1 :> 1 @@ p2 :> NoLimit
TwoWindows    == p1 :> "HOURLY" @@ p2 :> "DAILY_PACIFIC"
Interchange   == {f @@ g : f \in Permutations(Attempts), g \in Permutations(Applications)}
=============================================================================
