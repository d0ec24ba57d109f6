-------------------------- MODULE MCQuotaGovernor --------------------------
(***************************************************************************)
(* Finite instances of QuotaGovernor.                                      *)
(***************************************************************************)
EXTENDS QuotaGovernor

CONSTANTS a1, a2, a3, m1, m2

=============================================================================
