----------------------------- MODULE OrderedPick -----------------------------
(***************************************************************************)
(* The items of a list at some of its positions, in the order they have in *)
(* it: what Python's [item for item in items if ...] makes, and what       *)
(* deleting keys leaves of an OrderedDict.  A position is found by its     *)
(* rank, without recursion, so that proofs can reason about what is kept.  *)
(***************************************************************************)
EXTENDS Integers, Sequences, FiniteSets

\* The n-th smallest of a set of positions.
Nth(positions, n) ==
    CHOOSE i \in positions : Cardinality({j \in positions : j <= i}) = n

Picked(items, positions) == [n \in 1..Cardinality(positions) |-> items[Nth(positions, n)]]
=============================================================================
