------------------------------ MODULE Origins ------------------------------
(***************************************************************************)
(* What the count of independent origins stands for (the comment of        *)
(* independent_count in fair/quality/source_reviews.py): the most reviews  *)
(* no two of which share an origin or a text, so that neither an alias     *)
(* nor a second snapshot corroborates anything.                            *)
(***************************************************************************)
EXTENDS Integers, FiniteSets, FiniteSetsExt

Independent(M) ==
    \A r, q \in M : r # q => r.origin # q.origin /\ r.digest # q.digest

Corroboration(R) ==
    Max({Cardinality(M) : M \in {N \in SUBSET R : Independent(N)}})
=============================================================================
