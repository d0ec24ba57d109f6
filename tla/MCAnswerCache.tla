--------------------------- MODULE MCAnswerCache ---------------------------
(***************************************************************************)
(* Finite instances of AnswerCache.  The id of `shop_eu' is that of `shop' *)
(* followed by a colon and a name of its own.                              *)
(***************************************************************************)
EXTENDS AnswerCache, TLC

CONSTANTS shop, shop_eu, other, p1, s1, s2

NothingPrefixed == [c \in Clients |-> {}]
ShopPrefixed    == [c \in Clients |-> IF c = shop THEN Clients \cap {shop_eu} ELSE {}]
Interchange     == Permutations(Solves)
Expiring        == [p \in Providers |-> MaxClock]
=============================================================================
