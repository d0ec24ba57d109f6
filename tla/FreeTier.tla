------------------------------ MODULE FreeTier ------------------------------
(***************************************************************************)
(* What the quota ledger promises, without its counters and stamps: each   *)
(* pool knows which requests its current window really holds, and never    *)
(* hands out more than its limit, nor any while a provider has declared it *)
(* spent.  The promise is as strong as the code can keep it: windows may   *)
(* be judged with a clock up to Lag late, and once a pool's end has been   *)
(* moved back the ledger may mistake a grant of an earlier window for one  *)
(* of the current, and hands out one request more for each such mistake.   *)
(* SharedQuotaLedger implements this with one number per pool.             *)
(***************************************************************************)
EXTENDS Integers, FiniteSets

CONSTANTS Pools, Attempts, Limit, NoLimit, NoReset, Lag

VARIABLES
    clock,    \* time
    end,      \* when the pool's current window ends, or NoReset
    blocked,  \* the provider has declared the pool spent until `end'
    live,     \* attempts that hold a grant of the current window
    spent,    \* requests of the current window that were sent
    lost,     \* mistakes made in the current window
    ended,    \* when the last window that was rolled ended
    forward   \* have the pool's ends only moved forward?

tvars == <<clock, end, blocked, live, spent, lost, ended, forward>>

Init ==
    /\ clock = 0
    /\ end = [p \in Pools |-> NoReset]
    /\ blocked = [p \in Pools |-> FALSE]
    /\ live = [p \in Pools |-> {}]
    /\ spent = [p \in Pools |-> 0]
    /\ lost = [p \in Pools |-> 0]
    /\ ended = [p \in Pools |-> 0]
    /\ forward = [p \in Pools |-> TRUE]

Advance == clock' = clock + 1 /\ UNCHANGED <<end, blocked, live, spent, lost, ended, forward>>

\* A window that is over is rolled by the step that notices, at most Lag late.
Over(p)         == end[p] # NoReset /\ clock >= end[p]
LongOver(p)     == end[p] # NoReset /\ clock >= end[p] + Lag
Notices(p, rolled) == (rolled => Over(p)) /\ (LongOver(p) => rolled)

\* What is left of a pool in a step that has rolled its window or not.
LiveNow(p, rolled)    == IF rolled THEN {} ELSE live[p]
SpentNow(p, rolled)   == IF rolled THEN 0 ELSE spent[p]
LostNow(p, rolled)    == IF rolled THEN 0 ELSE lost[p]
EndedNow(p, rolled)   == IF rolled THEN end[p] ELSE ended[p]
BlockedNow(p, rolled) == blocked[p] /\ ~rolled
EndNow(p, rolled)     == IF rolled THEN NoReset ELSE end[p]

\* The pool's end becomes e: it is the one on record, or lies ahead of a clock at
\* most Lag late; a window that is rolled gives way to a later one.
Ends(p, rolled, e) ==
    /\ end' = [end EXCEPT ![p] = e]
    /\ e # EndNow(p, rolled) => e # NoReset /\ e + Lag > clock
    /\ rolled /\ e # NoReset => e > end[p]
    /\ ended' = [ended EXCEPT ![p] = EndedNow(p, rolled)]
    /\ forward' = [forward EXCEPT ![p] = @ /\
         (e # NoReset => /\ e > EndedNow(p, rolled)
                         /\ EndNow(p, rolled) # NoReset => e >= EndNow(p, rolled))]

Roll(S) ==
    /\ \A p \in S : Over(p)
    /\ end' = [p \in Pools |-> IF p \in S THEN NoReset ELSE end[p]]
    /\ blocked' = [p \in Pools |-> blocked[p] /\ p \notin S]
    /\ live' = [p \in Pools |-> IF p \in S THEN {} ELSE live[p]]
    /\ spent' = [p \in Pools |-> IF p \in S THEN 0 ELSE spent[p]]
    /\ lost' = [p \in Pools |-> IF p \in S THEN 0 ELSE lost[p]]
    /\ ended' = [p \in Pools |-> IF p \in S THEN end[p] ELSE ended[p]]
    /\ UNCHANGED <<clock, forward>>

\* A grant needs room under the limit and an unblocked pool; it may open a
\* window, and leaves one that is open its end.
Grant(a, p, rolled, e) ==
    /\ Notices(p, rolled)
    /\ \A q \in Pools : a \notin live[q]
    /\ ~BlockedNow(p, rolled)
    /\ Limit[p] # NoLimit =>
         SpentNow(p, rolled) + Cardinality(LiveNow(p, rolled)) < Limit[p] + LostNow(p, rolled)
    /\ live' = [live EXCEPT ![p] = LiveNow(p, rolled) \cup {a}]
    /\ spent' = [spent EXCEPT ![p] = SpentNow(p, rolled)]
    /\ lost' = [lost EXCEPT ![p] = LostNow(p, rolled)]
    /\ blocked' = [blocked EXCEPT ![p] = FALSE]
    /\ EndNow(p, rolled) # NoReset => e = EndNow(p, rolled)
    /\ Ends(p, rolled, e)
    /\ UNCHANGED clock

Spend(a, p) ==
    /\ a \in live[p]
    /\ live' = [live EXCEPT ![p] = @ \ {a}]
    /\ spent' = [spent EXCEPT ![p] = @ + 1]
    /\ UNCHANGED <<clock, end, blocked, lost, ended, forward>>

\* A request that was not sent is given back, in the window that granted it.
GiveBack(a, p) ==
    /\ a \in live[p] /\ ~LongOver(p)
    /\ live' = [live EXCEPT ![p] = @ \ {a}]
    /\ UNCHANGED <<clock, end, blocked, spent, lost, ended, forward>>

\* A grant of an earlier window is taken for one of the current: this can happen
\* only to a pool whose end was moved back, or that has no limit to exceed.
Mistake(p) ==
    /\ Limit[p] # NoLimit => ~forward[p]
    /\ lost' = [lost EXCEPT ![p] = @ + 1]
    /\ UNCHANGED <<clock, end, blocked, live, spent, ended, forward>>

\* The provider's own word on a pool: it may move the end of an open window
\* and block the pool; a block is never lifted nor shortened by it.
Report(p, rolled, e, block) ==
    /\ Notices(p, rolled)
    /\ live' = [live EXCEPT ![p] = LiveNow(p, rolled)]
    /\ spent' = [spent EXCEPT ![p] = SpentNow(p, rolled)]
    /\ lost' = [lost EXCEPT ![p] = LostNow(p, rolled)]
    /\ blocked' = [blocked EXCEPT ![p] = block]
    /\ Ends(p, rolled, e)
    /\ block => e # NoReset
    /\ BlockedNow(p, rolled) =>
         block /\ (EndNow(p, rolled) # NoReset => e >= EndNow(p, rolled))
    /\ UNCHANGED clock

Next ==
    \/ Advance
    \/ \E S \in SUBSET Pools : Roll(S)
    \/ \E p \in Pools :
         \/ Mistake(p)
         \/ \E a \in Attempts : Spend(a, p) \/ GiveBack(a, p)
         \/ \E rolled \in BOOLEAN :
              \/ \E block \in BOOLEAN : Report(p, rolled, end'[p], block)
              \/ \E a \in Attempts : Grant(a, p, rolled, end'[p])

Spec == Init /\ [][Next]_tvars
=============================================================================
