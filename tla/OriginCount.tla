---------------------------- MODULE OriginCount ----------------------------
(***************************************************************************)
(* independent_count (fair/quality/source_reviews.py): each origin in turn *)
(* is given a reviewed text of its own, others being moved to other texts  *)
(* of theirs if need be.  augment calls itself: its calls are a stack, and *)
(* a step is one turn of its loop or one return.                           *)
(***************************************************************************)
EXTENDS Origins, Sequences

CONSTANT ReviewSets     \* the reviews there may be to count

\* Texts and origins are numbers, sorted as the code sorts them.
ASSUME ReviewSetsAssumption ==
    \A R \in ReviewSets :
        IsFiniteSet(R) /\ \A r \in R : r.origin \in Nat /\ r.digest \in Nat

VARIABLES
    reviews,    \* what is counted
    todo,       \* the origins still to be counted, the one at its turn among them
    assigned,   \* the origin each text was given to
    seen,       \* the texts asked for since this turn began
    stack,      \* the calls of augment: whom it places, the texts left to try, the last tried
    placing,    \* whether the calls are returning True
    count       \* the origins that have been placed

cvars == <<reviews, todo, assigned, seen, stack, placing, count>>

\* The keys of graph, and graph[o].
OriginsIn(R) == {r.origin : r \in R}
Graph(R, o) == {r.digest : r \in {q \in R : q.origin = o}}

NoText == -1
Call(o) == [origin |-> o, left |-> Graph(reviews, o), text |-> NoText]
Top == stack[Len(stack)]
Popped == SubSeq(stack, 1, Len(stack) - 1)
Least(n, S) == n \in S /\ \A m \in S : n <= m

CountInit ==
    /\ reviews \in ReviewSets
    /\ todo = OriginsIn(reviews)
    /\ assigned = <<>> /\ seen = {} /\ stack = <<>> /\ placing = FALSE /\ count = 0

\* The next origin of sorted(graph) is tried, with a fresh set of texts seen.
NextOrigin ==
    /\ stack = <<>>
    /\ \E o \in todo : Least(o, todo) /\ stack' = <<Call(o)>>
    /\ seen' = {}
    /\ UNCHANGED <<reviews, todo, assigned, placing, count>>

Trying(t) == stack # <<>> /\ ~placing /\ Least(t, Top.left)
Tried(t) == [stack EXCEPT ![Len(stack)] = [Top EXCEPT !.left = @ \ {t}, !.text = t]]

\* A text that was asked for in this turn already is passed over.
Skip(t) ==
    /\ Trying(t) /\ t \in seen
    /\ stack' = Tried(t)
    /\ UNCHANGED <<reviews, todo, assigned, seen, placing, count>>

\* A text nobody has is taken: this call returns True, and so do all it was called by.
Take(t) ==
    /\ Trying(t) /\ t \notin seen /\ t \notin DOMAIN assigned
    /\ seen' = seen \cup {t}
    /\ stack' = Tried(t)
    /\ placing' = TRUE
    /\ UNCHANGED <<reviews, todo, assigned, count>>

Bug_AskOwner(t) ==
    /\ Trying(t) /\ t \notin seen /\ t \in DOMAIN assigned
    /\ seen' = seen \cup {t}
    /\ stack' = Tried(t)
    /\ UNCHANGED <<reviews, todo, assigned, placing, count>>
\* Without seen.add the calls go on till Python stops them (here: at eight, so that the
\* states stay finite) and the count has no result.
Bug_NeverSeen(t) ==
    /\ Trying(t) /\ t \notin seen /\ t \in DOMAIN assigned /\ Len(stack) < 8
    /\ stack' = Append(Tried(t), Call(assigned[t]))
    /\ UNCHANGED <<reviews, todo, assigned, seen, placing, count>>
\* A text somebody has: can he be given another?
AskOwner(t) ==
    /\ Trying(t) /\ t \notin seen /\ t \in DOMAIN assigned
    /\ seen' = seen \cup {t}
    /\ stack' = Append(Tried(t), Call(assigned[t]))
    /\ UNCHANGED <<reviews, todo, assigned, placing, count>>

\* An origin's turn ends with its outermost call.
Served == IF Len(stack) = 1 THEN {Top.origin} ELSE {}

\* No text is left to try: False.
GiveUp ==
    /\ stack # <<>> /\ ~placing /\ Top.left = {}
    /\ stack' = Popped
    /\ todo' = todo \ Served
    /\ UNCHANGED <<reviews, assigned, seen, placing, count>>

Bug_Assign ==
    /\ stack # <<>> /\ placing
    /\ assigned' = [x \in DOMAIN assigned \cup {Top.text} |->
                      IF x \in DOMAIN assigned THEN assigned[x] ELSE Top.origin]
    /\ stack' = Popped
    /\ todo' = todo \ Served
    /\ placing' = (Len(stack) > 1)
    /\ count' = IF Served = {} THEN count ELSE count + 1
    /\ UNCHANGED <<reviews, seen>>
\* assigned[digest] = origin; return True.
Assign ==
    /\ stack # <<>> /\ placing
    /\ assigned' = [x \in DOMAIN assigned \cup {Top.text} |->
                      IF x = Top.text THEN Top.origin ELSE assigned[x]]
    /\ stack' = Popped
    /\ todo' = todo \ Served
    /\ placing' = (Len(stack) > 1)
    /\ count' = IF Served = {} THEN count ELSE count + 1
    /\ UNCHANGED <<reviews, seen>>

CountNext ==
    \/ NextOrigin
    \/ stack # <<>> /\ \E t \in Top.left : Skip(t) \/ Take(t) \/ AskOwner(t)
    \/ GiveUp
    \/ Assign

CountSpec == CountInit /\ [][CountNext]_cvars

-----------------------------------------------------------------------------
(* Properties *)

Counted == stack = <<>> /\ todo = {}

\* What is counted is the most corroboration there is: trying the origins one by one
\* and never taking back a text but to give its owner another finds a largest
\* matching, whatever origins and texts have in common (source_reviews.py
\* independent_count).
CountIsCorroboration == Counted => count = Corroboration(reviews)

\* augment, which calls itself of the owner of every text it has not seen, comes to an
\* end, and so does the count (source_reviews.py augment, seen).
CountEnds == <>Counted
=============================================================================
