----------------------------- MODULE StatusPage -----------------------------
(***************************************************************************)
(* The page /status serves (fair/service/status_page.py) beside the process *)
(* that serves it.  The page asks for /health and, with a client key, for   *)
(* the listings; requests overlap, time out and are answered in any order,  *)
(* the user submits and forgets keys meanwhile, and the process may end and *)
(* come back with other keys.  One refresh is one element of `reads`, from  *)
(* its start to its end; every step of one between two awaits is an action. *)
(***************************************************************************)
EXTENDS Service

CONSTANTS
    Unsendable,     \* a typed key no header can carry
    NoTables,       \* the tables are hidden
    MaxTurns,       \* refreshes the page starts
    MaxSessions,    \* keys submitted and forgotten
    MaxReads        \* refreshes under way at once

ASSUME PageAssumption ==
    /\ MaxTurns \in Nat /\ MaxSessions \in Nat /\ MaxReads \in Nat
    /\ Unsendable \notin Secrets \cup {NoKey}
    /\ NoTables \notin [mine : Nat, bearer : Secrets, turn : Nat]

VARIABLES
    key, session, asked, drawn,   \* the script's variables of those names
    reads,        \* refreshes under way
    form,         \* is the key form shown?  Otherwise the forget button is
    tables,       \* the answer whose tables are shown, or NoTables
    detail,       \* the line under the headline: empty, counts or named providers
    stamp         \* what it says, nothing yet, "ok" for "Updated ...", or "stale", and in
                  \* which session it was said (which the page does not show)

page_vars == <<key, session, asked, drawn, reads, form, tables, detail, stamp>>
vars == <<service_vars, page_vars>>

Read == [mine : Nat, bearer : Secrets \cup {NoKey}, turn : Nat,
         at : {"health", "lists"}, reply : {"none", "listed", "refused", "failed", "odd"}]

-----------------------------------------------------------------------------
(* The script's helpers.  Operators named Bug_... are mutated forms of the *)
(* definition that follows them.                                           *)

Bug_SupersededByTurn(r) == r.turn < drawn
Bug_SupersededByKey(r) == r.mine # session
superseded(r) == r.mine # session \/ r.turn < drawn

\* refresh, up to its first await.
Bug_Asks(k, s) ==
    /\ asked' = asked + 1
    /\ reads' = reads \cup {[mine |-> s, bearer |-> k, turn |-> drawn, at |-> "health", reply |-> "none"]}
Asks(k, s) ==
    /\ asked' = asked + 1
    /\ reads' = reads \cup {[mine |-> s, bearer |-> k, turn |-> asked + 1, at |-> "health", reply |-> "none"]}

MayAsk == asked < MaxTurns /\ Cardinality(reads) < MaxReads

\* hideDetail is the part about the tables.
Bug_signedOut(s) == key' = NoKey /\ session' = s /\ form' = TRUE /\ UNCHANGED tables
signedOut(s) == key' = NoKey /\ session' = s /\ form' = TRUE /\ tables' = NoTables

\* The line that says how fresh the page is.
stamped(ok) == stamp' = [says |-> IF ok THEN "ok" ELSE "stale", mine |-> session]

\* summaryView put on the page.
Draws(what, r) == detail' = what /\ drawn' = r.turn /\ stamped(TRUE)

\* providersView, skippedView and quotaView put on the page.
Shows(r) == tables' = [mine |-> r.mine, bearer |-> r.bearer, turn |-> r.turn]

\* AbortSignal.timeout, of every read.
Bug_TimesOut(r) == r.at = "health"
TimesOut(r) == r \in reads

-----------------------------------------------------------------------------
(* Actions *)

Init ==
    /\ ServiceInit
    /\ key = NoKey /\ session = 0 /\ asked = 0 /\ drawn = 0 /\ reads = {}
    /\ form = TRUE /\ tables = NoTables /\ detail = "empty"
    /\ stamp = [says |-> "none", mine |-> 0]

Opened == asked > 0

\* The page is loaded, from a process that serves it, and asks at once.
Load ==
    /\ ~Opened /\ Serving /\ deployment \in Viewed /\ MayAsk
    /\ Asks(key, session)
    /\ UNCHANGED <<service_vars, key, session, drawn, form, tables, detail, stamp>>

\* The interval, or the page becomes visible.
Poll ==
    /\ Opened /\ MayAsk
    /\ Asks(key, session)
    /\ UNCHANGED <<service_vars, key, session, drawn, form, tables, detail, stamp>>

\* The form is submitted: a key, or nothing but blanks.
SubmitKey(typed) ==
    /\ Opened /\ form /\ session < MaxSessions /\ MayAsk
    /\ session' = session + 1 /\ key' = typed
    /\ Asks(typed, session + 1)
    /\ UNCHANGED <<service_vars, drawn, form, tables, detail, stamp>>

\* It is submitted with a character no header can carry.
SubmitUnsendable ==
    /\ Opened /\ form /\ session < MaxSessions /\ MayAsk
    /\ signedOut(session + 1)
    /\ Asks(NoKey, session + 1)
    /\ UNCHANGED <<service_vars, drawn, detail, stamp>>

ForgetKey ==
    /\ Opened /\ ~form /\ session < MaxSessions /\ MayAsk
    /\ signedOut(session + 1)
    /\ Asks(NoKey, session + 1)
    /\ UNCHANGED <<service_vars, drawn, detail, stamp>>

\* /health answered, with 200 or 503: drawn, or the listings are asked for.
HealthArrives(r) ==
    /\ r.at = "health" /\ Serving
    /\ \/ /\ superseded(r)
          /\ reads' = reads \ {r} /\ UNCHANGED <<drawn, detail, stamp>>
       \/ /\ ~superseded(r) /\ r.bearer = NoKey
          /\ reads' = reads \ {r} /\ Draws("counts", r)
       \/ /\ ~superseded(r) /\ r.bearer # NoKey
          /\ reads' = (reads \ {r}) \cup {[r EXCEPT !.at = "lists"]}
          /\ UNCHANGED <<drawn, detail, stamp>>
    /\ UNCHANGED <<service_vars, key, session, asked, form, tables>>

\* The process answers the two listings of a refresh; the answer is on its way.
\* A handler may fail, and what it sends may be more than the page can draw.
ListsServed(r) ==
    /\ r.at = "lists" /\ r.reply = "none" /\ Serving
    /\ \E reply \in IF Listing(r.bearer) = 401 THEN {"refused"} ELSE {"listed", "failed", "odd"} :
          reads' = (reads \ {r}) \cup {[r EXCEPT !.reply = reply]}
    /\ UNCHANGED <<service_vars, key, session, asked, drawn, form, tables, detail, stamp>>

\* A read timed out, or nobody was there to answer it.
ReadFails(r) ==
    /\ TimesOut(r) \/ ~Serving
    /\ reads' = reads \ {r}
    /\ IF superseded(r) THEN UNCHANGED stamp ELSE stamped(FALSE)
    /\ UNCHANGED <<service_vars, key, session, asked, drawn, form, tables, detail>>

\* Both listings are there, for a refresh that is no longer wanted ...
ListsSuperseded(r) ==
    /\ r.reply # "none" /\ superseded(r)
    /\ reads' = reads \ {r}
    /\ UNCHANGED <<service_vars, key, session, asked, drawn, form, tables, detail, stamp>>

\* ... or with a 401 ...
ListsRefused(r) ==
    /\ r.reply = "refused" /\ ~superseded(r)
    /\ reads' = reads \ {r}
    /\ signedOut(session + 1) /\ Draws("counts", r)
    /\ UNCHANGED <<service_vars, asked>>

\* ... or with something the page has no use for, which still counts as drawn:
\* no view is put on the page before all of them are built ...
ListsUnusable(r) ==
    /\ r.reply \in {"failed", "odd"} /\ ~superseded(r)
    /\ reads' = reads \ {r}
    /\ drawn' = r.turn /\ stamped(FALSE)
    /\ UNCHANGED <<service_vars, key, session, asked, form, tables, detail>>

\* ... or as they should be.
ListsDrawn(r) ==
    /\ r.reply = "listed" /\ ~superseded(r)
    /\ reads' = reads \ {r}
    /\ Draws("named", r) /\ Shows(r) /\ form' = FALSE
    /\ UNCHANGED <<service_vars, key, session, asked>>

ReadEnds(r) ==
    HealthArrives(r) \/ ReadFails(r) \/ ListsSuperseded(r) \/ ListsRefused(r)
        \/ ListsUnusable(r) \/ ListsDrawn(r)

Next ==
    \/ (Start \/ Close \/ Restart) /\ UNCHANGED page_vars
    \/ Load \/ Poll \/ SubmitUnsendable \/ ForgetKey
    \/ \E typed \in Secrets \cup {NoKey} : SubmitKey(typed)
    \/ \E r \in reads : ListsServed(r) \/ ReadEnds(r)

Spec == Init /\ [][Next]_vars

\* Every read is given TIMEOUT_MS, so a refresh moves on whatever the process
\* does.  Nothing is asked of the user, the timer or the process.
EndsTurn(t) == \E r \in reads : r.turn = t /\ ReadEnds(r)
FairSpec == Spec /\ \A t \in 1..MaxTurns : WF_vars(EndsTurn(t))

-----------------------------------------------------------------------------
(* Properties *)

\* What the variables hold.  Each refresh has its own number.
PageTypeOK ==
    /\ ServiceTypeOK
    /\ key \in Secrets \cup {NoKey} /\ session \in Nat /\ asked \in Nat /\ drawn \in 0..asked
    /\ reads \subseteq Read /\ form \in BOOLEAN
    /\ tables \in {NoTables} \cup [mine : Nat, bearer : Secrets, turn : Nat]
    /\ detail \in {"empty", "counts", "named"}
    /\ stamp \in [says : {"none", "ok", "stale"}, mine : Nat]
    /\ \A r \in reads : r.turn \in 1..asked /\ \A o \in reads : o.turn = r.turn => o = r

\* The tables on the page were listed for the key in force, in the session it
\* was submitted in: never for one that was forgotten, refused or replaced
\* while its answer was on the way, and never beside the form that asks for one.
DetailUnderKey ==
    tables # NoTables =>
        /\ key # NoKey /\ tables.bearer = key /\ tables.mine = session /\ ~form
        /\ tables.turn <= drawn

\* What is on the page is replaced only by an answer that was asked for later,
\* and a page that went stale looks fresh again only with one.
ScreenForward ==
    [][ /\ drawn' >= drawn
        /\ (detail' # detail \/ (tables' # tables /\ tables' # NoTables)) => drawn' > drawn
        /\ (stamp'.says = "ok" /\ stamp.says # "ok") => drawn' > drawn ]_vars

\* A key in force is given up by the user, who has the page ask anew, or because
\* FAIR refused that key in that session: a late refusal of the key before it,
\* or an answer that failed, signs nobody out.
OnlyRefusedKeySignsOut ==
    [][ (key # NoKey /\ key' # key /\ asked' = asked) =>
            \E r \in reads \ reads' :
                r.reply = "refused" /\ r.bearer = key /\ r.mine = session ]_vars

\* Whoever submits a key is answered, whether or not the process ever is there to:
\* by the tables, the form again, or a page that says, not only since before, that
\* it is stale.
SubmitAnswered ==
    \A s \in 1..MaxSessions :
        (session = s /\ key # NoKey) ~>
            \/ session # s
            \/ tables # NoTables /\ tables.mine = s
            \/ stamp = [says |-> "stale", mine |-> s]

\* README.md:382 says that without a key the page shows only the /health counts.
CountsOnlyWithoutKey == key = NoKey => detail # "named"
=============================================================================
