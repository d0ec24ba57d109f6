-------------------------- MODULE StatusPageProofs --------------------------
(***************************************************************************)
(* A process that starts accounts for every provider, and each key opens   *)
(* what is its own; what the status page shows belongs to the key in force *)
(* and never goes back.  For any number of providers, keys, refreshes and  *)
(* restarts of the process.                                                *)
(***************************************************************************)
EXTENDS StatusPage, TLAPS

\* The page's own part of the types.
Typed ==
    /\ key \in Secrets \cup {NoKey} /\ session \in Nat /\ asked \in Nat
    /\ drawn \in Nat /\ drawn <= asked
    /\ reads \subseteq Read

\* A refresh is of this session or an older one, and of this session only with
\* the key in force.  Each has its own number, none of them the one drawn last.
Attributed ==
    \A r \in reads :
        /\ r.mine <= session /\ (r.mine = session => r.bearer = key)
        /\ r.turn \in 1..asked /\ r.turn # drawn
        /\ r.reply # "none" => r.bearer # NoKey
        /\ r.at = "lists" => r.bearer # NoKey
        /\ \A o \in reads : o.turn = r.turn => o = r

Numbered == tables # NoTables => tables.turn \in Nat

PageInv == Typed /\ Attributed /\ Numbered /\ DetailUnderKey

LEMMA InitHolds == Init => PageInv
BY DEF Init, PageInv, Typed, Attributed, Numbered, DetailUnderKey

-----------------------------------------------------------------------------
(* What the steps of a refresh change. *)

\* A refresh that starts is the newest of all.
LEMMA AskingKeeps ==
  ASSUME Typed, Attributed, NEW k \in Secrets \cup {NoKey}, NEW s \in Nat,
         Asks(k, s), key' = k, session' = s, UNCHANGED drawn,
         s > session \/ (s = session /\ k = key)
  PROVE  Typed' /\ Attributed'
<1>. DEFINE new == [mine |-> s, bearer |-> k, turn |-> asked + 1,
                    at |-> "health", reply |-> "none"]
<1>1. new \in Read /\ asked' = asked + 1 /\ reads' = reads \cup {new}
  BY DEF Asks, Read, Typed
<1>2. Typed'
  BY <1>1 DEF Typed
<1>3. new.turn = asked + 1 /\ new.mine = s /\ new.bearer = k /\ new.at = "health"
      /\ new.reply = "none"
  OBVIOUS
<1>. HIDE DEF new
<1>4. \A r \in reads : r \in Read /\ r.mine \in Nat /\ r.turn \in Nat
  BY DEF Typed, Read
<1>5. \A r \in reads : r.turn # new.turn
  BY <1>3 DEF Attributed, Typed
<1>6. ASSUME NEW r \in reads'
      PROVE  /\ r.mine <= session' /\ (r.mine = session' => r.bearer = key')
             /\ r.turn \in 1..asked' /\ r.turn # drawn'
             /\ r.reply # "none" => r.bearer # NoKey
             /\ r.at = "lists" => r.bearer # NoKey
             /\ \A o \in reads' : o.turn = r.turn => o = r
  <2>1. CASE r = new
    BY <1>1, <1>3, <1>5, <2>1 DEF Typed
  <2>2. CASE r \in reads
    <3>1. r.mine <= session /\ (r.mine = session => r.bearer = key)
          /\ r.turn \in 1..asked /\ r.turn # drawn
      BY <2>2 DEF Attributed
    <3>2. r.mine <= session' /\ (r.mine = session' => r.bearer = key')
      BY <1>4, <2>2, <3>1 DEF Typed
    <3>3. r.turn \in 1..asked' /\ r.turn # drawn'
      BY <1>1, <3>1 DEF Typed
    <3>4. \A o \in reads' : o.turn = r.turn => o = r
      BY <1>1, <1>5, <2>2 DEF Attributed
    <3>. QED  BY <2>2, <3>2, <3>3, <3>4 DEF Attributed
  <2>. QED  BY <1>1, <1>6, <2>1, <2>2
<1>. QED
  BY <1>2, <1>6, Zenon DEF Attributed

\* A refresh that ends leaves the others as they are, whatever is drawn of it.
LEMMA EndingKeeps ==
  ASSUME Typed, Attributed, NEW r \in reads, reads' = reads \ {r}, UNCHANGED asked,
         UNCHANGED drawn \/ (drawn' = r.turn /\ ~superseded(r)),
         UNCHANGED <<key, session>> \/ (key' = NoKey /\ session' = session + 1)
  PROVE  Typed' /\ Attributed'
<1>1. r.turn \in 1..asked /\ r \in Read
  BY DEF Typed, Attributed
<1>2. Typed'
  BY <1>1 DEF Typed
<1>3. ASSUME NEW o \in reads'
      PROVE  /\ o.mine <= session' /\ (o.mine = session' => o.bearer = key')
             /\ o.turn \in 1..asked' /\ o.turn # drawn'
             /\ o.reply # "none" => o.bearer # NoKey
             /\ o.at = "lists" => o.bearer # NoKey
             /\ \A p \in reads' : p.turn = o.turn => p = o
  <2>1. o \in reads /\ o # r /\ o.mine \in Nat
    BY <1>3 DEF Typed, Read
  <2>2. o.mine <= session /\ (o.mine = session => o.bearer = key)
        /\ o.turn \in 1..asked /\ o.turn # drawn
    BY <2>1 DEF Attributed
  <2>3. o.turn # r.turn
    BY <2>1 DEF Attributed
  <2>4. o.mine <= session' /\ (o.mine = session' => o.bearer = key')
    BY <2>1, <2>2 DEF Typed
  <2>. QED  BY <2>1, <2>2, <2>3, <2>4 DEF Attributed
<1>. QED
  BY <1>2, <1>3, Zenon DEF Attributed

\* One that moves on keeps its number, its session and its key.
LEMMA MovingKeeps ==
  ASSUME Typed, Attributed, NEW r \in reads, NEW n \in Read, n # r,
         n.mine = r.mine, n.bearer = r.bearer, n.turn = r.turn, r.bearer # NoKey,
         reads' = (reads \ {r}) \cup {n}, UNCHANGED <<key, session, asked, drawn>>
  PROVE  Typed' /\ Attributed'
<1>1. Typed'
  BY DEF Typed
<1>2. ASSUME NEW o \in reads'
      PROVE  /\ o.mine <= session' /\ (o.mine = session' => o.bearer = key')
             /\ o.turn \in 1..asked' /\ o.turn # drawn'
             /\ o.reply # "none" => o.bearer # NoKey
             /\ o.at = "lists" => o.bearer # NoKey
             /\ \A p \in reads' : p.turn = o.turn => p = o
  <2>1. CASE o = n
    BY <2>1 DEF Attributed
  <2>2. CASE o \in reads /\ o # r
    BY <2>2 DEF Attributed
  <2>. QED  BY <1>2, <2>1, <2>2
<1>. QED
  BY <1>1, <1>2, Zenon DEF Attributed

-----------------------------------------------------------------------------
(* Every step, by what it does to the page. *)

LEMMA StillPageKeeps ==
  ASSUME PageInv, UNCHANGED page_vars
  PROVE  PageInv'
BY DEF PageInv, page_vars, Typed, Attributed, Numbered, DetailUnderKey

\* Asking under the key in force leaves the page as it is.
LEMMA PollKeeps ==
  ASSUME PageInv, Load \/ Poll
  PROVE  PageInv'
<1>1. /\ Asks(key, session) /\ UNCHANGED <<key, session, drawn, form, tables>>
  BY DEF Load, Poll
<1>2. key \in Secrets \cup {NoKey} /\ session \in Nat
  BY DEF PageInv, Typed
<1>3. Typed' /\ Attributed'
  BY <1>1, <1>2, AskingKeeps DEF PageInv
<1>. QED
  BY <1>1, <1>3 DEF PageInv, Numbered, DetailUnderKey

\* The form is on the page only while the tables are hidden.
LEMMA SubmitKeeps ==
  ASSUME PageInv, NEW typed \in Secrets \cup {NoKey}, SubmitKey(typed)
  PROVE  PageInv'
<1>1. /\ Asks(typed, session + 1) /\ key' = typed /\ session' = session + 1
      /\ UNCHANGED <<drawn, form, tables>> /\ form
  BY DEF SubmitKey
<1>2. session + 1 \in Nat /\ session + 1 > session
  BY DEF PageInv, Typed
<1>3. Typed' /\ Attributed'
  BY <1>1, <1>2, AskingKeeps DEF PageInv
<1>4. tables = NoTables
  BY <1>1 DEF PageInv, Numbered, DetailUnderKey
<1>. QED
  BY <1>1, <1>3, <1>4 DEF PageInv, Numbered, DetailUnderKey

LEMMA SignOutKeeps ==
  ASSUME PageInv, SubmitUnsendable \/ ForgetKey
  PROVE  PageInv'
<1>1. /\ Asks(NoKey, session + 1) /\ key' = NoKey /\ session' = session + 1
      /\ tables' = NoTables /\ UNCHANGED drawn
  BY DEF SubmitUnsendable, ForgetKey, signedOut
<1>2. session + 1 \in Nat /\ session + 1 > session
  BY DEF PageInv, Typed
<1>3. Typed' /\ Attributed'
  BY <1>1, <1>2, AskingKeeps DEF PageInv
<1>. QED
  BY <1>1, <1>3 DEF PageInv, Numbered, DetailUnderKey

LEMMA HealthKeeps ==
  ASSUME PageInv, NEW r \in reads, HealthArrives(r)
  PROVE  PageInv'
<1>. DEFINE n == [r EXCEPT !.at = "lists"]
<1>1. UNCHANGED <<key, session, asked, form, tables>> /\ r.at = "health"
  BY DEF HealthArrives
<1>2. \/ reads' = reads \ {r} /\ UNCHANGED drawn
      \/ reads' = reads \ {r} /\ drawn' = r.turn /\ ~superseded(r)
      \/ reads' = (reads \ {r}) \cup {n} /\ UNCHANGED drawn /\ r.bearer # NoKey
  BY Zenon DEF HealthArrives, Draws
<1>3. /\ r \in Read /\ n \in Read /\ n.at = "lists"
      /\ n.mine = r.mine /\ n.bearer = r.bearer /\ n.turn = r.turn
  BY DEF PageInv, Typed, Read
<1>4. n # r
  BY <1>1, <1>3
<1>. HIDE DEF n
<1>5. Typed' /\ Attributed'
  BY <1>1, <1>2, <1>3, <1>4, EndingKeeps, MovingKeeps DEF PageInv
<1>6. drawn' >= drawn
  BY <1>2, <1>3 DEF PageInv, Typed, Read, superseded
<1>7. tables # NoTables => tables.turn <= drawn'
  BY <1>2, <1>3, <1>6 DEF PageInv, Typed, Read, Numbered, DetailUnderKey
<1>. QED
  BY <1>1, <1>5, <1>7 DEF PageInv, Numbered, DetailUnderKey

LEMMA ServedKeeps ==
  ASSUME PageInv, NEW r \in reads, ListsServed(r)
  PROVE  PageInv'
<1>1. PICK reply \in {"refused", "listed", "failed", "odd"} :
         reads' = (reads \ {r}) \cup {[r EXCEPT !.reply = reply]}
  BY DEF ListsServed
<1>. DEFINE n == [r EXCEPT !.reply = reply]
<1>2. /\ UNCHANGED <<key, session, asked, drawn, form, tables>>
      /\ r.at = "lists" /\ r.reply = "none"
  BY DEF ListsServed
<1>3. /\ r \in Read /\ n \in Read /\ n.reply = reply
      /\ n.mine = r.mine /\ n.bearer = r.bearer /\ n.turn = r.turn
  BY DEF PageInv, Typed, Read
<1>4. n # r /\ r.bearer # NoKey
  BY <1>2, <1>3 DEF PageInv, Attributed
<1>5. reads' = (reads \ {r}) \cup {n}
  BY <1>1
<1>. HIDE DEF n
<1>6. Typed' /\ Attributed'
  BY <1>2, <1>3, <1>4, <1>5, MovingKeeps DEF PageInv
<1>. QED
  BY <1>2, <1>6 DEF PageInv, Numbered, DetailUnderKey

LEMMA FailingKeeps ==
  ASSUME PageInv, NEW r \in reads, ReadFails(r) \/ ListsSuperseded(r)
  PROVE  PageInv'
<1>1. reads' = reads \ {r} /\ UNCHANGED <<key, session, asked, drawn, form, tables>>
  BY DEF ReadFails, ListsSuperseded
<1>2. Typed' /\ Attributed'
  BY <1>1, EndingKeeps DEF PageInv
<1>. QED
  BY <1>1, <1>2 DEF PageInv, Numbered, DetailUnderKey

LEMMA RefusedKeeps ==
  ASSUME PageInv, NEW r \in reads, ListsRefused(r)
  PROVE  PageInv'
<1>1. /\ reads' = reads \ {r} /\ UNCHANGED asked /\ tables' = NoTables
      /\ key' = NoKey /\ session' = session + 1 /\ drawn' = r.turn /\ ~superseded(r)
  BY DEF ListsRefused, signedOut, Draws
<1>2. Typed' /\ Attributed'
  BY <1>1, EndingKeeps DEF PageInv
<1>. QED
  BY <1>1, <1>2 DEF PageInv, Numbered, DetailUnderKey

LEMMA UnusableKeeps ==
  ASSUME PageInv, NEW r \in reads, ListsUnusable(r)
  PROVE  PageInv'
<1>1. /\ reads' = reads \ {r} /\ UNCHANGED <<key, session, asked, form, tables>>
      /\ drawn' = r.turn /\ ~superseded(r)
  BY DEF ListsUnusable
<1>2. Typed' /\ Attributed'
  BY <1>1, EndingKeeps DEF PageInv
<1>3. r.turn >= drawn /\ drawn \in Nat /\ r.turn \in Nat
  BY <1>1 DEF superseded, PageInv, Typed, Attributed, Read
<1>4. ASSUME tables # NoTables  PROVE tables.turn <= drawn'
  BY <1>1, <1>3, <1>4 DEF PageInv, Numbered, DetailUnderKey
<1>. QED
  BY <1>1, <1>2, <1>4 DEF PageInv, Numbered, DetailUnderKey

LEMMA DrawnKeeps ==
  ASSUME PageInv, NEW r \in reads, ListsDrawn(r)
  PROVE  PageInv'
<1>1. /\ reads' = reads \ {r} /\ UNCHANGED <<key, session, asked>> /\ form' = FALSE
      /\ drawn' = r.turn /\ ~superseded(r) /\ r.reply # "none"
      /\ tables' = [mine |-> r.mine, bearer |-> r.bearer, turn |-> r.turn]
  BY DEF ListsDrawn, Draws, Shows
<1>2. Typed' /\ Attributed'
  BY <1>1, EndingKeeps DEF PageInv
<1>3. r.mine = session /\ r.bearer = key /\ key # NoKey /\ r.turn \in Nat
  BY <1>1 DEF superseded, PageInv, Attributed, Typed, Read
<1>. QED
  BY <1>1, <1>2, <1>3 DEF PageInv, Numbered, DetailUnderKey

\* What a step can be, seen from the page.
LEMMA StepsOfThePage ==
  ASSUME [Next]_vars
  PROVE  \/ UNCHANGED page_vars
         \/ Load \/ Poll \/ SubmitUnsendable \/ ForgetKey
         \/ \E typed \in Secrets \cup {NoKey} : SubmitKey(typed)
         \/ \E r \in reads :
               \/ ListsServed(r) \/ HealthArrives(r) \/ ReadFails(r) \/ ListsSuperseded(r)
               \/ ListsRefused(r) \/ ListsUnusable(r) \/ ListsDrawn(r)
BY Zenon DEF Next, ReadEnds, vars

LEMMA StepKeeps ==
  ASSUME PageInv, [Next]_vars
  PROVE  PageInv'
BY StepsOfThePage, StillPageKeeps, PollKeeps, SubmitKeeps, SignOutKeeps, HealthKeeps,
   ServedKeeps, FailingKeeps, RefusedKeeps, UnusableKeeps, DrawnKeeps, Zenon

LEMMA PageAlways == Spec => []PageInv
<1>. QED  BY InitHolds, StepKeeps, PTL DEF Spec

\* The tables shown are always those of the key in force, in its session.
THEOREM KeyGuardsTables == Spec => []DetailUnderKey
<1>1. PageInv => DetailUnderKey
  BY DEF PageInv
<1>. QED  BY <1>1, PageAlways, PTL

-----------------------------------------------------------------------------

Forward ==
    /\ drawn' >= drawn
    /\ (detail' # detail \/ (tables' # tables /\ tables' # NoTables)) => drawn' > drawn
    /\ (stamp'.says = "ok" /\ stamp.says # "ok") => drawn' > drawn

LEMMA StepForward ==
  ASSUME PageInv, [Next]_vars
  PROVE  Forward
<1>1. drawn \in Nat /\ \A r \in reads : r.turn \in Nat /\ r.turn # drawn
  BY DEF PageInv, Typed, Attributed, Read
<1>2. ASSUME UNCHANGED page_vars  PROVE Forward
  BY <1>1, <1>2 DEF page_vars, Forward
<1>3. ASSUME \/ Load \/ Poll \/ SubmitUnsendable \/ ForgetKey
             \/ \E typed \in Secrets \cup {NoKey} : SubmitKey(typed)
      PROVE  Forward
  <2>1. UNCHANGED <<drawn, detail, stamp>> /\ (tables' = tables \/ tables' = NoTables)
    BY <1>3, Zenon DEF Load, Poll, SubmitUnsendable, ForgetKey, SubmitKey, signedOut
  <2>. QED  BY <1>1, <2>1 DEF Forward
<1>4. ASSUME NEW r \in reads,
             \/ ListsServed(r) \/ HealthArrives(r) \/ ReadFails(r) \/ ListsSuperseded(r)
             \/ ListsRefused(r) \/ ListsUnusable(r) \/ ListsDrawn(r)
      PROVE  Forward
  <2>1. \/ /\ UNCHANGED <<drawn, detail, tables>> /\ (stamp' = stamp \/ stamp'.says = "stale")
        \/ drawn' = r.turn /\ ~superseded(r)
    BY <1>4 DEF ListsServed, HealthArrives, ReadFails, ListsSuperseded, ListsRefused,
                ListsUnusable, ListsDrawn, Draws, stamped
  <2>2. ~superseded(r) => r.turn > drawn
    BY <1>1, <1>4 DEF superseded
  <2>. QED  BY <1>1, <2>1, <2>2 DEF Forward
<1>. QED
  BY <1>2, <1>3, <1>4, StepsOfThePage, Zenon

\* The page is only ever redrawn with a later answer, in every behaviour.
THEOREM NeverBack == Spec => ScreenForward
<1>1. PageInv /\ [Next]_vars => [Forward]_vars
  BY StepForward
<1>. QED  BY <1>1, PageAlways, PTL DEF Spec, ScreenForward, Forward

-----------------------------------------------------------------------------

Refused ==
    (key # NoKey /\ key' # key /\ asked' = asked) =>
        \E r \in reads \ reads' :
            r.reply = "refused" /\ r.bearer = key /\ r.mine = session

LEMMA StepRefused ==
  ASSUME PageInv, [Next]_vars
  PROVE  Refused
<1>1. ASSUME UNCHANGED page_vars  PROVE Refused
  BY <1>1 DEF page_vars, Refused
<1>2. ASSUME \/ Load \/ Poll \/ SubmitUnsendable \/ ForgetKey
             \/ \E typed \in Secrets \cup {NoKey} : SubmitKey(typed)
      PROVE  Refused
  <2>1. asked' = asked + 1
    BY <1>2, Zenon DEF Load, Poll, SubmitUnsendable, ForgetKey, SubmitKey, Asks
  <2>. QED  BY <2>1 DEF Refused, PageInv, Typed
<1>3. ASSUME NEW r \in reads,
             \/ ListsServed(r) \/ HealthArrives(r) \/ ReadFails(r) \/ ListsSuperseded(r)
             \/ ListsUnusable(r) \/ ListsDrawn(r)
      PROVE  Refused
  <2>1. key' = key
    BY <1>3 DEF ListsServed, HealthArrives, ReadFails, ListsSuperseded, ListsUnusable, ListsDrawn
  <2>. QED  BY <2>1 DEF Refused
<1>4. ASSUME NEW r \in reads, ListsRefused(r)  PROVE Refused
  <2>1. r.reply = "refused" /\ r.mine = session /\ reads' = reads \ {r}
    BY <1>4 DEF ListsRefused, superseded
  <2>2. r.bearer = key
    BY <2>1 DEF PageInv, Attributed
  <2>. QED  BY <2>1, <2>2 DEF Refused
<1>. QED
  BY <1>1, <1>2, <1>3, <1>4, StepsOfThePage, Zenon

\* Only a refusal of the key in force takes it from a user who did nothing.
THEOREM SignedOutByRefusal == Spec => OnlyRefusedKeySignsOut
<1>1. PageInv /\ [Next]_vars => [Refused]_vars
  BY StepRefused
<1>. QED  BY <1>1, PageAlways, PTL DEF Spec, OnlyRefusedKeySignsOut, Refused

-----------------------------------------------------------------------------
(* The process behind the page: what it serves with is what its deployment *)
(* asks for, and nothing is left of it when it does not serve.             *)

Phases == {"starting", "failed", "serving", "closed"}

ServiceInv ==
    /\ deployment \in Deployments /\ phase \in Phases
    /\ Serving =>
          /\ registered = Providers(deployment.settings)
          /\ skipped = Skipped(deployment.settings)
          /\ client_keys \in Parsed(deployment.clients)
          /\ ~BadClients(deployment.clients) /\ ~Unbuildable(deployment.settings)
          /\ ~BadAdmin(deployment.admin, client_keys)
    /\ ~Serving => registered = {} /\ skipped = <<>> /\ client_keys = <<>>
    /\ phase = "failed" =>
          \/ BadClients(deployment.clients) \/ Unbuildable(deployment.settings)
          \/ \E keys \in Parsed(deployment.clients) : BadAdmin(deployment.admin, keys)

\* FAIR registers its own providers for a confirmed free tier and a current review,
\* and gives a reason for each it leaves out.
LEMMA BuiltInsProve ==
  ASSUME NEW c, c.unusable \subseteq Ineligible
  PROVE  /\ BuiltIns(c) \subseteq Cloud \cup {Ollama}
         /\ \A p \in BuiltIns(c) \cap Cloud :
               p \in c.keys /\ (p \in RuntimeZero \/ p \in c.confirmed) /\ c.reviewed
<1>1. ASSUME NEW p \in BuiltIns(c), p # Ollama
      PROVE  /\ p \in Cloud
             /\ p \in c.keys /\ (p \in RuntimeZero \/ p \in c.confirmed) /\ c.reviewed
  <2>1. p \in c.keys \cup c.unusable \cup (c.confirmed \cap {Zai})
        /\ Fate(c)[p] = "registered"
    BY <1>1, Zenon DEF BuiltIns, Fate
  <2>2. Fate(c)[p] = IF p \in Ineligible THEN "ineligible" ELSE CloudReason(c, p)
    BY <1>1, <2>1 DEF Fate
  <2>3. p \notin Ineligible /\ CloudReason(c, p) = "registered"
    BY <2>1, <2>2
  <2>4. p \in Confirmed(c) /\ c.reviewed
    BY <2>3 DEF CloudReason
  <2>5. p \in c.keys
    BY <2>1, <2>3, ServiceAssumption
  <2>. QED  BY <2>4, <2>5, ServiceAssumption DEF Confirmed
<1>. QED  BY <1>1, ServiceAssumption

\* Each built-in provider is looked at by itself.
LEMMA BuiltInsAreUsable ==
  ASSUME NEW c, c.keys \subseteq Cloud, c.unusable \subseteq Ineligible,
         c.ollama \in {"off", "served"} \cup Reasons
  PROVE  BuiltIns(c) = Usable(c)
<1>. DEFINE Domain == c.keys \cup c.unusable \cup (c.confirmed \cap {Zai}) \cup {Ollama}
<1>1. ASSUME NEW p  PROVE p \in BuiltIns(c) <=> p \in Domain /\ Fate(c)[p] = "registered"
  BY Zenon DEF BuiltIns, Fate
<1>2. ASSUME NEW p, p \in Domain
      PROVE  Fate(c)[p] = IF p = Ollama THEN OllamaReason(c)
                          ELSE IF p \in Ineligible THEN "ineligible" ELSE CloudReason(c, p)
  BY <1>2 DEF Fate
<1>. HIDE DEF Domain
<1>3. Ollama \in BuiltIns(c) <=> Ollama \in Usable(c)
  <2>1. Ollama \in Domain /\ Fate(c)[Ollama] = OllamaReason(c)
    BY <1>2 DEF Domain
  <2>2. OllamaReason(c) = "registered" <=> c.ollama = "served"
    BY DEF OllamaReason, Reasons
  <2>3. Ollama \in Usable(c) <=> c.ollama = "served"
    BY ServiceAssumption DEF Usable
  <2>. QED  BY <1>1, <2>1, <2>2, <2>3
<1>4. ASSUME NEW p, p # Ollama  PROVE p \in BuiltIns(c) <=> p \in Usable(c)
  <2>1. CASE p \in c.keys
    <3>1. /\ p \in Domain /\ p \in Cloud /\ p \notin Ineligible
          /\ Fate(c)[p] = CloudReason(c, p)
      BY <1>2, <1>4, <2>1, ServiceAssumption DEF Domain
    <3>2. p \in Confirmed(c) <=> p \in RuntimeZero \cup c.confirmed
      BY <3>1, ServiceAssumption DEF Confirmed
    <3>3. CloudReason(c, p) = "registered" <=>
            /\ p \in Confirmed(c) /\ (p \in NeedsAccount => c.account_id) /\ c.reviewed
            /\ p \notin c.refuse
      BY DEF CloudReason
    <3>4. p \in Usable(c) <=>
            /\ p \in RuntimeZero \cup c.confirmed /\ c.reviewed
            /\ (p \in NeedsAccount => c.account_id) /\ p \notin c.refuse
      BY <1>4, <2>1 DEF Usable
    <3>. QED  BY <1>1, <3>1, <3>2, <3>3, <3>4
  <2>2. CASE p \notin c.keys
    <3>1. p \in Domain => p \in Ineligible
      BY <1>4, <2>2, ServiceAssumption DEF Domain
    <3>2. p \notin BuiltIns(c)
      BY <1>1, <1>2, <1>4, <3>1
    <3>3. p \notin Usable(c)
      BY <1>4, <2>2 DEF Usable
    <3>. QED  BY <3>2, <3>3
  <2>. QED  BY <2>1, <2>2
<1>. QED  BY <1>3, <1>4

LEMMA SkippedHasReasons ==
  ASSUME NEW c
  PROVE  /\ \A p : p \in DOMAIN Skipped(c) <=>
                     (p \in DOMAIN Fate(c) /\ Fate(c)[p] \in Reasons)
         /\ \A p \in DOMAIN Skipped(c) : Skipped(c)[p] = Fate(c)[p]
BY Zenon DEF Skipped

\* A key FAIR was given ends in use or with a reason.
LEMMA NoneIsLost ==
  ASSUME NEW c, c.keys \subseteq Cloud, c.unusable \subseteq Ineligible,
         c.ollama \in {"off", "served"} \cup Reasons
  PROVE  /\ c.keys \cup c.unusable \subseteq BuiltIns(c) \cup DOMAIN Skipped(c)
         /\ c.ollama # "off" => Ollama \in BuiltIns(c) \cup DOMAIN Skipped(c)
         /\ BuiltIns(c) \cap DOMAIN Skipped(c) = {}
<1>1. ASSUME NEW p \in c.keys  PROVE p \in BuiltIns(c) \cup DOMAIN Skipped(c)
  <2>1. p \in DOMAIN Fate(c) /\ Fate(c)[p] = CloudReason(c, p)
    BY <1>1, ServiceAssumption DEF Fate
  <2>2. CloudReason(c, p) \in Reasons \cup {"registered"}
    BY DEF CloudReason, Reasons
  <2>. QED  BY <2>1, <2>2, SkippedHasReasons DEF BuiltIns
<1>2. ASSUME NEW p \in c.unusable  PROVE p \in DOMAIN Skipped(c)
  <2>1. p \in DOMAIN Fate(c) /\ Fate(c)[p] = "ineligible"
    BY <1>2, ServiceAssumption DEF Fate
  <2>. QED  BY <2>1, SkippedHasReasons DEF Reasons
<1>3. ASSUME c.ollama # "off"  PROVE Ollama \in BuiltIns(c) \cup DOMAIN Skipped(c)
  <2>1. Ollama \in DOMAIN Fate(c) /\ Fate(c)[Ollama] = OllamaReason(c)
    BY DEF Fate
  <2>2. OllamaReason(c) \in Reasons \cup {"registered"}
    BY <1>3 DEF OllamaReason
  <2>. QED  BY <2>1, <2>2, SkippedHasReasons DEF BuiltIns
<1>4. BuiltIns(c) \cap DOMAIN Skipped(c) = {}
  BY SkippedHasReasons DEF BuiltIns, Reasons
<1>. QED  BY <1>1, <1>2, <1>3, <1>4

LEMMA ServiceInitially == Init => ServiceInv
BY DEF Init, ServiceInit, ServiceInv, Serving, Phases

LEMMA ServiceKeeps ==
  ASSUME ServiceInv, [Next]_vars
  PROVE  ServiceInv'
<1>1. ASSUME UNCHANGED service_vars  PROVE ServiceInv'
  BY <1>1 DEF ServiceInv, service_vars, Serving
<1>2. ASSUME Start  PROVE ServiceInv'
  BY <1>2 DEF Start, ServiceInv, Serving, Phases
<1>3. ASSUME Close  PROVE ServiceInv'
  BY <1>3 DEF Close, ServiceInv, Serving, Phases
<1>4. ASSUME Restart  PROVE ServiceInv'
  BY <1>4, ServiceAssumption DEF Restart, ServiceInv, Serving, Phases
<1>5. Start \/ Close \/ Restart \/ UNCHANGED service_vars
  BY Zenon DEF Next, vars, Load, Poll, SubmitUnsendable, ForgetKey, SubmitKey, ListsServed,
     ReadEnds, HealthArrives, ReadFails, ListsSuperseded, ListsRefused, ListsUnusable, ListsDrawn
<1>. QED  BY <1>1, <1>2, <1>3, <1>4, <1>5

LEMMA ServiceAlways == Spec => []ServiceInv
<1>. QED  BY ServiceInitially, ServiceKeeps, PTL DEF Spec

LEMMA ServiceTypes == ServiceInv => ServiceTypeOK
<1>. SUFFICES ASSUME ServiceInv  PROVE ServiceTypeOK
  OBVIOUS
<1>. DEFINE c == deployment.settings
<1>1. /\ deployment \in Deployments /\ phase \in Phases
      /\ c.keys \subseteq Cloud /\ c.unusable \subseteq Ineligible
  BY DeploymentAssumption DEF ServiceInv
<1>2. CASE ~Serving
  BY <1>1, <1>2 DEF ServiceInv, ServiceTypeOK, Phases
<1>3. CASE Serving
  <2>1. registered = Providers(c) /\ skipped = Skipped(c)
        /\ client_keys \in Parsed(deployment.clients) /\ ~BadClients(deployment.clients)
    BY <1>3 DEF ServiceInv
  <2>2. registered \subseteq Cloud \cup {Ollama} \cup CustomIds(c)
    BY <1>1, <2>1, BuiltInsProve DEF Providers
  <2>3. DOMAIN Fate(c) \subseteq Cloud \cup Ineligible \cup {Ollama}
    BY <1>1, ServiceAssumption DEF Fate
  <2>4. /\ DOMAIN skipped \subseteq Cloud \cup Ineligible \cup {Ollama}
        /\ \A p \in DOMAIN skipped : skipped[p] \in Reasons
    BY <2>1, <2>3, SkippedHasReasons
  <2>5. DOMAIN client_keys = {Stripped[raw] : raw \in DOMAIN deployment.clients}
        /\ client_keys \in [DOMAIN client_keys -> Secrets]
    BY <2>1 DEF Parsed
  <2>6. \A raw \in DOMAIN deployment.clients : Stripped[raw] \in RawIds
    BY <1>1, <2>1, ServiceAssumption, DeploymentAssumption DEF BadClients
  <2>. QED
    BY <1>1, <2>2, <2>4, <2>5, <2>6, Zenon DEF ServiceTypeOK, Phases
<1>. QED  BY <1>2, <1>3

\* FAIR uses what it may and nothing else, no configured provider disappears, and
\* only the operator's own mistake keeps it from starting, for every configuration.
THEOREM AllAccountedFor == Spec => []StartAccountsForAll
<1>. DEFINE c == deployment.settings
<1>1. ASSUME ServiceInv
      PROVE  /\ c.keys \subseteq Cloud /\ c.unusable \subseteq Ineligible
             /\ c.ollama \in {"off", "served"} \cup Reasons
  BY <1>1, DeploymentAssumption DEF ServiceInv
<1>2. ASSUME ServiceInv, Serving
      PROVE  /\ registered = Usable(c) \cup CustomIds(c) /\ registered # {}
             /\ c.keys \cup c.unusable \subseteq registered \cup DOMAIN skipped
             /\ c.ollama # "off" => Ollama \in registered \cup DOMAIN skipped
             /\ registered \cap DOMAIN skipped \subseteq CustomIds(c)
  <2>1. /\ registered = BuiltIns(c) \cup CustomIds(c) /\ skipped = Skipped(c)
        /\ registered # {}
    BY <1>2 DEF ServiceInv, Unbuildable, Providers
  <2>2. BuiltIns(c) = Usable(c)
    BY <1>1, <1>2, BuiltInsAreUsable
  <2>3. /\ c.keys \cup c.unusable \subseteq BuiltIns(c) \cup DOMAIN Skipped(c)
        /\ c.ollama # "off" => Ollama \in BuiltIns(c) \cup DOMAIN Skipped(c)
        /\ BuiltIns(c) \cap DOMAIN Skipped(c) = {}
    BY <1>1, <1>2, NoneIsLost
  <2>. QED  BY <2>1, <2>2, <2>3
<1>3. ASSUME ServiceInv, phase = "failed"  PROVE OperatorsMistake
  <2>1. BuiltIns(c) = Usable(c)
    BY <1>1, <1>3, BuiltInsAreUsable
  <2>2. ASSUME Unbuildable(c)  PROVE OperatorsMistake
    BY <2>1, <2>2 DEF Unbuildable, UnknownConfirmed, UnknownPools, Providers, OperatorsMistake
  <2>. QED  BY <1>3, <2>2, Zenon DEF ServiceInv, OperatorsMistake
<1>4. ServiceInv => StartAccountsForAll
  BY <1>2, <1>3, Zenon DEF StartAccountsForAll
<1>. QED  BY <1>4, ServiceAlways, PTL

\* Each client is spoken for by one configured key, its own or a namesake's, no key
\* speaks for another client, and no client's key is the administrator's, for every
\* file of keys the service accepts.
THEOREM KeysAreKeptApart == Spec => []ClientsKeptApart
<1>. DEFINE file == deployment.clients
            Spoken == {raw \in DOMAIN file : resolve_client(file[raw]) # NoClient}
            Namesake(raw) == {other \in DOMAIN file : Stripped[other] = Stripped[raw]}
<1>1. ASSUME ServiceInv, Serving
      PROVE  /\ \A raw \in Spoken : resolve_client(file[raw]) = Stripped[raw]
             /\ \A raw \in DOMAIN file : \E one \in DOMAIN file :
                   Namesake(raw) \cap Spoken = {one}
             /\ \A bearer \in Secrets : resolve_admin(bearer) => Listing(bearer) = 401
  <2>1. /\ client_keys \in Parsed(file) /\ ~BadClients(file)
        /\ ~BadAdmin(deployment.admin, client_keys)
    BY <1>1 DEF ServiceInv
  <2>2. /\ DOMAIN client_keys = {Stripped[raw] : raw \in DOMAIN file}
        /\ \A id \in DOMAIN client_keys :
              \E raw \in DOMAIN file : Stripped[raw] = id /\ client_keys[id] = file[raw]
    BY <2>1 DEF Parsed
  <2>3. /\ \A raw \in DOMAIN file : Stripped[raw] # NoClient
        /\ \A raw, other \in DOMAIN file : file[raw] = file[other] => raw = other
    BY <2>1 DEF BadClients
  <2>4. ASSUME NEW raw \in DOMAIN file, NEW id \in DOMAIN client_keys,
               client_keys[id] = file[raw]
        PROVE  id = Stripped[raw]
    BY <2>2, <2>3, <2>4
  <2>5. ASSUME NEW raw \in DOMAIN file
        PROVE  raw \in Spoken <=> client_keys[Stripped[raw]] = file[raw]
    BY <2>2, <2>3, <2>4 DEF resolve_client
  <2>6. \A raw \in Spoken : resolve_client(file[raw]) = Stripped[raw]
    BY <2>4 DEF resolve_client
  <2>7. ASSUME NEW raw \in DOMAIN file
        PROVE  \E one \in DOMAIN file : Namesake(raw) \cap Spoken = {one}
    <3>1. PICK one \in DOMAIN file :
             Stripped[one] = Stripped[raw] /\ client_keys[Stripped[raw]] = file[one]
      BY <2>2
    <3>2. one \in Namesake(raw) /\ one \in Spoken
      BY <2>5, <3>1
    <3>3. ASSUME NEW other \in Namesake(raw) \cap Spoken  PROVE other = one
      BY <2>3, <2>5, <3>1
    <3>. HIDE DEF Namesake, Spoken
    <3>. QED  BY <3>2, <3>3
  <2>8. ASSUME NEW bearer \in Secrets, resolve_admin(bearer)
        PROVE  Listing(bearer) = 401
    <3>1. \A id \in DOMAIN client_keys : client_keys[id] # bearer
      BY <2>1, <2>8 DEF resolve_admin, BadAdmin
    <3>. QED  BY <3>1 DEF Listing, resolve_client
  <2>. QED  BY <2>6, <2>7, <2>8
<1>2. ServiceInv => ClientsKeptApart
  BY <1>1, Zenon DEF ClientsKeptApart
<1>. QED  BY <1>2, ServiceAlways, PTL

-----------------------------------------------------------------------------
(* The rest of the types *)

\* The tables, the form and the two lines of the page.
Looks ==
    /\ form \in BOOLEAN
    /\ tables \in {NoTables} \cup [mine : Nat, bearer : Secrets, turn : Nat]
    /\ detail \in {"empty", "counts", "named"}
    /\ stamp \in [says : {"none", "ok", "stale"}, mine : Nat]

LEMMA LooksKept ==
  ASSUME PageInv, Looks, [Next]_vars
  PROVE  Looks'
<1>1. ASSUME UNCHANGED <<form, tables, detail, stamp>>  PROVE Looks'
  BY <1>1 DEF Looks
<1>2. ASSUME SubmitUnsendable \/ ForgetKey  PROVE Looks'
  BY <1>2 DEF Looks, SubmitUnsendable, ForgetKey, signedOut
<1>. DEFINE Stamps == [says : {"none", "ok", "stale"}, mine : Nat]
<1>0. ASSUME NEW ok \in BOOLEAN, stamped(ok)  PROVE stamp' \in Stamps
  <2>1. session \in Nat
    BY DEF PageInv, Typed
  <2>. QED  BY <1>0, <2>1 DEF stamped
<1>3. ASSUME NEW r \in reads, HealthArrives(r) \/ ReadFails(r)  PROVE Looks'
  <2>1. stamp' \in Stamps
    BY <1>0, <1>3 DEF Looks, HealthArrives, ReadFails, Draws
  <2>. QED  BY <1>3, <2>1 DEF Looks, HealthArrives, ReadFails, Draws
<1>4. ASSUME NEW r \in reads, ListsRefused(r) \/ ListsUnusable(r)  PROVE Looks'
  <2>1. stamp' \in Stamps
    BY <1>0, <1>4 DEF ListsRefused, ListsUnusable, Draws
  <2>. QED  BY <1>4, <2>1 DEF Looks, ListsRefused, ListsUnusable, signedOut, Draws
<1>5. ASSUME NEW r \in reads, ListsDrawn(r)  PROVE Looks'
  <2>1. r.mine \in Nat /\ r.turn \in Nat /\ r.bearer \in Secrets
    BY <1>5 DEF PageInv, Typed, Attributed, Read, ListsDrawn
  <2>2. tables' \in [mine : Nat, bearer : Secrets, turn : Nat]
    BY <1>5, <2>1 DEF ListsDrawn, Shows
  <2>3. form' = FALSE /\ detail' = "named" /\ stamp' \in Stamps
    BY <1>0, <1>5 DEF ListsDrawn, Draws
  <2>. QED  BY <2>2, <2>3 DEF Looks
<1>6. ASSUME \/ UNCHANGED page_vars \/ Load \/ Poll
             \/ \E typed \in Secrets \cup {NoKey} : SubmitKey(typed)
             \/ \E r \in reads : ListsServed(r) \/ ListsSuperseded(r)
      PROVE  UNCHANGED <<form, tables, detail, stamp>>
  BY <1>6, Zenon DEF page_vars, Load, Poll, SubmitKey, ListsServed, ListsSuperseded
<1>. QED
  BY <1>1, <1>2, <1>3, <1>4, <1>5, <1>6, StepsOfThePage, Zenon

\* The process and the page hold what their variables are declared to hold, each
\* refresh with a number of its own.
THEOREM PageTypes == Spec => []PageTypeOK
<1>1. Init => Looks
  BY DEF Init, Looks
<1>2. PageInv /\ ServiceTypeOK /\ Looks => PageTypeOK
  <2>. SUFFICES ASSUME PageInv, ServiceTypeOK, Looks  PROVE PageTypeOK
    OBVIOUS
  <2>1. drawn \in 0..asked
    BY DEF PageInv, Typed
  <2>. QED  BY <2>1, Zenon DEF PageTypeOK, PageInv, Typed, Attributed, Looks
<1>. QED
  BY <1>1, <1>2, LooksKept, PageAlways, ServiceAlways, ServiceTypes, PTL DEF Spec
=============================================================================
