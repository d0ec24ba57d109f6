----------------------------- MODULE AnswerCache -----------------------------
(***************************************************************************)
(* The cache of validated answers (fair/embedded/cache.py, MemoryCache) as *)
(* the concurrent solves of one router use it: get when a solve begins,    *)
(* put when it ends, and whatever the others do in between.  Each call is  *)
(* one step of the event loop, hence one action.  The cache reads the wall *)
(* clock, which may be set back.                                           *)
(*                                                                         *)
(* A task stands for everything of a request and its profile that the key  *)
(* digests; the client is kept apart, since the key begins with it.        *)
(***************************************************************************)
EXTENDS OrderedPick

CONSTANTS
    Clients, Tasks, Solves, Providers,
    Prefixed,        \* client -> the clients whose id begins with its own and a colon
    SettingsTtl,     \* settings.cache_ttl_seconds
    Ttls,            \* values of a request's cache_ttl_seconds, 0 for None
    MaxEntries,      \* settings.cache_max_entries
    AdmittedUntil,   \* provider -> when its review, or its adapter's, stops admitting it
    NoKey, MaxClock

\* A request that may use the cache.  One that may not (cache_mode "bypass", no
\* deterministic contract, a cross-check, evidence...) has no key and touches nothing.
Requests == [client: Clients, task: Tasks, ttl: Ttls]
Modes    == {"default", "refresh"}
Keys     == Clients \X Tasks
\* An entry, and whose request it answered under which TTL (not in the code).
Entries  == [key: Keys, created_at: Nat, expires_at: Nat, provider: Providers,
             of: Requests]

ASSUME CacheAssumption ==
    /\ Prefixed \in [Clients -> SUBSET Clients] /\ \A c \in Clients : c \notin Prefixed[c]
    /\ SettingsTtl \in Nat \ {0} /\ Ttls \subseteq Nat
    /\ MaxEntries \in Nat \ {0} /\ MaxClock \in Nat
    /\ AdmittedUntil \in [Providers -> Nat] /\ NoKey \notin Keys

VARIABLES
    clock,
    stopped,   \* router.stopped
    entries,   \* _entries, the least recently used first
    solve,     \* the request each solve routes, having had no answer from the cache
    recent,    \* the key last put or hit (not in the code)
    hits       \* parity of the hits, which makes each of them a step (not in the code)

vars == <<clock, stopped, entries, solve, recent, hits>>

Idle == [phase |-> "idle"]
Routing(request) == [phase |-> "routing", request |-> request]

TypeOK ==
    /\ clock \in 0..MaxClock /\ stopped \in BOOLEAN
    /\ entries \in Seq(Entries) /\ Len(entries) <= MaxEntries
    /\ \A i, j \in DOMAIN entries : entries[i].key = entries[j].key => i = j
    /\ recent \in Keys \cup {NoKey}
    /\ solve \in [Solves -> {Idle} \cup {Routing(request) : request \in Requests}]
    /\ hits \in 0..1

-----------------------------------------------------------------------------
(* The ordered dictionary.  Operators named Bug_... are mutated forms of   *)
(* the definition that follows them: plausible slips, kept to show which   *)
(* property notices each one.                                              *)

Bug_KeyOf(request) == <<CHOOSE c \in Clients : TRUE, request.task>>
KeyOf(request) == <<request.client, request.task>>

Found(key)   == Picked(entries, {i \in DOMAIN entries : entries[i].key = key})
Without(key) == Picked(entries, {i \in DOMAIN entries : entries[i].key # key})

Bug_MovedToEnd(key) == entries
MovedToEnd(key) == Without(key) \o Found(key)

\* popitem(last=False) until the bound holds: one put adds at most one entry.
Bug_Trimmed(seq) == IF Len(seq) > MaxEntries + 1 THEN Tail(seq) ELSE seq
Trimmed(seq)     == IF Len(seq) > MaxEntries THEN Tail(seq) ELSE seq

Bug_Inserted(e) == Trimmed(Append(entries, e))
Inserted(e)     == Trimmed(Append(Without(e.key), e))

Least(m, n) == IF m <= n THEN m ELSE n

\* The time a request lets an answer live, the router's own at most.
Lifetime(request) == IF request.ttl = 0 THEN SettingsTtl ELSE Least(request.ttl, SettingsTtl)

Bug_Fresh(e, request) == e.created_at <= clock /\ clock < e.expires_at
Fresh(e, request) ==
    /\ e.created_at <= clock
    /\ clock < Least(e.expires_at, e.created_at + Lifetime(request))

Admitted(p) == clock < AdmittedUntil[p]

-----------------------------------------------------------------------------

Init ==
    /\ clock = 0 /\ stopped = FALSE
    /\ entries = <<>> /\ recent = NoKey /\ hits = 0
    /\ solve = [s \in Solves |-> Idle]

SetClock(t) == clock' = t /\ UNCHANGED <<stopped, entries, solve, recent, hits>>

SetStopped(value) == stopped' = value /\ UNCHANGED <<clock, entries, solve, recent, hits>>

Routes(s, request) == solve' = [solve EXCEPT ![s] = Routing(request)]

\* No key, no entry, or a stopped router: the solve goes on to the providers.
GetNothing(s, request) ==
    /\ solve[s] = Idle
    /\ stopped \/ Found(KeyOf(request)) = <<>>
    /\ Routes(s, request)
    /\ UNCHANGED <<clock, stopped, entries, recent, hits>>

Consulted(s, request) ==
    /\ solve[s] = Idle
    /\ ~stopped /\ Found(KeyOf(request)) # <<>>

\* Stale, to be refreshed, from a provider no longer admitted, or judged again
\* and found wanting: the entry is dropped.
GetDropped(s, request, mode, acceptable) ==
    /\ Consulted(s, request)
    /\ LET e == Head(Found(KeyOf(request)))
       IN mode = "refresh" \/ ~Fresh(e, request) \/ ~Admitted(e.provider) \/ ~acceptable
    /\ entries' = Without(KeyOf(request))
    /\ Routes(s, request)
    /\ UNCHANGED <<clock, stopped, recent, hits>>

\* The entry is fresh and admitted, but its provider's adapter is gone or its model
\* is no longer active: the solve goes on, and the entry stays where it was.
GetKept(s, request) ==
    /\ Consulted(s, request)
    /\ LET e == Head(Found(KeyOf(request))) IN Fresh(e, request) /\ Admitted(e.provider)
    /\ Routes(s, request)
    /\ UNCHANGED <<clock, stopped, entries, recent, hits>>

\* What get found in default mode; solve returns it without another await.
GetHit(s, request) ==
    LET e == Head(Found(KeyOf(request))) IN
    /\ Consulted(s, request)
    /\ Fresh(e, request) /\ Admitted(e.provider)
    /\ entries' = MovedToEnd(KeyOf(request))
    /\ recent' = KeyOf(request)
    /\ hits' = 1 - hits
    /\ UNCHANGED <<clock, stopped, solve>>

\* The solve found an accepted answer of its own, which put keeps.
put(s, p) ==
    LET request == solve[s].request IN
    /\ solve[s] # Idle /\ ~stopped
    /\ entries' = Inserted([key |-> KeyOf(request), created_at |-> clock,
                            expires_at |-> clock + Lifetime(request),
                            provider |-> p, of |-> request])
    /\ recent' = KeyOf(request)
    /\ solve' = [solve EXCEPT ![s] = Idle]
    /\ UNCHANGED <<clock, stopped, hits>>

\* The solve ended with nothing to keep: no accepted answer, or cancelled.
Return(s) ==
    /\ solve[s] # Idle
    /\ solve' = [solve EXCEPT ![s] = Idle]
    /\ UNCHANGED <<clock, stopped, entries, recent, hits>>

\* Every key that starts with the client's id and a colon is removed.
StartsWith(key, client) == key[1] = client \/ key[1] \in Prefixed[client]

clear(client) ==
    /\ entries' = Picked(entries, {i \in DOMAIN entries : ~StartsWith(entries[i].key, client)})
    /\ UNCHANGED <<clock, stopped, solve, recent, hits>>

Next ==
    \/ \E t \in 0..MaxClock : SetClock(t)
    \/ \E value \in BOOLEAN : SetStopped(value)
    \/ \E client \in Clients : clear(client)
    \/ \E s \in Solves :
         \/ Return(s)
         \/ \E p \in Providers : put(s, p)
         \/ \E request \in Requests :
              \/ GetNothing(s, request) \/ GetKept(s, request) \/ GetHit(s, request)
              \/ \E mode \in Modes, acceptable \in BOOLEAN :
                   GetDropped(s, request, mode, acceptable)

Spec == Init /\ [][Next]_vars

-----------------------------------------------------------------------------
(* Properties *)

\* A hit of some solve for this request serves this entry.
Serves(request, e) == \E s \in Solves : GetHit(s, request) /\ e = Head(Found(KeyOf(request)))

\* An answer served from the cache was given to the same client for the same
\* task: no digest, order of puts or eviction hands one client another's answer.
\* And it is younger than the request allows, than the request it was made for
\* allowed, and than the router allows, and was not made at a time still to come
\* (the clock may have been set back).
HitsAreOwnAndFresh ==
    [][\A request \in Requests, i \in DOMAIN entries :
         Serves(request, entries[i]) =>
             /\ entries[i].of.client = request.client
             /\ entries[i].of.task = request.task
             /\ clock - entries[i].created_at \in
                    0..(Least(Lifetime(request), Lifetime(entries[i].of)) - 1)]_vars

\* What a put evicts is not what was used last, as long as there is room for two:
\* a hit counts as a use.
LastUsedSurvives ==
    [][\A s \in Solves, p \in Providers :
         put(s, p) /\ MaxEntries > 1 /\ Found(recent) # <<>> /\ recent # recent' =>
             \E i \in DOMAIN entries' : entries'[i].key = recent]_vars

\* FAIR.clear_cache: "A different client is cleared only when named explicitly".
ClearsOnlyTheNamed ==
    [][\A client \in Clients : clear(client) =>
         \A i \in DOMAIN entries : entries[i].key[1] # client =>
             \E j \in DOMAIN entries' : entries'[j].key = entries[i].key]_vars
=============================================================================
