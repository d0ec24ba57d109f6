------------------------- MODULE AnswerCacheProofs -------------------------
(***************************************************************************)
(* Theorems about AnswerCache for every value of its constants: whose      *)
(* answers are served and how old they are, and why an answer goes.        *)
(***************************************************************************)
EXTENDS AnswerCache, CommonLemmas, SequenceTheorems

-----------------------------------------------------------------------------
(* The inductive invariant *)

\* An entry is kept under the key of the request it answered, for its lifetime.
Labelled(e) == e.key = KeyOf(e.of) /\ e.expires_at = e.created_at + Lifetime(e.of)

Dictionary(list) ==
    /\ list \in Seq(Entries)
    /\ \A i, j \in DOMAIN list : list[i].key = list[j].key => i = j
    /\ \A i \in DOMAIN list : Labelled(list[i])

\* What was used last is the last entry, if it is still there.
LastIs(list, key) ==
    (\E i \in DOMAIN list : list[i].key = key) => list[Len(list)].key = key

CacheInv ==
    /\ TypeOK
    /\ Dictionary(entries)
    /\ LastIs(entries, recent)

LEMMA CacheConstants ==
  /\ SettingsTtl \in Nat /\ Ttls \subseteq Nat
  /\ MaxEntries \in Nat /\ MaxEntries > 0
  /\ MaxClock \in Nat
  /\ \A request \in Requests : Lifetime(request) \in Nat /\ KeyOf(request) \in Keys
<1>1. /\ SettingsTtl \in Nat /\ Ttls \subseteq Nat
      /\ MaxEntries \in Nat /\ MaxEntries > 0 /\ MaxClock \in Nat
  BY CacheAssumption
<1>2. ASSUME NEW request \in Requests  PROVE Lifetime(request) \in Nat /\ KeyOf(request) \in Keys
  <2>1. request.ttl \in Ttls /\ request.client \in Clients /\ request.task \in Tasks
    BY DEF Requests
  <2>2. request.ttl \in Nat
    BY <1>1, <2>1
  <2>. QED  BY <1>1, <2>1, <2>2 DEF Lifetime, Least, KeyOf, Keys
<1>. QED  BY <1>1, <1>2

-----------------------------------------------------------------------------
(* The ordered dictionary *)

\* Deleting keys leaves a dictionary, and what was used last stays last.
LEMMA PickingKeeps ==
  ASSUME NEW list, Dictionary(list), NEW key, LastIs(list, key), NEW K \in SUBSET DOMAIN list
  PROVE  /\ Dictionary(Picked(list, K)) /\ Len(Picked(list, K)) <= Len(list)
         /\ LastIs(Picked(list, K), key)
<1>. DEFINE p == Picked(list, K)
<1>1. list \in Seq(Entries)
  BY DEF Dictionary
<1>2. /\ p \in Seq(Entries) /\ Len(p) <= Len(list)
      /\ \A n \in DOMAIN p : Nth(K, n) \in K /\ p[n] = list[Nth(K, n)]
  BY <1>1, PickedItems
<1>3. ASSUME NEW m \in DOMAIN p, NEW n \in DOMAIN p, p[m].key = p[n].key
      PROVE  m = n
  <2>1. Nth(K, m) = Nth(K, n)
    BY <1>2, <1>3 DEF Dictionary
  <2>2. m < n => Nth(K, m) < Nth(K, n)
    BY <1>1, PickedInOrder
  <2>3. n < m => Nth(K, n) < Nth(K, m)
    BY <1>1, PickedInOrder
  <2>. HIDE DEF p
  <2>4. m \in Nat /\ n \in Nat /\ Nth(K, m) \in Nat
    BY <1>1, <1>2
  <2>. QED  BY <2>1, <2>2, <2>3, <2>4
<1>4. \A n \in DOMAIN p : Labelled(p[n])
  BY <1>2 DEF Dictionary
<1>5. ASSUME NEW n \in DOMAIN p, p[n].key = key
      PROVE  p[Len(p)].key = key
  <2>. DEFINE i == Nth(K, n)
  <2>1. i \in K /\ p[n] = list[i]
    BY <1>2
  <2>. HIDE DEF p, i
  <2>2. list[Len(list)].key = key
    BY <1>5, <2>1 DEF LastIs
  <2>3. i \in DOMAIN list /\ Len(list) \in DOMAIN list
    BY <1>1, <2>1
  <2>4. i = Len(list)
    BY <1>5, <2>1, <2>2, <2>3 DEF Dictionary
  <2>5. Len(list) \in K
    BY <2>1, <2>4
  <2>6. p[Len(p)] = list[Len(list)]
    BY <1>1, <2>5, PickedLast DEF p
  <2>. QED  BY <2>2, <2>6
<1>. QED
  BY <1>2, <1>3, <1>4, <1>5, Zenon DEF Dictionary, LastIs

\* A new key goes to the end.
LEMMA AppendingKeeps ==
  ASSUME NEW list, Dictionary(list), NEW e \in Entries, Labelled(e),
         \A i \in DOMAIN list : list[i].key # e.key
  PROVE  LET longer == Append(list, e) IN
         /\ Dictionary(longer) /\ Len(longer) = Len(list) + 1
         /\ longer[Len(longer)] = e
         /\ \A i \in DOMAIN list : longer[i] = list[i]
<1>. DEFINE longer == Append(list, e)
<1>1. list \in Seq(Entries) /\ Len(list) \in Nat
  BY DEF Dictionary
<1>2. /\ longer \in Seq(Entries) /\ Len(longer) = Len(list) + 1
      /\ longer[Len(longer)] = e
      /\ \A i \in DOMAIN list : longer[i] = list[i]
      /\ \A i \in DOMAIN longer : i \in DOMAIN list \/ i = Len(longer)
  BY <1>1
<1>. HIDE DEF longer
<1>3. \A i, j \in DOMAIN longer : longer[i].key = longer[j].key => i = j
  BY <1>2 DEF Dictionary
<1>4. \A i \in DOMAIN longer : Labelled(longer[i])
  BY <1>2, Zenon DEF Dictionary
<1>. QED  BY <1>2, <1>3, <1>4 DEF Dictionary, longer

\* The bound costs the oldest entry, never the newest.
LEMMA TrimmingKeeps ==
  ASSUME NEW list, Dictionary(list), list # <<>>, Len(list) <= MaxEntries + 1
  PROVE  /\ Dictionary(Trimmed(list)) /\ Len(Trimmed(list)) \in 1..MaxEntries
         /\ Trimmed(list)[Len(Trimmed(list))] = list[Len(list)]
         /\ \A i \in DOMAIN list :
               i > 1 => \E j \in DOMAIN Trimmed(list) : Trimmed(list)[j] = list[i]
<1>1. list \in Seq(Entries) /\ Len(list) \in Nat /\ Len(list) > 0
  BY DEF Dictionary
<1>2. CASE Len(list) <= MaxEntries
  <2>1. Trimmed(list) = list
    BY <1>1, <1>2, CacheConstants DEF Trimmed
  <2>2. Len(list) \in 1..MaxEntries
    BY <1>1, <1>2, CacheConstants
  <2>. QED  BY <2>1, <2>2
<1>3. CASE Len(list) > MaxEntries
  <2>. DEFINE t == Tail(list)
  <2>1. Trimmed(list) = t
    BY <1>3 DEF Trimmed
  <2>2. /\ t \in Seq(Entries) /\ Len(t) = Len(list) - 1
        /\ \A i \in 1..(Len(list) - 1) : t[i] = list[i + 1]
    BY <1>1
  <2>. HIDE DEF t
  <2>3. DOMAIN t = 1..(Len(list) - 1) /\ \A i \in DOMAIN t : i + 1 \in DOMAIN list
    BY <1>1, <2>2
  <2>4. \A i \in DOMAIN t : t[i] = list[i + 1]
    BY <2>2, <2>3
  <2>5. \A i, j \in DOMAIN t : t[i].key = t[j].key => i = j
    <3>. SUFFICES ASSUME NEW i \in DOMAIN t, NEW j \in DOMAIN t, t[i].key = t[j].key
                  PROVE  i = j
      OBVIOUS
    <3>1. i + 1 = j + 1
      BY <2>3, <2>4 DEF Dictionary
    <3>2. i \in Int /\ j \in Int
      BY <2>3
    <3>. QED  BY <3>1, <3>2
  <2>6. \A i \in DOMAIN t : Labelled(t[i])
    <3>. SUFFICES ASSUME NEW i \in DOMAIN t  PROVE Labelled(t[i])
      OBVIOUS
    <3>1. Labelled(list[i + 1])
      BY <2>3 DEF Dictionary
    <3>. QED  BY <2>4, <3>1
  <2>7. Len(t) \in 1..MaxEntries
    BY <1>1, <1>3, <2>2, CacheConstants
  <2>8. t[Len(t)] = list[Len(list)]
    BY <1>1, <2>2, <2>7
  <2>9. \A i \in DOMAIN list : i > 1 => \E j \in DOMAIN t : t[j] = list[i]
    <3>. SUFFICES ASSUME NEW i \in DOMAIN list, i > 1  PROVE \E j \in DOMAIN t : t[j] = list[i]
      OBVIOUS
    <3>1. i - 1 \in DOMAIN t /\ i - 1 + 1 = i
      BY <1>1, <2>3
    <3>. QED  BY <2>4, <3>1
  <2>. QED  BY <2>1, <2>2, <2>5, <2>6, <2>7, <2>8, <2>9 DEF Dictionary
<1>. QED  BY <1>1, <1>2, <1>3, CacheConstants

\* What is found under a key is the one entry that has it.
LEMMA FoundIsTheEntry ==
  ASSUME CacheInv, NEW key
  PROVE  /\ Found(key) # <<>> <=> \E i \in DOMAIN entries : entries[i].key = key
         /\ Found(key) # <<>> =>
               \E i \in DOMAIN entries : entries[i].key = key /\ Found(key) = <<entries[i]>>
<1>. DEFINE K == {i \in DOMAIN entries : entries[i].key = key}
<1>1. entries \in Seq(Entries) /\ Dictionary(entries)
  BY DEF CacheInv, Dictionary
<1>2. K \in SUBSET DOMAIN entries /\ Found(key) = Picked(entries, K)
  BY DEF Found
<1>3. \A i, j \in K : i = j
  BY <1>1 DEF Dictionary
<1>4. \A i \in K : i \in DOMAIN entries /\ entries[i].key = key
  OBVIOUS
<1>5. \A i \in DOMAIN entries : entries[i].key = key => i \in K
  OBVIOUS
<1>. HIDE DEF K
<1>6. /\ Found(key) \in Seq(Entries) /\ Len(Found(key)) = Cardinality(K)
      /\ \A n \in DOMAIN Found(key) : Nth(K, n) \in K /\ Found(key)[n] = entries[Nth(K, n)]
      /\ \A i \in K : \E n \in DOMAIN Found(key) : Nth(K, n) = i /\ Found(key)[n] = entries[i]
  BY <1>1, <1>2, PickedItems
<1>7. ASSUME Found(key) # <<>>
      PROVE  \E i \in K : Found(key) = <<entries[i]>>
  <2>1. 1 \in DOMAIN Found(key)
    BY <1>6, <1>7
  <2>2. PICK i \in K : Found(key)[1] = entries[i]
    BY <1>6, <2>1
  <2>3. K = {i}
    BY <1>3, <2>2
  <2>4. Len(Found(key)) = 1
    <3>1. Cardinality({i}) = 1
      BY FS_Singleton, Zenon
    <3>. QED  BY <1>6, <2>3, <3>1
  <2>5. Found(key) = <<entries[i]>>
    BY <1>6, <2>2, <2>4
  <2>. QED  BY <2>2, <2>5
<1>8. ASSUME NEW i \in K  PROVE Found(key) # <<>>
  BY <1>6, <1>8
<1>. QED  BY <1>4, <1>5, <1>7, <1>8

LEMMA WithoutTheKey ==
  ASSUME CacheInv, NEW key
  PROVE  /\ Dictionary(Without(key)) /\ Len(Without(key)) <= Len(entries)
         /\ Len(Without(key)) \in Nat
         /\ LastIs(Without(key), recent)
         /\ \A n \in DOMAIN Without(key) : Without(key)[n].key # key
         /\ (\E i \in DOMAIN entries : entries[i].key = key) => Len(Without(key)) < Len(entries)
<1>. DEFINE K == {i \in DOMAIN entries : entries[i].key # key}
<1>1. K \in SUBSET DOMAIN entries /\ Without(key) = Picked(entries, K)
  BY DEF Without
<1>2. entries \in Seq(Entries) /\ Dictionary(entries) /\ LastIs(entries, recent)
  BY DEF CacheInv, Dictionary
<1>3. /\ \A i \in K : entries[i].key # key
      /\ \A i \in DOMAIN entries : entries[i].key = key => i \notin K
  OBVIOUS
<1>. HIDE DEF K
<1>4. /\ Dictionary(Without(key)) /\ LastIs(Without(key), recent)
      /\ Len(Without(key)) <= Len(entries)
  BY <1>1, <1>2, PickingKeeps
<1>5. /\ Len(Without(key)) = Cardinality(K) /\ Cardinality(K) \in Nat
      /\ \A n \in DOMAIN Without(key) : Nth(K, n) \in K /\ Without(key)[n] = entries[Nth(K, n)]
  BY <1>1, <1>2, PickedItems
<1>6. \A n \in DOMAIN Without(key) : Without(key)[n].key # key
  BY <1>3, <1>5
<1>7. ASSUME NEW i \in DOMAIN entries, entries[i].key = key
      PROVE  Len(Without(key)) < Len(entries)
  <2>1. DOMAIN entries = 1..Len(entries) /\ Len(entries) \in Nat
    BY <1>2
  <2>2. IsFiniteSet(DOMAIN entries) /\ Cardinality(DOMAIN entries) = Len(entries)
    <3>. DEFINE n == Len(entries)
    <3>1. n \in Nat
      BY <2>1
    <3>. HIDE DEF n
    <3>2. IsFiniteSet(1..n) /\ Cardinality(1..n) = n
      BY <3>1, FS_Interval
    <3>. QED  BY <2>1, <3>2, Zenon DEF n
  <2>3. K # DOMAIN entries
    BY <1>3, <1>7
  <2>4. Cardinality(K) <= Len(entries) /\ Cardinality(K) # Len(entries)
    BY <1>1, <2>2, <2>3, FS_Subset
  <2>. QED  BY <1>5, <2>1, <2>4
<1>. QED  BY <1>4, <1>5, <1>6, <1>7

-----------------------------------------------------------------------------
(* Every step keeps the invariant. *)

\* A dictionary of no more than MaxEntries entries is all that TypeOK asks of one.
LEMMA CacheInvParts ==
  CacheInv <=>
    /\ clock \in 0..MaxClock /\ stopped \in BOOLEAN
    /\ Dictionary(entries) /\ Len(entries) <= MaxEntries /\ LastIs(entries, recent)
    /\ recent \in Keys \cup {NoKey}
    /\ solve \in [Solves -> {Idle} \cup {Routing(request) : request \in Requests}]
    /\ hits \in 0..1
BY Zenon DEF CacheInv, TypeOK, Dictionary

\* Deleting some keys: what cleared, stale and refreshed entries come to.
LEMMA DeletingFits ==
  ASSUME CacheInv, NEW K \in SUBSET DOMAIN entries, entries' = Picked(entries, K),
         UNCHANGED recent
  PROVE  Dictionary(entries)' /\ Len(entries') <= MaxEntries /\ LastIs(entries, recent)'
<1>1. Dictionary(entries) /\ LastIs(entries, recent) /\ Len(entries) <= MaxEntries
      /\ entries \in Seq(Entries)
  BY DEF CacheInv, TypeOK
<1>. DEFINE p == Picked(entries, K)
<1>2. Dictionary(p) /\ LastIs(p, recent) /\ Len(p) <= Len(entries)
  BY <1>1, PickingKeeps
<1>. HIDE DEF p
<1>3. Len(p) <= MaxEntries
  <2>1. Len(p) \in Nat /\ Len(entries) \in Nat
    BY <1>1, <1>2 DEF Dictionary
  <2>. QED  BY <1>1, <1>2, <2>1, CacheConstants
<1>4. entries' = p /\ recent' = recent
  BY DEF p
<1>. QED  BY <1>2, <1>3, <1>4, Zenon DEF Dictionary, LastIs

\* A hit moves its entry to the end, where the last used belongs.
LEMMA HitFits ==
  ASSUME CacheInv, NEW s \in Solves, NEW request \in Requests, GetHit(s, request)
  PROVE  CacheInv'
<1>. DEFINE key == KeyOf(request)
<1>1. /\ Found(key) # <<>> /\ entries' = Without(key) \o Found(key) /\ recent' = key
      /\ hits' = 1 - hits /\ UNCHANGED <<clock, stopped, solve>>
  BY DEF GetHit, Consulted, MovedToEnd
<1>2. key \in Keys
  BY CacheConstants
<1>. HIDE DEF key
<1>3. PICK i \in DOMAIN entries : entries[i].key = key /\ Found(key) = <<entries[i]>>
  BY <1>1, FoundIsTheEntry
<1>. DEFINE rest == Without(key)  e == entries[i]
<1>4. /\ Dictionary(rest) /\ Len(rest) \in Nat /\ Len(rest) < Len(entries)
      /\ \A n \in DOMAIN rest : rest[n].key # key
  BY <1>3, WithoutTheKey
<1>5. e \in Entries /\ Labelled(e) /\ e.key = key /\ Len(entries) \in Nat /\ Len(entries) <= MaxEntries
  BY <1>3 DEF CacheInv, TypeOK, Dictionary
<1>6. entries' = Append(rest, e)
  <2>1. rest \in Seq(Entries)
    BY <1>4 DEF Dictionary
  <2>2. entries' = rest \o <<e>>
    BY <1>1, <1>3
  <2>. HIDE DEF rest, e
  <2>. QED  BY <1>5, <2>1, <2>2
<1>. HIDE DEF rest, e
<1>7. /\ Dictionary(Append(rest, e)) /\ Len(Append(rest, e)) = Len(rest) + 1
      /\ Append(rest, e)[Len(Append(rest, e))] = e
  BY <1>4, <1>5, AppendingKeeps
<1>8. /\ Dictionary(entries)' /\ Len(entries') <= MaxEntries /\ LastIs(entries, recent)'
  <2>1. Dictionary(entries)'
    BY <1>6, <1>7 DEF Dictionary
  <2>2. Len(entries') <= MaxEntries
    BY <1>4, <1>5, <1>6, <1>7, CacheConstants
  <2>3. entries'[Len(entries')].key = recent'
    BY <1>1, <1>5, <1>6, <1>7
  <2>. QED  BY <2>1, <2>2, <2>3 DEF LastIs
<1>9. /\ clock' \in 0..MaxClock /\ stopped' \in BOOLEAN /\ recent' \in Keys \cup {NoKey}
      /\ solve' \in [Solves -> {Idle} \cup {Routing(q) : q \in Requests}]
      /\ hits' \in 0..1
  BY <1>1, <1>2 DEF CacheInv, TypeOK
<1>. QED  BY <1>8, <1>9, CacheInvParts, Zenon DEF CacheInv, TypeOK, Dictionary

\* What a put does: the entries it keeps are a dictionary whose last is the new one,
\* and the one used last before is among them if there is room for two.
LEMMA PutDoes ==
  ASSUME CacheInv, NEW s \in Solves, NEW p \in Providers, put(s, p)
  PROVE  /\ Dictionary(entries)' /\ Len(entries') <= MaxEntries /\ LastIs(entries, recent)'
         /\ recent' \in Keys /\ solve[s] # Idle
         /\ MaxEntries > 1 /\ recent # recent' /\ (\E i \in DOMAIN entries : entries[i].key = recent)
              => \E i \in DOMAIN entries' : entries'[i].key = recent
<1>. DEFINE request == solve[s].request
            e == [key |-> KeyOf(request), created_at |-> clock,
                  expires_at |-> clock + Lifetime(request), provider |-> p, of |-> request]
            key == KeyOf(request)
            rest == Without(key)
            longer == Append(rest, e)
<1>1. entries' = Trimmed(Append(Without(e.key), e)) /\ recent' = key /\ solve[s] # Idle
  BY DEF put, Inserted
<1>2. request \in Requests
  BY <1>1 DEF CacheInv, TypeOK, Idle, Routing
<1>3. key \in Keys /\ Lifetime(request) \in Nat
  BY <1>2, CacheConstants
<1>4. clock \in Nat
  BY CacheConstants DEF CacheInv, TypeOK
<1>. HIDE DEF request
<1>5. e \in Entries /\ Labelled(e) /\ e.key = key
  BY <1>2, <1>3, <1>4 DEF Entries, Labelled
<1>. HIDE DEF e, key
<1>6. entries' = Trimmed(longer)
  BY <1>1, <1>5
<1>7. /\ Dictionary(rest) /\ Len(rest) \in Nat /\ Len(rest) <= Len(entries)
      /\ LastIs(rest, recent) /\ \A n \in DOMAIN rest : rest[n].key # key
  BY WithoutTheKey
<1>8. Len(entries) \in Nat /\ Len(entries) <= MaxEntries
  BY DEF CacheInv, TypeOK
<1>. HIDE DEF rest
<1>9. /\ Dictionary(longer) /\ Len(longer) = Len(rest) + 1 /\ longer[Len(longer)] = e
      /\ \A i \in DOMAIN rest : longer[i] = rest[i]
  BY <1>5, <1>7, AppendingKeeps
<1>. HIDE DEF longer
<1>10. longer # <<>> /\ Len(longer) <= MaxEntries + 1
  BY <1>7, <1>8, <1>9, CacheConstants
<1>11. /\ Dictionary(Trimmed(longer)) /\ Len(Trimmed(longer)) \in 1..MaxEntries
       /\ Trimmed(longer)[Len(Trimmed(longer))] = e
       /\ \A i \in DOMAIN longer :
             i > 1 => \E j \in DOMAIN Trimmed(longer) : Trimmed(longer)[j] = longer[i]
  BY <1>9, <1>10, TrimmingKeeps
<1>12. Dictionary(entries)' /\ Len(entries') <= MaxEntries /\ LastIs(entries, recent)'
  <2>1. Dictionary(entries)'
    BY <1>6, <1>11 DEF Dictionary
  <2>2. Len(entries') <= MaxEntries
    BY <1>6, <1>11, CacheConstants
  <2>3. entries'[Len(entries')].key = recent'
    BY <1>1, <1>5, <1>6, <1>11
  <2>. QED  BY <2>1, <2>2, <2>3 DEF LastIs
<1>13. ASSUME MaxEntries > 1, recent # recent', NEW k \in DOMAIN entries, entries[k].key = recent
       PROVE  \E i \in DOMAIN entries' : entries'[i].key = recent
  <2>1. \E n \in DOMAIN rest : rest[n].key = recent
    <3>. DEFINE K == {i \in DOMAIN entries : entries[i].key # key}
    <3>1. entries \in Seq(Entries) /\ K \in SUBSET DOMAIN entries /\ rest = Picked(entries, K)
      BY DEF CacheInv, TypeOK, Without, rest
    <3>2. k \in K
      BY <1>1, <1>13
    <3>. HIDE DEF K
    <3>3. \E n \in DOMAIN rest : rest[n] = entries[k]
      BY <3>1, <3>2, PickedItems
    <3>. QED  BY <1>13, <3>3
  <2>2. rest[Len(rest)].key = recent /\ Len(rest) \in DOMAIN rest /\ rest \in Seq(Entries)
    BY <1>7, <2>1 DEF LastIs, Dictionary
  <2>3. longer[Len(rest)].key = recent
    BY <1>9, <2>2
  <2>4. CASE Len(longer) <= MaxEntries
    <3>1. entries' = longer
      BY <1>6, <1>7, <1>9, <2>4, CacheConstants DEF Trimmed
    <3>2. Len(rest) \in DOMAIN longer
      BY <1>7, <1>9, <2>2 DEF Dictionary
    <3>. QED  BY <2>3, <3>1, <3>2
  <2>5. CASE Len(longer) > MaxEntries
    <3>1. Len(rest) > 1 /\ Len(rest) \in DOMAIN longer
      BY <1>7, <1>9, <1>13, <2>2, <2>5, CacheConstants DEF Dictionary
    <3>2. \E j \in DOMAIN entries' : entries'[j] = longer[Len(rest)]
      BY <1>6, <1>11, <3>1
    <3>. QED  BY <2>3, <3>2
  <2>. QED  BY <1>7, <1>9, <2>4, <2>5, CacheConstants
<1>. QED  BY <1>1, <1>3, <1>12, <1>13

LEMMA CacheInitially == Init => CacheInv
<1>. SUFFICES ASSUME Init  PROVE CacheInv
  OBVIOUS
<1>1. 0 \in 0..MaxClock /\ 0 <= MaxEntries
  BY CacheConstants
<1>2. entries \in Seq(Entries) /\ Len(entries) = 0 /\ DOMAIN entries = {}
  BY DEF Init
<1>3. solve \in [Solves -> {Idle} \cup {Routing(request) : request \in Requests}]
  BY Zenon DEF Init
<1>4. clock \in 0..MaxClock /\ hits \in 0..1
  BY <1>1 DEF Init
<1>5. stopped \in BOOLEAN /\ recent \in Keys \cup {NoKey}
  BY Zenon DEF Init
<1>6. Dictionary(entries) /\ LastIs(entries, recent)
  BY <1>2, Zenon DEF Dictionary, LastIs
<1>7. Len(entries) <= MaxEntries
  BY <1>1, <1>2
<1>8. TypeOK
  BY <1>2, <1>3, <1>4, <1>5, <1>7, Zenon DEF TypeOK
<1>. QED  BY <1>6, <1>8 DEF CacheInv

LEMMA CacheInductive ==
  ASSUME CacheInv, [Next]_vars
  PROVE  CacheInv'
<1>. DEFINE Held == /\ Dictionary(entries)' /\ Len(entries') <= MaxEntries
                    /\ LastIs(entries, recent)'
            Others == /\ clock' \in 0..MaxClock /\ stopped' \in BOOLEAN
                      /\ recent' \in Keys \cup {NoKey}
                      /\ solve' \in [Solves -> {Idle} \cup {Routing(q) : q \in Requests}]
                      /\ hits' \in 0..1
<1>1. Held /\ Others => CacheInv'
  BY Zenon DEF CacheInv, TypeOK, Dictionary
<1>2. UNCHANGED <<entries, recent>> => Held
  BY DEF CacheInv, TypeOK, Dictionary, LastIs
<1>3. ASSUME NEW t \in 0..MaxClock, SetClock(t)  PROVE Held /\ Others
  BY <1>2, <1>3 DEF SetClock, CacheInv, TypeOK
<1>4. ASSUME NEW value \in BOOLEAN, SetStopped(value)  PROVE Held /\ Others
  BY <1>2, <1>4 DEF SetStopped, CacheInv, TypeOK
<1>5. ASSUME NEW client \in Clients, clear(client)  PROVE Held /\ Others
  <2>. DEFINE K == {i \in DOMAIN entries : ~StartsWith(entries[i].key, client)}
  <2>1. K \in SUBSET DOMAIN entries /\ entries' = Picked(entries, K)
        /\ UNCHANGED <<clock, stopped, solve, recent, hits>>
    BY <1>5 DEF clear
  <2>. HIDE DEF K
  <2>2. Held
    BY <2>1, DeletingFits
  <2>. QED  BY <2>1, <2>2 DEF CacheInv, TypeOK
<1>6. ASSUME NEW s \in Solves, NEW request \in Requests, NEW mode, NEW acceptable,
             GetDropped(s, request, mode, acceptable)
      PROVE  Held /\ Others
  <2>. DEFINE K == {i \in DOMAIN entries : entries[i].key # KeyOf(request)}
  <2>1. /\ K \in SUBSET DOMAIN entries /\ entries' = Picked(entries, K)
        /\ Routes(s, request) /\ UNCHANGED <<clock, stopped, recent, hits>>
    BY <1>6 DEF GetDropped, Without
  <2>. HIDE DEF K
  <2>2. Held
    BY <2>1, DeletingFits
  <2>. QED  BY <2>1, <2>2 DEF CacheInv, TypeOK, Routes
<1>7. ASSUME NEW s \in Solves, NEW request \in Requests, GetNothing(s, request)
      PROVE  Held /\ Others
  BY <1>2, <1>7 DEF GetNothing, CacheInv, TypeOK, Routes
<1>8. ASSUME NEW s \in Solves, Return(s)  PROVE Held /\ Others
  BY <1>2, <1>8 DEF Return, CacheInv, TypeOK
<1>9. ASSUME NEW s \in Solves, NEW p \in Providers, put(s, p)  PROVE Held /\ Others
  <2>1. Held /\ recent' \in Keys
    BY <1>9, PutDoes
  <2>. QED  BY <1>9, <2>1 DEF put, CacheInv, TypeOK
<1>10. CASE UNCHANGED vars
  BY <1>2, <1>10 DEF vars, CacheInv, TypeOK
<1>11. ASSUME NEW s \in Solves, NEW request \in Requests, GetKept(s, request)
       PROVE  Held /\ Others
  BY <1>2, <1>11 DEF GetKept, CacheInv, TypeOK, Routes
<1>. HIDE DEF Held, Others
<1>. QED
  BY <1>1, <1>3, <1>4, <1>5, <1>6, <1>7, <1>8, <1>9, <1>10, <1>11, HitFits,
     Zenon DEF Next

-----------------------------------------------------------------------------
(* Theorems *)

\* The cache holds at most MaxEntries entries, no two under one key, whatever the
\* order of the calls and of the clock's settings.
THEOREM CacheTypes == Spec => []TypeOK
<1>1. CacheInv => TypeOK
  BY DEF CacheInv
<1>. QED  BY <1>1, CacheInitially, CacheInductive, PTL DEF Spec

\* A hit serves the same client's answer to the same task, made no longer ago
\* than the request, the entry's own request and the router allow.
THEOREM HitsServeTheirOwn == Spec => HitsAreOwnAndFresh
<1>. DEFINE Own(request, e) ==
        /\ e.of.client = request.client
        /\ e.of.task = request.task
        /\ clock - e.created_at \in 0..(Least(Lifetime(request), Lifetime(e.of)) - 1)
<1>1. ASSUME CacheInv
      PROVE  \A request \in Requests, i \in DOMAIN entries :
                Serves(request, entries[i]) => Own(request, entries[i])
  <2>. SUFFICES ASSUME NEW request \in Requests, NEW i \in DOMAIN entries,
                       Serves(request, entries[i])
                PROVE  Own(request, entries[i])
    OBVIOUS
  <2>. DEFINE key == KeyOf(request)  e == entries[i]
  <2>1. PICK s \in Solves : GetHit(s, request) /\ e = Head(Found(key))
    BY DEF Serves
  <2>2. Found(key) # <<>> /\ Fresh(e, request)
    BY <2>1 DEF GetHit, Consulted
  <2>3. e.key = key /\ Labelled(e) /\ e \in Entries
    <3>1. PICK k \in DOMAIN entries : entries[k].key = key /\ Found(key) = <<entries[k]>>
      BY <1>1, <2>2, FoundIsTheEntry
    <3>2. e = entries[k]
      BY <2>1, <3>1
    <3>. QED  BY <1>1, <3>1, <3>2 DEF CacheInv, Dictionary
  <2>. HIDE DEF e
  <2>4. e.of.client = request.client /\ e.of.task = request.task
    BY <2>3 DEF Labelled, KeyOf
  <2>5. /\ clock \in Nat /\ e.created_at \in Nat /\ Lifetime(request) \in Nat
        /\ Lifetime(e.of) \in Nat
    BY <1>1, <2>3, CacheConstants DEF CacheInv, TypeOK, Entries
  <2>6. clock - e.created_at \in 0..(Least(Lifetime(request), Lifetime(e.of)) - 1)
    <3>. DEFINE a == Lifetime(request)  b == Lifetime(e.of)
    <3>1. /\ a \in Nat /\ b \in Nat /\ e.created_at <= clock
          /\ clock < Least(e.created_at + b, e.created_at + a)
      BY <2>2, <2>3, <2>5 DEF Fresh, Labelled
    <3>. HIDE DEF a, b
    <3>2. clock - e.created_at \in 0..(Least(a, b) - 1)
      BY <2>5, <3>1 DEF Least
    <3>. QED  BY <3>2 DEF a, b
  <2>. QED  BY <2>4, <2>6 DEF e
<1>. QED
  BY <1>1, CacheInitially, CacheInductive, PTL DEF Spec, HitsAreOwnAndFresh, Own

\* A put never evicts what was used last, as long as there is room for two.
THEOREM UsedLastStays == Spec => LastUsedSurvives
<1>. DEFINE Survives ==
        \A s \in Solves, p \in Providers :
          put(s, p) /\ MaxEntries > 1 /\ Found(recent) # <<>> /\ recent # recent' =>
            \E i \in DOMAIN entries' : entries'[i].key = recent
<1>1. ASSUME CacheInv  PROVE Survives
  <2>. SUFFICES ASSUME NEW s \in Solves, NEW p \in Providers, put(s, p), MaxEntries > 1,
                       Found(recent) # <<>>, recent # recent'
                PROVE  \E i \in DOMAIN entries' : entries'[i].key = recent
    OBVIOUS
  <2>1. \E i \in DOMAIN entries : entries[i].key = recent
    BY <1>1, FoundIsTheEntry
  <2>. QED  BY <1>1, <2>1, PutDoes
<1>. QED
  BY <1>1, CacheInitially, CacheInductive, PTL DEF Spec, LastUsedSurvives

\* Why an entry goes: a clear of its client, or of one whose id its client's begins
\* with; a request of its own client's for the same task; or a put into a full cache.
Cleared(e) == \E client \in Clients : clear(client) /\ StartsWith(e.key, client)
Dropped(e) ==
    \E s \in Solves, request \in Requests, mode \in Modes, acceptable \in BOOLEAN :
        GetDropped(s, request, mode, acceptable) /\ e.key = KeyOf(request)
Evicted(e) ==
    Len(entries) = MaxEntries /\ \E s \in Solves, p \in Providers : put(s, p)

Kept(e) == \E j \in DOMAIN entries' : entries'[j].key = e.key

\* Deleting keys keeps the entries under the others.
LEMMA PickingSpares ==
  ASSUME CacheInv, NEW K \in SUBSET DOMAIN entries, entries' = Picked(entries, K), NEW i \in K
  PROVE  Kept(entries[i])
<1>1. entries \in Seq(Entries)
  BY DEF CacheInv, TypeOK
<1>2. \E j \in DOMAIN entries' : entries'[j] = entries[i]
  BY <1>1, PickedItems
<1>. QED  BY <1>2 DEF Kept

\* A hit moves its entry and keeps every key.
LEMMA HitSpares ==
  ASSUME CacheInv, NEW key, Found(key) # <<>>, entries' = Without(key) \o Found(key),
         NEW i \in DOMAIN entries
  PROVE  Kept(entries[i])
<1>. DEFINE K == {n \in DOMAIN entries : entries[n].key # key}
            rest == Without(key)
<1>1. entries \in Seq(Entries) /\ K \in SUBSET DOMAIN entries /\ rest = Picked(entries, K)
  BY DEF CacheInv, TypeOK, Without
<1>2. PICK k \in DOMAIN entries : entries[k].key = key /\ Found(key) = <<entries[k]>>
  BY FoundIsTheEntry
<1>3. Dictionary(rest)
  BY WithoutTheKey
<1>. DEFINE e == entries[k]
<1>4. e \in Entries /\ e.key = key
  BY <1>1, <1>2
<1>5. entries' = rest \o <<e>>
  BY <1>2
<1>6. entries[i].key # key => \E n \in DOMAIN rest : rest[n] = entries[i]
  <2>. SUFFICES ASSUME i \in K  PROVE \E n \in DOMAIN rest : rest[n] = entries[i]
    OBVIOUS
  <2>. HIDE DEF K, rest
  <2>. QED  BY <1>1, PickedItems
<1>. HIDE DEF rest, e
<1>7. rest \in Seq(Entries) /\ Len(rest) \in Nat
  BY <1>3 DEF Dictionary
<1>8. /\ Len(rest) + 1 \in DOMAIN (rest \o <<e>>) /\ (rest \o <<e>>)[Len(rest) + 1] = e
      /\ \A n \in DOMAIN rest : n \in DOMAIN (rest \o <<e>>) /\ (rest \o <<e>>)[n] = rest[n]
  BY <1>4, <1>7
<1>9. CASE entries[i].key = key
  BY <1>4, <1>5, <1>8, <1>9 DEF Kept
<1>10. CASE entries[i].key # key
  BY <1>5, <1>6, <1>8, <1>10 DEF Kept
<1>. QED  BY <1>9, <1>10

\* A put into a cache with room keeps every key.
LEMMA PutSpares ==
  ASSUME CacheInv, NEW s \in Solves, NEW p \in Providers, put(s, p),
         Len(entries) # MaxEntries, NEW i \in DOMAIN entries
  PROVE  Kept(entries[i])
<1>. DEFINE request == solve[s].request
            e == [key |-> KeyOf(request), created_at |-> clock,
                  expires_at |-> clock + Lifetime(request), provider |-> p, of |-> request]
            rest == Without(e.key)
            longer == Append(rest, e)
<1>1. entries' = Trimmed(longer)
  BY DEF put, Inserted
<1>2. /\ Dictionary(rest) /\ Len(rest) \in Nat /\ Len(rest) <= Len(entries)
  BY WithoutTheKey
<1>3. entries \in Seq(Entries) /\ Len(entries) \in Nat /\ Len(entries) <= MaxEntries
  BY DEF CacheInv, TypeOK
<1>4. entries[i].key # e.key => \E n \in DOMAIN rest : rest[n] = entries[i]
  <2>. DEFINE K == {k \in DOMAIN entries : entries[k].key # e.key}
  <2>. SUFFICES ASSUME i \in K  PROVE \E n \in DOMAIN rest : rest[n] = entries[i]
    OBVIOUS
  <2>1. K \in SUBSET DOMAIN entries /\ rest = Picked(entries, K)
    BY DEF Without
  <2>. HIDE DEF K, rest
  <2>. QED  BY <1>3, <2>1, PickedItems
<1>. HIDE DEF rest
<1>. DEFINE d == e
<1>5. longer = Append(rest, d) /\ d = e
  OBVIOUS
<1>. HIDE DEF e, d
<1>6. rest \in Seq(Entries)
  BY <1>2 DEF Dictionary
<1>7. /\ Len(longer) = Len(rest) + 1 /\ DOMAIN longer = 1..(Len(rest) + 1)
      /\ longer[Len(rest) + 1] = e /\ \A n \in DOMAIN rest : n \in DOMAIN longer /\ longer[n] = rest[n]
  BY <1>2, <1>6
<1>. HIDE DEF longer
<1>8. entries' = longer
  BY <1>1, <1>2, <1>3, <1>7, CacheConstants DEF Trimmed
<1>9. CASE entries[i].key = e.key
  BY <1>2, <1>7, <1>8, <1>9 DEF Kept
<1>10. CASE entries[i].key # e.key
  BY <1>4, <1>7, <1>8, <1>10 DEF Kept
<1>. QED  BY <1>9, <1>10

\* No answer goes but for one of these reasons.  So a client loses an answer to
\* another's doing only by the bound, or by a clear of an id that its own begins with.
THEOREM EntriesGoForAReason ==
  Spec => [][\A i \in DOMAIN entries :
               Kept(entries[i]) \/ Cleared(entries[i]) \/ Dropped(entries[i])
                                \/ Evicted(entries[i])]_vars
<1>. DEFINE Accounted(e) == Kept(e) \/ Cleared(e) \/ Dropped(e) \/ Evicted(e)
            All == \A i \in DOMAIN entries : Accounted(entries[i])
<1>1. ASSUME CacheInv, Next  PROVE All
  <2>. SUFFICES ASSUME NEW i \in DOMAIN entries  PROVE Accounted(entries[i])
    OBVIOUS
  <2>1. UNCHANGED entries => Accounted(entries[i])
    BY DEF Kept
  <2>2. ASSUME NEW t \in 0..MaxClock, SetClock(t)  PROVE Accounted(entries[i])
    BY <2>1, <2>2 DEF SetClock
  <2>3. ASSUME NEW value \in BOOLEAN, SetStopped(value)  PROVE Accounted(entries[i])
    BY <2>1, <2>3 DEF SetStopped
  <2>4. ASSUME NEW client \in Clients, clear(client)  PROVE Accounted(entries[i])
    <3>. DEFINE K == {k \in DOMAIN entries : ~StartsWith(entries[k].key, client)}
    <3>1. entries' = Picked(entries, K) /\ K \in SUBSET DOMAIN entries
      BY <2>4 DEF clear
    <3>2. CASE i \in K
      <4>. HIDE DEF K
      <4>. QED  BY <1>1, <3>1, <3>2, PickingSpares
    <3>3. CASE i \notin K
      BY <2>4, <3>3 DEF Cleared
    <3>. QED  BY <3>2, <3>3
  <2>5. ASSUME NEW s \in Solves, NEW request \in Requests, NEW mode \in Modes,
               NEW acceptable \in BOOLEAN, GetDropped(s, request, mode, acceptable)
        PROVE  Accounted(entries[i])
    <3>. DEFINE K == {k \in DOMAIN entries : entries[k].key # KeyOf(request)}
    <3>1. entries' = Picked(entries, K) /\ K \in SUBSET DOMAIN entries
      BY <2>5 DEF GetDropped, Without
    <3>2. CASE i \in K
      <4>. HIDE DEF K
      <4>. QED  BY <1>1, <3>1, <3>2, PickingSpares
    <3>3. CASE i \notin K
      BY <2>5, <3>3 DEF Dropped
    <3>. QED  BY <3>2, <3>3
  <2>6. ASSUME NEW s \in Solves, NEW request \in Requests,
               GetNothing(s, request) \/ GetKept(s, request)
        PROVE  Accounted(entries[i])
    BY <2>1, <2>6 DEF GetNothing, GetKept
  <2>7. ASSUME NEW s \in Solves, NEW request \in Requests, GetHit(s, request)
        PROVE  Accounted(entries[i])
    <3>1. entries' = Without(KeyOf(request)) \o Found(KeyOf(request))
      BY <2>7 DEF GetHit, MovedToEnd
    <3>2. Found(KeyOf(request)) # <<>>
      BY <2>7 DEF GetHit, Consulted
    <3>. QED  BY <1>1, <3>1, <3>2, HitSpares DEF Kept
  <2>8. ASSUME NEW s \in Solves, Return(s)  PROVE Accounted(entries[i])
    BY <2>1, <2>8 DEF Return
  <2>9. ASSUME NEW s \in Solves, NEW p \in Providers, put(s, p)  PROVE Accounted(entries[i])
    <3>1. Len(entries) # MaxEntries => Kept(entries[i])
      BY <1>1, <2>9, PutSpares
    <3>. QED  BY <2>9, <3>1, Zenon DEF Evicted
  <2>. HIDE DEF Accounted
  <2>. QED
    BY <1>1, <2>2, <2>3, <2>4, <2>5, <2>6, <2>7, <2>8, <2>9, Zenon DEF Next
<1>2. ASSUME CacheInv, [Next]_vars  PROVE [All]_vars
  BY <1>1, <1>2, Zenon
<1>. HIDE DEF All
<1>3. Spec => [][All]_vars
  BY <1>2, CacheInitially, CacheInductive, PTL DEF Spec
<1>. QED  BY <1>3 DEF All, Accounted
=============================================================================
