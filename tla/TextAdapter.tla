---------------------------- MODULE TextAdapter ----------------------------
(***************************************************************************)
(* One provider's adapter (fair/providers/live.py, class TextAdapter and   *)
(* its subclasses): the catalogue it caches, failed or not, the request    *)
(* sizes the provider refused, the allowance last reported, and the        *)
(* admission it checks again before each request it sends.  complete()     *)
(* runs for several attempts at once; an action is what one of them does   *)
(* between two awaits.  Gemini and Ollama have a complete of their own,    *)
(* and Mistral's puts a refusal to the administrators' API before it is    *)
(* raised.  How the attempt is then settled goes through                   *)
(* fair/security/adapter.py, CredentialedAdapter._call, and the except     *)
(* clauses of fair/embedded/router.py, _attempt.                           *)
(*                                                                         *)
(* The provider is the environment: what its catalogue lists and at what   *)
(* price changes at any time, and its replies are free choices.            *)
(***************************************************************************)
EXTENDS Admission, OrderedPick

CONSTANTS
    Calls,         \* completions that may be in flight at once
    Adapters,      \* the subclasses considered; "mistral" has an administrator's key
    Providers,     \* adapter -> the specifications, with their reviews, considered
    Changing,      \* those whose providers change what they list while it runs
    Asks,          \* adapter -> the sizes requests come in
    Context,       \* the model's context window
    CatalogTTL,    \* _catalog_ttl and _catalog_error_ttl
    SizeTTL,       \* _refused_size_ttl
    Slots,         \* _refused_size_slots
    CatalogFaults, \* how a read of the catalogue may fail
    Stated,        \* what headers that count requests say of the allowance
    NoError, NoModel, NoSize,   \* the code's None
    Start, MaxClock             \* when the adapter is built, and the bound on time

Phases  == {"idle", "listing", "checking", "asking", "streaming", "confirming"}
Waiting == Phases \ {"idle"}
Sent    == {"asking", "streaming"}       \* the completion itself has left
Allowances == {"silent", "left", "spent"}  \* a QuotaSnapshot: no count, some left, none
Sizes   == UNION {Asks[a] : a \in Adapters}   \* <<prompt estimate, output budget>>
Costs   == {"zero", "missing", "charged", "none"}

\* The errors an adapter raises and what each is a kind of (providers/base.py).
Parent ==
    [ModelUnavailable |-> "AuthenticationFailed", AccessDenied |-> "AuthenticationFailed",
     RequestTooLarge |-> "RequestNotSupported", RequestNotSupported |-> "MalformedResponse",
     StructuredOutputRejected |-> "MalformedResponse"]

Roots  == {"BillingViolation", "QuotaExceeded", "RateLimited", "AuthenticationFailed",
           "MalformedResponse", "ProviderUnavailable"}
Errors == Roots \cup DOMAIN Parent \cup {"AdmissionDenied"}

\* What a response that is not a completion turns into: by its status, by what its
\* body names, or by what goes wrong on the way.
StatusErrors ==
    {"AccessDenied", "AuthenticationFailed", "QuotaExceeded", "RateLimited", "RequestTooLarge",
     "ProviderUnavailable"}
BodyErrors == {"StructuredOutputRejected"}
ReadErrors == {"ProviderUnavailable", "MalformedResponse"}

ReplyErrors == StatusErrors \cup BodyErrors \cup ReadErrors

\* The provider is admitted before its adapter is built, and again by the adapter;
\* Ollama's is the one built for a local provider.
Registrable(a, s) ==
    admit_provider(s, Start) /\ TermsCurrent(s, Start) /\ s.local = (a = "ollama_local")

ASSUME AdapterAssumption ==
    /\ IsFiniteSet(Calls)
    /\ Adapters \subseteq DOMAIN Providers /\ \A a \in Adapters : Providers[a] \subseteq Specs
    /\ Adapters \subseteq {"groq", "mistral", "cloudflare_workers_ai", "openrouter_free",
                           "kilo_free", "google_gemini_api", "ollama_local"}
    /\ Stated \subseteq Allowances
    /\ Adapters \subseteq DOMAIN Asks /\ \A a \in Adapters : Asks[a] \subseteq Nat \X Nat
    /\ {CatalogTTL, SizeTTL, Slots, Context} \subseteq Nat \ {0}
    /\ NoError \notin Errors /\ NoModel \notin Models /\ NoSize \notin Nat \X Nat
    /\ CatalogFaults \subseteq ReplyErrors
    /\ Start \in Nat /\ MaxClock \in Nat
    /\ \A a \in Adapters : \A s \in Providers[a] : Registrable(a, s)

VARIABLES
    clock,          \* the process's clock
    adapter,        \* which subclass this is
    spec,           \* the provider's specification
    listed,         \* external: the models the provider now lists, at no price
    model_cache,    \* the models of the last catalogue read, and when it was asked for
    catalog_error,  \* the error of the last catalogue read that failed, and its time
    refused_sizes,  \* model -> the sizes the provider refused, and until when
    quota,          \* _quota: the allowance the last response of any call reported
    call,           \* the completions in flight
    settled,        \* not in the code: how the last step settled an attempt, if it did
    last_refused    \* not in the code: model -> size -> when the provider last refused it

vars == <<clock, adapter, spec, listed, model_cache, catalog_error, refused_sizes, quota,
          call, settled, last_refused>>

ZeroPriced(a)     == a \in {"openrouter_free", "kilo_free"}
ChecksAccount(a)  == a = "openrouter_free"
FallsBack(a)      == a = "kilo_free"
CountsRequests(a) == a \in {"groq", "mistral"}     \* _observe reads its headers
Confirms(a)       == a = "mistral"                 \* has an administrators' API
HasOwnComplete(a) == a \in {"google_gemini_api", "ollama_local"}

\* What the headers of a response may say
Observable == IF CountsRequests(adapter) THEN Stated ELSE {"silent"}

Idle ==
    [phase |-> "idle", model |-> NoModel, size |-> NoSize, now |-> 0, seen |-> {},
     observed |-> "silent", refusal |-> NoError, sent |-> FALSE, shown |-> 0,
     reported |-> "silent"]

CallType ==
    [phase: Phases, model: Models \cup {NoModel}, size: Sizes \cup {NoSize}, now: Nat,
     seen: SUBSET Models, observed: Allowances,
     refusal: Errors \cup {NoError},   \* what is being confirmed
     sent: BOOLEAN,         \* not in the code: the completion itself has left
     shown: Nat,            \* not in the code: when the catalogue that showed the model was asked
     reported: Allowances]  \* not in the code: what this completion's own response reported

Effects == {"none", "answered", "refunded", "charged", "benched", "blocked", "judged", "failed"}
Settlements ==
    [effect: Effects, sent: BOOLEAN, cost: Costs, price_age: Nat, quota: Allowances,
     reported: Allowances]

Entries == [size: Sizes, until: Nat]

TypeOK ==
    /\ clock \in Nat /\ adapter \in Adapters /\ spec \in Providers[adapter]
    /\ listed \subseteq Models
    /\ model_cache \in [held: BOOLEAN, models: SUBSET Models, at: Nat, began: Nat]
    /\ catalog_error \in [error: Errors \cup {NoError}, at: Nat]
    /\ refused_sizes \in [Models -> Seq(Entries)]
    /\ \A m \in Models : Len(refused_sizes[m]) <= Slots
    /\ quota \in Allowances
    /\ call \in [Calls -> CallType]
    /\ \A c \in Calls : call[c].phase = "idle" <=> call[c] = Idle
    /\ settled \in Settlements
    /\ last_refused \in [Models -> [Sizes -> Nat \cup {Never}]]

-----------------------------------------------------------------------------
(* How an attempt is settled.  A clause of a try statement catches an      *)
(* error that is of its class or of one below it, and the first that does  *)
(* wins.  Operators named Bug_... are slips of the definition after them.  *)

Kinds[e \in Errors] == IF e \in DOMAIN Parent THEN {e} \cup Kinds[Parent[e]] ELSE {e, "Exception"}

Caught(clauses, e) == clauses[Earliest({i \in DOMAIN clauses : clauses[i] \in Kinds[e]})]

Bug_GuardClauses ==
    <<"BillingViolation", "ModelUnavailable", "AccessDenied", "AuthenticationFailed",
      "QuotaExceeded", "RateLimited", "RequestNotSupported", "RequestTooLarge",
      "StructuredOutputRejected", "MalformedResponse", "ProviderUnavailable", "Exception">>
GuardClauses ==
    <<"BillingViolation", "ModelUnavailable", "AccessDenied", "AuthenticationFailed",
      "QuotaExceeded", "RateLimited", "RequestTooLarge", "RequestNotSupported",
      "StructuredOutputRejected", "MalformedResponse", "ProviderUnavailable", "Exception">>

\* CredentialedAdapter raises the class its clause names again, under a safe code.
Guarded(e) ==
    LET clause == Caught(GuardClauses, e)
    IN  IF clause = "Exception" THEN "ProviderUnavailable" ELSE clause

RouterClauses ==
    <<"BillingViolation", "QuotaExceeded", "RateLimited", "StructuredOutputRejected",
      "RequestTooLarge", "RequestNotSupported", "ModelUnavailable", "AccessDenied",
      "AuthenticationFailed", "Exception">>

\* What each clause of _attempt does to the provider and to the reservation.
EffectOf ==
    [BillingViolation |-> "blocked", QuotaExceeded |-> "benched", RateLimited |-> "benched",
     StructuredOutputRejected |-> "judged", RequestTooLarge |-> "charged",
     RequestNotSupported |-> "refunded", ModelUnavailable |-> "refunded",
     AccessDenied |-> "charged", AuthenticationFailed |-> "blocked", Exception |-> "failed"]

Ended(effect, sent) ==
    [effect |-> effect, sent |-> sent, cost |-> "none", price_age |-> 0,
     quota |-> "silent", reported |-> "silent"]

Nothing == Ended("none", FALSE)

Raise(c, e, sent) ==
    /\ settled' = Ended(EffectOf[Caught(RouterClauses, Guarded(e))], sent)
    /\ call' = [call EXCEPT ![c] = Idle]

-----------------------------------------------------------------------------
(* Operations of the adapter. *)

\* _admit, and what it raises when it refuses
Bug_Admitted == TRUE
Admitted == admit_provider(spec, clock) /\ TermsCurrent(spec, clock)

Refusal == IF admit_provider(spec, clock) THEN "AuthenticationFailed" ELSE "AdmissionDenied"

CacheFresh == model_cache.held /\ clock - model_cache.at < CatalogTTL
ErrorFresh == catalog_error.error # NoError /\ clock - catalog_error.at < CatalogTTL

Bug_Stored(r) == [held |-> TRUE, models |-> r.seen, at |-> clock, began |-> r.now]
Stored(r)     == [held |-> TRUE, models |-> r.seen, at |-> r.now, began |-> r.now]

AsLarge(size, refused) == refused[1] <= size[1] /\ refused[2] <= size[2]

Live(m) ==
    LET entries == refused_sizes[m]
    IN  Picked(entries, {i \in DOMAIN entries : clock < entries[i].until})

Bug_Covers(entries, size) ==
    \E i \in DOMAIN entries :
        entries[i].size[1] <= size[1] \/ entries[i].size[2] <= size[2]
Covers(entries, size) == \E i \in DOMAIN entries : AsLarge(size, entries[i].size)

\* What a newly refused size leaves of the older ones: those it does not cover.
Smaller(entries, size) == Picked(entries, {i \in DOMAIN entries : ~AsLarge(entries[i].size, size)})

LastOf(n, entries) ==
    IF Len(entries) <= n THEN entries ELSE SubSeq(entries, Len(entries) - n + 1, Len(entries))

Bug_Remembered(m, size) ==
    LastOf(Slots, Append(Smaller(Live(m), size), [size |-> size, until |-> clock + SizeTTL]))
Remembered(m, size) ==
    IF Covers(Live(m), size)
      THEN Live(m)
      ELSE LastOf(Slots, Append(Smaller(Live(m), size),
                                [size |-> size, until |-> clock + SizeTTL]))

\* Gemini's context window holds the prompt alone.
TooLarge(size) ==
    size[1] + (IF adapter = "google_gemini_api" THEN 0 ELSE size[2]) > Context

\* The completion leaves, unless the review has run out by now.
Send(c, r) ==
    \/ /\ ~Admitted
       /\ Raise(c, Refusal, FALSE)
    \/ /\ Admitted
       /\ call' = [call EXCEPT ![c] = [r EXCEPT !.phase = "asking", !.sent = TRUE]]
       /\ settled' = Nothing

\* A request that is not the completion leaves before it.
Inquire(c, r) ==
    \/ /\ ~Admitted
       /\ Raise(c, Refusal, FALSE)
    \/ /\ Admitted
       /\ call' = [call EXCEPT ![c] = [r EXCEPT !.phase = "checking"]]
       /\ settled' = Nothing

\* Mistral's complete holds a refusal for quota or rate until the administrators'
\* API has said whether the month is spent.
Surface(c, r, e) ==
    \/ /\ Confirms(adapter) /\ e \in {"QuotaExceeded", "RateLimited"}
       /\ call' = [call EXCEPT ![c] = [r EXCEPT !.phase = "confirming", !.refusal = e]]
       /\ settled' = Nothing
    \/ /\ ~(Confirms(adapter) /\ e \in {"QuotaExceeded", "RateLimited"})
       /\ Raise(c, e, r.sent)

\* From the last check of the size to the request's departure nothing is awaited.
Dispatch(c, r) ==
    \/ /\ TooLarge(r.size)
       /\ Raise(c, "RequestNotSupported", FALSE)
       /\ UNCHANGED refused_sizes
    \/ /\ ~TooLarge(r.size)
       /\ refused_sizes' = [refused_sizes EXCEPT ![r.model] = Live(r.model)]
       /\ \/ /\ Covers(Live(r.model), r.size)
             /\ Raise(c, "RequestNotSupported", FALSE)
          \/ /\ ~Covers(Live(r.model), r.size)
             /\ Send(c, r)

\* complete, once list_models has returned.  What does not fit is refused before
\* the account is asked about; Ollama first asks what the local model can hold.
Proceed(c, r, models) ==
    \/ /\ r.model \notin models
       /\ Raise(c, "ModelUnavailable", FALSE)
       /\ UNCHANGED refused_sizes
    \/ /\ r.model \in models /\ TooLarge(r.size) /\ ~HasOwnComplete(adapter)
       /\ Raise(c, "RequestNotSupported", FALSE)
       /\ UNCHANGED refused_sizes
    \/ /\ r.model \in models /\ ~ChecksAccount(adapter) /\ ~HasOwnComplete(adapter)
       /\ Dispatch(c, r)
    \/ /\ r.model \in models /\ ~TooLarge(r.size) /\ ChecksAccount(adapter)
       /\ Inquire(c, r)
       /\ UNCHANGED refused_sizes
    \/ /\ r.model \in models /\ HasOwnComplete(adapter)
       /\ Inquire(c, r)
       /\ UNCHANGED refused_sizes

-----------------------------------------------------------------------------
Init ==
    /\ clock = Start
    /\ adapter \in Adapters /\ spec \in Providers[adapter]
    /\ listed \in SUBSET Models
    /\ model_cache = [held |-> FALSE, models |-> {}, at |-> 0, began |-> 0]
    /\ catalog_error = [error |-> NoError, at |-> 0]
    /\ refused_sizes = [m \in Models |-> <<>>]
    /\ quota = "silent"
    /\ call = [c \in Calls |-> Idle]
    /\ settled = Nothing
    /\ last_refused = [m \in Models |-> [z \in Sizes |-> Never]]

\* complete and the part of list_models before its await
Complete(c, m, size) ==
    LET r == [Idle EXCEPT !.model = m, !.size = size, !.now = clock]
    IN  /\ call[c].phase = "idle" /\ adapter # "google_gemini_api"
        /\ m \in spec.active /\ size \in Asks[adapter]
        /\ UNCHANGED <<clock, adapter, spec, listed, model_cache, quota, last_refused>>
        /\ \/ /\ CacheFresh
              /\ Proceed(c, [r EXCEPT !.shown = model_cache.began], model_cache.models)
              /\ UNCHANGED catalog_error
           \/ /\ ~CacheFresh /\ ErrorFresh
              /\ Surface(c, r, catalog_error.error)
              /\ UNCHANGED <<catalog_error, refused_sizes>>
           \/ /\ ~CacheFresh /\ ~ErrorFresh /\ ~Admitted
              /\ Raise(c, Refusal, FALSE)
              /\ catalog_error' = [error |-> Refusal, at |-> clock]
              /\ UNCHANGED refused_sizes
           \/ /\ ~CacheFresh /\ ~ErrorFresh /\ Admitted
              /\ call' = [call EXCEPT ![c] = [r EXCEPT !.phase = "listing", !.seen = listed]]
              /\ settled' = Nothing
              /\ UNCHANGED <<catalog_error, refused_sizes>>

\* Gemini's complete lists nothing: it reads the metadata of the one model each time.
GeminiComplete(c, m, size) ==
    LET r == [Idle EXCEPT !.model = m, !.size = size, !.now = clock, !.shown = clock]
    IN  /\ call[c].phase = "idle" /\ adapter = "google_gemini_api"
        /\ m \in spec.active /\ size \in Asks[adapter]
        /\ \/ TooLarge(size) /\ Raise(c, "RequestNotSupported", FALSE)
           \/ ~TooLarge(size) /\ Inquire(c, r)
        /\ UNCHANGED <<clock, adapter, spec, listed, model_cache, catalog_error, refused_sizes,
                       quota, last_refused>>

\* The provider reads its catalogue for a request under way, later than it arrived.
Render(c) ==
    /\ call[c].phase = "listing" /\ call[c].seen # listed
    /\ call' = [call EXCEPT ![c].seen = listed]
    /\ settled' = Nothing
    /\ UNCHANGED <<clock, adapter, spec, listed, model_cache, catalog_error, refused_sizes,
                   quota, last_refused>>

\* The catalogue arrives: _fetch_models, the rest of list_models, and on.
Listed(c, q) ==
    /\ call[c].phase = "listing"
    /\ q \in Observable /\ quota' = q
    /\ model_cache' = Stored(call[c])
    /\ catalog_error' = [error |-> NoError, at |-> 0]
    /\ Proceed(c, [call[c] EXCEPT !.observed = q, !.shown = call[c].now, !.seen = {}],
               call[c].seen)
    /\ UNCHANGED <<clock, adapter, spec, listed, last_refused>>

\* What a refusal leaves in _quota.  Read from the headers, a report replaces it;
\* a refusal for want of payment reports nothing.
HeaderReports(e) ==
    CASE e = "RateLimited"   -> Observable \ {"spent"}
      [] e = "QuotaExceeded" -> {quota} \cup (Observable \cap {"spent"})
      [] OTHER               -> {quota}

\* Groq's body may name the one model the refusal is about.
GroqReports(e) == {quota} \cup HeaderReports(e)

\* A body that names the day's allowance as spent counts for the provider, unless
\* Gemini counts it for the model alone.
CloudflareReports(e) ==
    {quota} \cup HeaderReports(e) \cup (IF e = "QuotaExceeded" THEN {"spent"} ELSE {})
GeminiReports(e) ==
    {quota} \cup HeaderReports(e) \cup (IF e = "QuotaExceeded" THEN {"spent"} ELSE {})

Reports(e) ==
    CASE adapter = "groq"                  -> GroqReports(e)
      [] adapter = "cloudflare_workers_ai" -> CloudflareReports(e)
      [] adapter = "google_gemini_api"     -> GeminiReports(e)
      [] OTHER                             -> HeaderReports(e)

ListingFails(c, e) ==
    /\ call[c].phase = "listing"
    /\ quota' \in Reports(e)
    /\ catalog_error' = [error |-> e, at |-> call[c].now]
    /\ Surface(c, call[c], e)
    /\ UNCHANGED <<clock, adapter, spec, listed, model_cache, refused_sizes, last_refused>>

\* OpenRouter's answer about the account: it is a free one, or it is not.
Checked(c, q) ==
    /\ call[c].phase = "checking" /\ ChecksAccount(adapter)
    /\ q \in Observable /\ quota' = q
    /\ \/ Dispatch(c, [call[c] EXCEPT !.observed = q])
       \/ Raise(c, "AuthenticationFailed", FALSE) /\ UNCHANGED refused_sizes
    /\ UNCHANGED <<clock, adapter, spec, listed, model_cache, catalog_error, last_refused>>

\* Gemini's metadata: the model is as reviewed, with room for the answer, or not.
Described(c, q) ==
    /\ call[c].phase = "checking" /\ adapter = "google_gemini_api"
    /\ q \in Observable /\ quota' = q
    /\ \/ Raise(c, "ModelUnavailable", FALSE)
       \/ Raise(c, "RequestNotSupported", FALSE)
       \/ Send(c, [call[c] EXCEPT !.observed = q])
    /\ UNCHANGED <<clock, adapter, spec, listed, model_cache, catalog_error, refused_sizes,
                   last_refused>>

\* Ollama's description of the model: weights held locally, that complete, with
\* the context reviewed; only then is the size of the request looked at.
Shown(c, q) ==
    /\ call[c].phase = "checking" /\ adapter = "ollama_local"
    /\ q \in Observable /\ quota' = q
    /\ \/ Raise(c, "AuthenticationFailed", FALSE)
       \/ TooLarge(call[c].size) /\ Raise(c, "RequestNotSupported", FALSE)
       \/ ~TooLarge(call[c].size) /\ Send(c, [call[c] EXCEPT !.observed = q])
    /\ UNCHANGED <<clock, adapter, spec, listed, model_cache, catalog_error, refused_sizes,
                   last_refused>>

CheckFails(c, e) ==
    /\ call[c].phase = "checking"
    /\ quota' \in Reports(e)
    /\ Raise(c, e, FALSE)
    /\ UNCHANGED <<clock, adapter, spec, listed, model_cache, catalog_error, refused_sizes,
                   last_refused>>

\* The completion is refused, by status or within its stream.
Refused(c, e) ==
    /\ call[c].phase \in Sent
    /\ quota' \in Reports(e)
    /\ Surface(c, call[c], e)
    /\ IF e = "RequestTooLarge" /\ ~HasOwnComplete(adapter)
         THEN LET m == call[c].model IN
              /\ refused_sizes' = [refused_sizes EXCEPT ![m] = Remembered(m, call[c].size)]
              /\ last_refused' = [last_refused EXCEPT ![m][call[c].size] = clock]
         ELSE UNCHANGED <<refused_sizes, last_refused>>
    /\ UNCHANGED <<clock, adapter, spec, listed, model_cache, catalog_error>>

\* The headers of the completion: _quota and _OBSERVED, before the body is awaited.
Headers(c, q) ==
    /\ call[c].phase = "asking"
    /\ q \in Observable /\ quota' = q
    /\ call' = [call EXCEPT ![c].phase = "streaming", ![c].observed = q, ![c].reported = q]
    /\ settled' = Nothing
    /\ UNCHANGED <<clock, adapter, spec, listed, model_cache, catalog_error, refused_sizes,
                   last_refused>>

\* Kilo's substitute for a cost that was not stated: the catalogue, if it is fresh.
CatalogueProves(m) == FallsBack(adapter) /\ CacheFresh /\ m \in model_cache.models

Proved(m, cost) ==
    \/ ~ZeroPriced(adapter)
    \/ cost = "zero"
    \/ cost = "missing" /\ CatalogueProves(m)

Bug_response_quota(c) == quota
response_quota(c) == call[c].observed

\* The body ends: _after_completion, then the answer.
Completed(c, cost) ==
    /\ call[c].phase = "streaming" /\ ~HasOwnComplete(adapter)
    /\ IF Proved(call[c].model, cost)
         THEN /\ settled' = [Ended("answered", TRUE) EXCEPT
                    !.cost = IF ZeroPriced(adapter) THEN cost ELSE "none",
                    !.quota = response_quota(c), !.reported = call[c].reported,
                    !.price_age = IF ZeroPriced(adapter) /\ cost = "missing"
                                    THEN clock - model_cache.began ELSE 0]
              /\ call' = [call EXCEPT ![c] = Idle]
         ELSE Raise(c, "BillingViolation", TRUE)
    /\ UNCHANGED <<clock, adapter, spec, listed, model_cache, catalog_error, refused_sizes,
                   quota, last_refused>>

\* Gemini's candidates, or Ollama's message, are complete; neither states a cost.
Generated(c) ==
    /\ call[c].phase = "streaming" /\ adapter = "google_gemini_api"
    /\ settled' = [Ended("answered", TRUE) EXCEPT
          !.quota = response_quota(c), !.reported = call[c].reported]
    /\ call' = [call EXCEPT ![c] = Idle]
    /\ UNCHANGED <<clock, adapter, spec, listed, model_cache, catalog_error, refused_sizes,
                   quota, last_refused>>

Chatted(c) ==
    /\ call[c].phase = "streaming" /\ adapter = "ollama_local"
    /\ settled' = Ended("answered", TRUE)
    /\ call' = [call EXCEPT ![c] = Idle]
    /\ UNCHANGED <<clock, adapter, spec, listed, model_cache, catalog_error, refused_sizes,
                   quota, last_refused>>

\* The administrators' API says the month is spent, and when it ends; ...
MonthlyLimitReached(c) ==
    /\ call[c].phase = "confirming"
    /\ quota' = "spent"
    /\ Raise(c, "QuotaExceeded", call[c].sent)
    /\ UNCHANGED <<clock, adapter, spec, listed, model_cache, catalog_error, refused_sizes,
                   last_refused>>

\* ... or it does not say so, or cannot be read: the refusal stands as it was.
NotConfirmed(c) ==
    /\ call[c].phase = "confirming"
    /\ Raise(c, call[c].refusal, call[c].sent)
    /\ UNCHANGED <<clock, adapter, spec, listed, model_cache, catalog_error, refused_sizes,
                   quota, last_refused>>

\* The caller gives up, or the attempt's deadline passes: no failure of a
\* catalogue is held, since neither is an Exception inside the adapter.
GivenUp(c) ==
    /\ call[c].phase \in Waiting
    /\ \E effect \in {"charged", "failed"} : settled' = Ended(effect, call[c].sent)
    /\ call' = [call EXCEPT ![c] = Idle]
    /\ UNCHANGED <<clock, adapter, spec, listed, model_cache, catalog_error, refused_sizes,
                   quota, last_refused>>

\* External: the provider lists, withdraws or prices a model.
Relist(m) ==
    /\ adapter \in Changing
    /\ listed' = IF m \in listed THEN listed \ {m} ELSE listed \cup {m}
    /\ settled' = Nothing
    /\ UNCHANGED <<clock, adapter, spec, model_cache, catalog_error, refused_sizes, quota,
                   call, last_refused>>

Tick ==
    /\ clock < MaxClock
    /\ clock' = clock + 1
    /\ settled' = Nothing
    /\ UNCHANGED <<adapter, spec, listed, model_cache, catalog_error, refused_sizes, quota,
                   call, last_refused>>

Next ==
    \/ \E c \in Calls :
         \/ \E m \in Models, size \in Sizes : Complete(c, m, size) \/ GeminiComplete(c, m, size)
         \/ Render(c)
         \/ \E q \in Allowances :
              Listed(c, q) \/ Checked(c, q) \/ Described(c, q) \/ Shown(c, q) \/ Headers(c, q)
         \/ \E e \in CatalogFaults : ListingFails(c, e)
         \/ \E e \in ReplyErrors : CheckFails(c, e) \/ Refused(c, e)
         \/ \E cost \in {"zero", "missing", "charged"} : Completed(c, cost)
         \/ Generated(c) \/ Chatted(c)
         \/ MonthlyLimitReached(c) \/ NotConfirmed(c)
         \/ GivenUp(c)
    \/ \E m \in Models : Relist(m)
    \/ Tick

Spec == Init /\ [][Next]_vars

-----------------------------------------------------------------------------
\* Requests refused for their size come back in any order, and what is kept of
\* them is bounded; yet a size still held never makes way for one it covers: a
\* larger request refused late does not push the smaller out.
SmallestKept ==
    [][\A m \in Models : \A i \in DOMAIN Live(m) :
          \/ \E j \in DOMAIN refused_sizes'[m] : refused_sizes'[m][j] = Live(m)[i]
          \/ \E j \in DOMAIN refused_sizes'[m] :
                ~AsLarge(refused_sizes'[m][j].size, Live(m)[i].size)]_vars

\* A size is held back only while the provider itself refused one no larger in
\* either measure within the last hour: what is kept never grows beyond what was said.
HeldBackWithReason ==
    \A m \in Models, size \in Sizes :
        Covers(Live(m), size) =>
            \E z \in Sizes :
                /\ AsLarge(size, z)
                /\ last_refused[m][z] # Never
                /\ clock < last_refused[m][z] + SizeTTL

\* A completion under way was started from a catalogue asked for within the last
\* minute, whichever call asked; an answer that states no cost is taken only on
\* a catalogue as recent as that when the answer ends, and a charged one never.
PriceProvedRecently ==
    /\ \A c \in Calls : call[c].phase \in Sent => call[c].now - call[c].shown < CatalogTTL
    /\ ZeroPriced(adapter) /\ settled.effect = "answered" =>
           settled.cost \in {"zero", "missing"} /\ settled.price_age < CatalogTTL

\* What the governor is told of an attempt is what happened in it: the allowance
\* an answer carries is the one its own response reported, although another
\* call's headers arrived while its body was read; and a reservation is given
\* back only when no completion was sent for it, however the error travelled
\* from the adapter through the guard to the router.
SettledAsHappened ==
    /\ settled.effect = "answered" => settled.quota = settled.reported
    /\ settled.effect = "refunded" => ~settled.sent

Sends(c) ==
    /\ call'[c].phase \in {"listing", "checking", "asking"}
    /\ call'[c].phase # call[c].phase

\* No request to the provider's models leaves after the review's expiry as an
\* operator is shown it, however long the awaits before it took.
NothingSentAfterExpiry ==
    [][\A c \in Calls : Sends(c) /\ Reviewed(spec) => clock <= review_expiry(spec)]_vars

\* README.md:248, "A refused size is not sent twice. The adapter remembers, per
\* model and for an hour, the sizes of requests the provider refused": a request at
\* least as large as one refused within the hour is held back.
RefusedSizeHeldForAnHour ==
    \A m \in Models, size, z \in Sizes :
        /\ AsLarge(size, z)
        /\ last_refused[m][z] # Never /\ clock < last_refused[m][z] + SizeTTL
        => Covers(Live(m), size)
=============================================================================
