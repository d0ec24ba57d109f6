# A verification development for FAIR

FAIR routes text requests to the free tiers of several LLM providers. Its code is
in `fair/`; what can go wrong in it is seldom one function. It is several coroutines and
several processes counting against the same allowance, with windows that roll over,
reports that arrive late, and requests that may or may not have been sent. This project
models that core in TLA+, and with it how an answer comes to count as verified and the service
around it all; checks it with TLC on small instances; and proves with TLAPS, for every instance, every
invariant and every action property the runs check, but one that rests on recursive definitions: among
them that the ledger implements its abstract specification and exceeds a tier by nothing but the refunds it takes
from the wrong window, and by none while the resets on record move forward, that no answer is returned as
verified that is not, and that no request outlives its provider's review.

`PROJECT.json` holds the machine-readable side: the components, the runs, the
mutants each property must catch, the source lines each definition stands for, the
hazards and the theorems.

## The system

| Component | State it keeps | Operations | Modelled by |
|---|---|---|---|
| Shared quota ledger (`embedded/quota.py`, `SharedQuotaLedger`) | SQLite rows per pool: `used`, `exhausted`, `reset_at`; per pool and application: `used` | `reserve`, `release`, `observe`, `exhaust`, `remaining`, `available`, `report` | `SharedQuotaLedger`, `FreeTier`, `QuotaWindows` |
| Quota governor (`embedded/quota.py`, `MemoryQuotaGovernor`) | per provider a `QuotaState` (count, exhaustion, throttle, circuit, probe, failures), per model a bench, per key a count of per-minute strikes | `reserve_probe`, `release`, `success`, `failure`, `throttle`, `throttle_model`, `exhaust`, `exhaust_model`, `observe`, `observe_model`, `block_security`, `unblock_security` | `QuotaGovernor` |
| Routing loop (`embedded/router.py`) | per solve: routes tried, budgets, log; per router: `stopped`, `ledger_failures` | `solve`, `_attempt`, `_cross_check` | `EmbeddedRouter` (the loop), `QuotaGovernor` (`_attempt` against the governor) |
| Cross-check comparison (`quality/consensus.py`) | none | `independent`, `compare` | within `EmbeddedRouter` |
| Selector (`embedded/selector.py`) | none | `candidates_async` | a free choice of an untried route |
| Answer cache (`embedded/cache.py`) | LRU of validated answers | `get`, `put`, `clear` | `AnswerCache`; for `EmbeddedRouter` a hit is one action |
| Provider adapters (`providers/live.py`) | catalogue or its failure, refused sizes, last allowance | `list_models`, `complete` | `TextAdapter` |
| Credential guard (`security/adapter.py`) | none | re-raises an adapter's errors under safe codes | within `TextAdapter` |
| Admission policy (`governor/`), registry | none; read at registration, selection and dispatch | `admit_provider`, `qualified`, `review_expiry`, `register` | `Admission`; registration is an assumption of `TextAdapter` |
| Task profiler (`classifier/`), schemas (`schemas/`) | none | `profile_task`, `SolveRequest`'s validators | `Judgement` |
| Quality engine and validators (`quality/`) | none | `evaluate`, `acceptable`, `validate_claims`, `validate_function` | `Judgement`, `Evidence`, `BoundedCode`, `Verdicts` |
| Source reviews (`quality/source_reviews.py`) | read once at start | `evaluate`, `independent_count` | `Evidence`, `Origins`, `OriginCount` |
| FAIR module (`embedded/module.py`) | the registry, `skipped`, the router | building, `stopped`, `close`, `resume_provider`, `clear_cache` | `Service` (building); the rest with the part it reaches |
| HTTP service (`service/app.py`) | client keys, the administrator's key | start, the endpoints | `Service`; what a solve is answered with, `Judgement` |
| Status page (`service/status_page.py`) | in the browser: `key`, `session`, `asked`, `drawn`, and what is shown | `refresh`, the form, the timer | `StatusPage` |
| Performance registry (`embedded/performance.py`) | counters and two windows of outcomes | `record` | not modelled |
| Command-line tools | none | | not modelled |

How they interact: `solve` profiles the request, asks the cache, and then loops. Each turn
asks the selector for a route; the selector asks the governor, which asks the ledger
through a worker thread, whether the provider has quota left. `_attempt` reserves (governor,
then ledger), calls the adapter, and tells the governor how it ended; the governor in turn
writes exhaustions and reports to the ledger and gives back reservations whose request was not
sent. The adapter's errors reach `_attempt` through the credential guard, and which class they
still have there decides whether the reservation is given back, kept, or the provider blocked.
Solves are coroutines on one event loop, so they interleave at awaits only; processes share
nothing but the SQLite file and interleave at transactions.

What makes it hard:

* **Windows.** A reservation, its refund and a provider's report can all land in a window
  other than the one they are about.
* **Clock readings older than their transaction.** The caller reads the clock before the
  thread hop and SQLite's busy wait.
* **State read before an await and used after it.** A model benched, a provider throttled or
  the router stopped while a reservation or a call is under way.
* **One probe.** A half-open circuit admits one attempt; that attempt can be cancelled,
  refused or lost at any await, and replies to requests sent before the outage still arrive.
* **Checks before awaits.** Between the catalogue, the inquiry about an account or a model and
  the completion itself, the review can run out, a price can appear, other calls' headers arrive.
* **Many ways to be wrong.** An answer is judged by a schema, a contract, its citations, the
  evidence's reviews and the task's profile at once, and each has cases the others must not cover up.
* **A second interpreter.** Functions are judged by an interpreter of FAIR's own, whose loops carry
  `break`, `continue`, `return` and `else` by hand.
* **A recursive search.** Independent origins are counted by moving earlier choices along a chain of calls
  that share what they have seen.
* **Overlapping refreshes.** The page asks again while it waits; keys come and go meanwhile, and the
  process may be another one when the answer arrives.
* **Several budgets.** Outages, refusals, judged answers and verifiers are charged
  differently, and a disposition charged to none would make the loop endless.

What makes each part correct is stated as properties, listed under *Runs*. `PROJECT.json`
lists the hazards, each at its line, with the properties that would catch it.

## Modules

**`OrderedPick`** — the items of a list at some of its positions, in order: what a list
comprehension with a condition keeps, and what deleting keys leaves of an `OrderedDict`. A position is
found by its rank, not by recursion over the list, so that what is kept can be proved.

**`QuotaWindows`** — `next_window_reset`: an hourly window ends an hour after it began,
a daily one at the zone's midnight. A day is `Day` ticks, an hour `Hour`.

**`FreeTier`** — the abstract specification of a ledger: each pool knows *which* requests
its window holds, never grants beyond the limit or while blocked, and a report may neither
lift nor shorten a block. It has no counter and no stamp. It is as strong as the code can keep it: a
window may be judged by a clock up to `Lag` late, and a pool whose end has been moved back may `Mistake` an
earlier window's request for one of its own, and then hands out one more.

**`SharedQuotaLedger`** — the SQLite ledger. Each public method is one `BEGIN IMMEDIATE`
transaction and so one action, which starts with `_recover` (`Due`, `UsedAt`,
`ExhaustedAt`, ...). `Send` is the moment a reservation's request leaves, after which it
is never refunded. Each transaction carries a clock reading up to `MaxLag` ticks old. The
variables that are not in the database exist to compare the counters with the truth: `held`
(the reservation each attempt holds, and whether its window is still the current one),
`spent` (requests of the current window that were sent), `lastGrant`, `lost` (refunds of an earlier window
taken off the current one's count), `ended` (when the last window that was cleared ended) and
`regular` (whether the resets recorded for the pool have only moved forward).

**`QuotaGovernor`** — one provider as one process sees it. `state` is the code's
`QuotaState`; the functions `Recovered`, `Failed`, `Succeeded`, `Exhausted`, ... are the
code's methods as functions of it (with `window`, `sent`, `lost` and `regular` beside the code's fields, to
compare the count of a process without a ledger with what was sent), and an action is what an attempt of the router does between
two awaits: `reserve_probe`, the ledger's answer (`Granted`, `Refused`), and one action per
`except` clause of `_attempt`, each including the `finally` that gives the probe slot back
(`Finish`). `shared` says whether the process has a ledger; without one only the provider's call is
awaited.

**`EmbeddedRouter`** — `solve` and `_cross_check`. A solve's record holds the local variables
of the two coroutines; an action is what runs between two awaits. The route selected, how the
attempt ends (`Endings`, one per way `_attempt` can return) and what `compare` says are free
choices; `stopped` and the ledger's failures come from outside at any time.

**`AnswerCache`** — `get`, `put` and `clear` of the LRU, used by concurrent solves. A key is a
client and a task; `Prefixed` says which client ids begin with another's and a colon, for that is
what `clear` compares. Requests that bypass the cache or are not eligible touch nothing and are
left out. A lookup finds nothing (`GetNothing`), drops the entry (`GetDropped`), returns it (`GetHit`), or
leaves it where it is because its adapter is gone or its model inactive (`GetKept`). The clock may be set back. `recent` and `hits` are not in the code: the key used last,
and a bit that marks a step as a hit.

**`Admission`** — `admit_provider`, `qualified`, `review_expiry` and the age of the terms, as
operators of a specification and a time. The answers a review must contain whatever the time are
one Boolean, and the tests of a review age per model.

**`TextAdapter`** — one provider's adapter with several completions in flight. An action is what
one of them does between two awaits: `Complete` up to the catalogue's request, `Listed` from its
arrival to the next request, and so on; `Render` is the provider reading its catalogue for a
request under way, so what arrives may be older than its arrival and newer than its departure.
The seven adapters FAIR builds are told apart by what they do: price their catalogue, ask about the
account (OpenRouter), fall back on the catalogue for a cost (Kilo), count requests in their headers
(Groq, Mistral), name a spent day in an error's body (Cloudflare, Gemini), put a refusal to the
administrators' API (Mistral), or have a `complete` of their own (Gemini, Ollama). `Raise` follows an
error through the clauses of `CredentialedAdapter._call` and `_attempt` to what it does to the
provider and the reservation. Requests have a size, FAIR's estimate of the prompt and the budget.
`settled` and `last_refused` are not in the code: how the last step settled an attempt, and
when each size was last refused.

**`PythonSubset`** — Python as far as `python_function` contracts are answered in it: its
values and operators, and a machine of frames that runs a body with no limit of its own. It is written
from the language, not from the interpreter, and is what the interpreter is compared with.

**`BoundedCode`** — `code_validator.py`'s `run_case`: `expression`, `iterable`, `statements` and the
turns of a loop, each handing on the budget of steps that is left, with the limits on depth, turns and
the size of values; `loop_controls`, `same_value` and `validate_function`.

**`Evidence`** — `validate_claims` and the reviews' `evaluate`, beside what they stand for:
`ClaimsMeaning` says when a set of claims is witnessed by all the evidence. Where `evaluate` calls
`independent_count` it takes what that counts, `Corroboration` (**`Origins`**): the size of the largest set of
reviews without a common origin or text.

**`OriginCount`** — `independent_count`, the augmenting search for that number, call by call. `augment` calls
itself, so its calls are a stack of frames (`Call`): whom a call places, which of his texts are left to try
and the one it is asking for. A step is one turn of a call's loop (`Skip`, `Take`, `AskOwner`), one return
(`GiveUp`, `Assign`) or the next origin's turn (`NextOrigin`); `placing` says that the calls are returning `True`.

**`Judgement`** — one solve from the request to what comes back. `Arrive` refuses what
`SolveRequest` or the chat endpoint refuses; `Answer` judges what a model may have said
(`Evaluated`, `acceptable`, `Disposition`, `Returnable`), in the same step, as `_attempt` does
without an await between; `Tick` lets reviews expire; `Reply` is the HTTP answer. An answer is what
the parsers would find in the text: its form (bare, fenced, in prose, broken, blank), whether
its content is right and conforms to the schema, its citations, how it finished, and the claims or the
function it holds. The loop over routes and the cross-check are `EmbeddedRouter`'s. The
interpreter is a parameter (`FunctionFailure`): it is recursive, and nothing else in a verdict is.
**`Verdicts`** gives `Judgement` `BoundedCode` and says what that must do (`CodeAgrees`). It sets the count
beside the solve: neither waits for anything inside an answer's judgement, so they never overlap, and
`VerdictSpec` runs a count of some reviews or, with none to count, a solve.

**`Service`** — `FAIR.__init__` and `create_app_from_env` as functions of the settings: which
providers are registered, which are skipped and why (`Fate`, `Skipped`), when the process refuses to
start (`Unbuildable`, `BadClients`, `BadAdmin`), and whose bearer a handler takes. Nothing is served
before it is built, so building is one action, `Start`; `Close` and `Restart` end the process and
bring it back with other keys.

**`StatusPage`** — the page's script beside that process. `reads` holds the refreshes under way, an
action is what one of them does between two awaits (`HealthArrives`, then `ListsDrawn`, `ListsRefused`,
`ListsUnusable` or `ListsSuperseded`; `ReadFails` at either), and `ListsServed` is the process
answering earlier than the answer arrives. `tables`, `detail` and `stamp` are what the document shows;
the stamp carries the session in which it was set.
The page's two listings are asked for together and are one request.

**`...Proofs`** — the theorems of the module they are named after; `StatusPageProofs` has `Service`'s
and `TextAdapterProofs` has `Admission`'s too. **`CommonLemmas`** — what several of them rest on: when a
window ends, and what `OrderedPick` keeps. **`MC...`** modules name model values, the small functions a
cfg cannot write, and the symmetry sets.

Operators named `Bug_...` sit before the definition they are a slip of. No specification uses
them; substituting one for its definition must break the property `PROJECT.json` pairs it with.

### Abstractions and assumptions

* One provider specification per pool. The schema permits two providers with one pool and different
  limits; no shipped configuration has that.
* The wall clock does not go back. Daylight saving is left out.
* A request sent after its window rolled over counts in the window it was reserved in: that is
  FAIR's own accounting, and a provider may count it in the next.
* A probe token is the attempt that claimed it, since an attempt claims at most one.
* With a ledger the governor's local count decides nothing, so it is not tracked.
* Strikes saturate at three: three and more hold alike.
* An aggregate of several outcomes that differ only in their logged wording is one ending.
* A cancelled solve's local variables are dropped: nothing reads them afterwards.
* Plain requests are not among `RouterSolve`'s kinds: the two kinds there cover their paths.
* `output_budget` is folded into the size and the context window; Mistral's two administrative
  reads, with nothing between them, are one; a Mistral without an administrator's key behaves like
  the base adapter.
* In `Judgement` reading a text is what it found, not how: the JSON, arithmetic and citation parsers and
  Python's grammar are not modelled, and the patterns in a task's wording are the kinds of words it holds.
* `BoundedCode` leaves out chained comparisons, the builtins beside `len` and `range`, unary signs and
  augmented assignment; lists hold integers, and only ever values the limits admit.
* A server-wide source policy is left out: nothing in `fair/` passes one.
* Two keys that compare equal as strings are one key; the constant-time comparison is that comparison.
* A solve never sees another solve's record; it sees `stopped` and `ledger_failures` only, which
  change by themselves at any step. One solve therefore meets every interleaving that matters.

## Runs

Every run checks deadlock but two, whose systems really stop: in `Judgement` a solve that
returned or a count that has ended; in `StatusPage` a process that refused to start. In the
others `Tick` stops at `MaxClock`, and what still moves then is the recovery reads, stops and
resumptions of the operator.

| Run | Question | Properties |
|---|---|---|
| `LedgerDaily` | one daily pool of two requests, three attempts, two applications, two windows, clock readings a tick old, reports that move the reset either way: can the processes together exceed the tier, or lose a grant, other than by a refund taken from the wrong window, and does that happen while resets only move forward? Does the ledger implement `FreeTier`? | `CountCoversGrants` `WindowsInOrder` `WithinTier` `ImplementsFreeTier` |
| `LedgerLate` | a limited hourly pool beside an unlimited one, clock readings one tick old, providers that move a reset earlier: do blocks last as long as recorded and end? | `TypeOK` `BlockNeverShortened` `BlocksEnd` |
| `LedgerReportedEarlier` | *violated:* with a provider that moves its reset earlier, is every refund taken from its own window? | `RefundsInOwnWindow` |
| `Governor` | two attempts on a daily limit of two, with a ledger (an await inside each reservation and report) and without, reports and refusals whose reset lies before or after the one on record: local counting, the circuit, the probe slot and its lease, the benches | `TypeOK` `CircuitConsistent` `LocalWithinTier` `ProbeSlotReturns` `OnlyOwnerCloses` `BenchesNeverShortened` `DispatchHonoursBench` |
| `RouterSolve` | a solve that requires corroboration or takes unverified answers, four routes over providers, models and groups, a ledger that fails once, a stop at any time: do its reason, its status, its account of the cross-check and its log agree? | `CorroboratedWhenRequired` `BudgetsHold` `ReasonFitsLog` `StopWithholdsAnswers` `SolvesEnd` |
| `CacheHits` | two solves, three clients, two entries, two lifetimes, a review that runs out: whose answer is a hit, and how old? | `TypeOK` `HitsAreOwnAndFresh` `LastUsedSurvives` |
| `CacheClears` | *violated:* is only the named client cleared? | `ClearsOnlyTheNamed` |
| `AdapterServes` | two completions at once on each of the seven adapters | `HeldBackWithReason` `PriceProvedRecently` `SettledAsHappened` `SmallestKept` `NothingSentAfterExpiry` |
| `RefusedForgotten` | *violated:* is a refused size held back for its hour? | `RefusedSizeHeldForAnHour` |
| `Judgement` | two thousand requests, each answered up to twice in every way a model might while reviews expire: does anything come back as verified that is not? Do the claims checker and the interpreter mean what they should? And on their own the counts of origins: do they end, with the largest set of reviews that share nothing? | `JudgementTypeOK` `AcceptedPassedAll` `ClaimsWeighed` `CodeAgrees` `CountIsCorroboration` `CountEnds` |
| `StatusPage` | the process started with 68 thousand configurations, two of which are watched through the page across restarts, with two refreshes at once: does it start with all it may use, whose key speaks for whom, what does the page show and to whom, and is every key submitted answered? | `PageTypeOK` `StartAccountsForAll` `ClientsKeptApart` `DetailUnderKey` `ScreenForward` `OnlyRefusedKeySignsOut` `SubmitAnswered` |
| `StatusForgotten` | *violated:* does the page show only counts once it has no key? | `CountsOnlyWithoutKey` |

Why the bounds are enough. Ledger: a window and its successor fit in `MaxClock`, two
attempts fill the tier and a third contends for it or holds a stale reservation of the window
before; reported resets lie before and after midnight, and readings a tick old fall on either side of it. Governor: two attempts are an owner of the probe and an outsider, and the clock passes a
cooldown, a lease and a bench. Router: with two judged answers, one tolerated outage and
two verifiers each budget can run out in either order, and four routes include one that is
independent of another in everything and pairs alike in just one of provider and group.
Cache: two entries and three keys make every insertion evict, and the clock passes both
lifetimes in either direction. Adapter: two completions are one whose response arrives and one
under way; the clock passes the catalogue's lifetime, a refusal's hour and the review's end; three
sizes are two of which neither covers the other and one both cover, against a single slot. The sizes
are tried on the adapter that keeps nothing else (Cloudflare), and only the two adapters that
price their catalogue have one that changes (`Changing`).
The types of the routing loop and of the adapters are proved and not checked again by a run.
Origins: a chain of three origins that all have to move for the fourth is longer than any a greedy pairing,
or a search one call deep, gets right, and three origins with three texts share them in every way.
Judgement: four texts agree, disagree and state nothing about the facts; a dossier of three sources under
seven reviews has origins and texts in common in every combination that makes the greedy matching move an
earlier choice; the first answer may fail and the second be taken after a review expired. The 2016
functions nest a loop's `break`, `continue`, `return` and `else` in another's and in an `if`; each
limit is met by some of them, and some are right, wrong, unbound, without a return or of the wrong type.
Page: two refreshes overlap, and four in all, over three sessions, are enough for each to be answered
under another key, by another process, in either order, or not at all. The configurations are every
combination of settings with one file of keys, and every file of keys with one setting.

### Fairness

The ledger's and the governor's `Fairness` says time passes and a pool (a provider) is looked at
again: every solve's selection reads every provider's availability, and that read recovers.
No attempt is assumed to return: `ProbeSlotReturns` holds although the owner of the probe may
hang. The router's says each await of a solve ends: an attempt has a deadline
(`asyncio.timeout`), the ledger a busy timeout, and nothing else is awaited. The page's says each
refresh moves on: every read is given `AbortSignal.timeout`. Nothing is asked of the user, of the timer
or of the process, which may be gone. The count's says only that it runs: nothing in it waits.
Of a solve's judgement no fairness is assumed and no liveness stated.

## What is proved

Each theorem holds for every value of the constants that meets the modules' own assumptions: any number of
pools, applications, attempts, solves, routes, clients, completions, keys and refreshes, any limits,
lifetimes and reviews. Only `AcceptedIsRight` assumes more, and its table says what. Nearly every invariant the runs check
is too weak to be inductive; the strengthenings are named below, and every one follows from the code's
own discipline, not from the bounds.

### The ledger (`SharedQuotaLedgerProofs`)

| Theorem | States |
|---|---|
| `TypeCorrect` | `Spec => []TypeOK` |
| `CountNeverShort` | `Spec => []CountCoversGrants` |
| `TierNeverExceeded` | `Spec => []WithinTier` |
| `NeverStranded` | `Spec => []ExhaustedHasReset` |
| `BlocksHold` | `Spec => BlockNeverShortened` |
| `GrantsStayNear` | `Spec => []GrantsNearReset` |
| `WindowsKeepOrder` | `Spec => []WindowsInOrder` |
| `RefundsKeepToWindow` | what `RefundsInOwnWindow` says, of every limited pool whose recorded resets moved forward |
| `LedgerImplementsTier` | `Spec => ImplementsFreeTier` |
| `FreeTierIsKept` | `ImplementsFreeTier => []WithinTier` |
| `FreeTierHoldsBlocks` | `[]TypeOK /\ ImplementsFreeTier => BlockNeverShortened` |

None of them assumes anything of the clocks or of what providers report. A refund checks only that the
pool's reset *equals* the reservation's stamp, so it can be taken from the wrong window when two windows of a
pool carry one reset, and `LedgerReportedEarlier` shows how a report that moves the reset earlier brings that
about. The theorems say what that costs, and that nothing else does it:

* `CountCoversGrants` and the first part of `WithinTier` hold always, with one request of slack for each such
  refund (`lost`). The invariant is `CoverInv`: a grant is made under the limit the count covers, and a report,
  a send or a refund of the window's own never raises what was granted.
* `lost` stays 0 while a pool is `regular`, that is, as long as every reset recorded for it lay after the
  last window's end and not before the reset it replaced. By `StampsInOrder` a live stamp is then at most the
  pool's reset, and a stale one at most the end of the last window, which the reset lies beyond. Two things end
  it: a report that moves a reset earlier, and a reading from before a boundary that opens a window once
  another process has cleared the one that ended there, for both windows then end at that boundary.
  `IInv` is `CoverInv` with `StampsInOrder` and `NoneLost`. Stamps are compared for
  pools that have a limit, since without one a window has no reset of its own.

For the applications' shares `SharesInv` adds `SharesWithinCount`: the requests attributed to applications
are no more than the count and what was lost, and each application's live reservations no more than its share;
sums are counted as sets of attributed requests (`SharesOf`), so no fold has to be reasoned about. `GrantsInv`
says the last grant is past, and before the reset or after it by less than `MaxLag` (`GrantsNearReset`): what
a late clock can wipe is less than its age. `BlockInv`, for the blocks, is `TypeOK` with `ExhaustedHasReset`.

The refinement maps each pool to the set of its live grants, its recorded reset, its block, and whether it is
`regular`; one lemma per operation shows its step to be a step of `FreeTier` or a stutter, under `IInv`; a
refund of an earlier window is its `Mistake`. `FreeTierIsKept` and `FreeTierHoldsBlocks` say that the abstract
specification is worth implementing: they use none of the ledger's operations, only the steps `FreeTier`
allows, the first by `PromiseInv`, the tier's bound itself.

### The governor (`QuotaGovernorProofs`)

| Theorem | States |
|---|---|
| `GovernorTypes` | `Spec => []TypeOK` |
| `CircuitIsConsistent` | `Spec => []CircuitConsistent` |
| `OwnerCloses` | `Spec => OnlyOwnerCloses` |
| `DispatchHonours` | `Spec => DispatchHonoursBench` |
| `BenchesHold` | `Spec => BenchesNeverShortened` |
| `LocalCounterCovers` | `Spec => []LocalWithinTier` |

`GovInv` is the types with `Sound`: an exhausted provider has a reset, a closed circuit fewer failures
than open it, and the owner of a half-open slot is an attempt in flight (`OwnerInFlight`). The last is
what makes the circuit's consistency inductive: each `except` clause ends in the `finally` that gives the
slot back, so an attempt that is over owns nothing. The proof splits a step into what it does to the
provider's state, a composition of `Recovered`, `Failed`, `Succeeded` and the rest each with its own lemma,
and what it does to the attempt.
`LocalInv`, for a process without a ledger, says the requests sent and those still out that were counted in this
window are at most the count, but for the refunds of an earlier window taken off it (`Covers`), and tells a
call of this window from an older one by the reset it was counted under (`CallTimed`), just as `release` does.
As in the ledger, that order of windows holds, and no refund goes astray, while the reset on record only moved
forward (`regular`); a first report (`quota.py:872-877`) or a refusal may move it earlier, and both do in the run.
`BenchesNeverShortened` needs no such case. What a response reports never brings a known exhaustion's reset
forward; the property says that another refusal does, since `exhaust` takes the latest one's reset, or FAIR's own
guess (`quota.py:909-912`), and that no step ends the exhaustion before the reset then on record.

### The routing loop (`EmbeddedRouterProofs`)

| Theorem | States |
|---|---|
| `RouterTypes` | `Spec => []TypeOK` |
| `Corroboration` | `Spec => []CorroboratedWhenRequired` |
| `BudgetsAreHeld` | `Spec => []BudgetsHold` |
| `ReasonsFit` | `Spec => []ReasonFitsLog` |
| `StopWithholds` | `Spec => StopWithholdsAnswers` |

`ReasonFitsLog` is about the reason, the status and the account of the cross-check together; a step may leave the
search for a reason only as the cross-check and the log stand (`MayLeave`).
`SolveInv` says phase by phase what is true of a solve's local variables. `LogKept` ties the counters
to the log: the answered and unanswered primary entries are as many as the counters say, the verifiers' no
more than `checks`, and each entry's route is one tried, once. While it searches nothing is accepted in
the log and the budgets hold (`Searching`); while it verifies, the answer it verifies is in the log and a
verifier is still to be logged (`Verifying`), and the verifier asked is independent of it. `RouterInv` is
that for every solve, and since a step replaces one solve's record (`SolvesKept`) the proof is about one
record at a time.

### The cache (`AnswerCacheProofs`)

| Theorem | States |
|---|---|
| `CacheTypes` | `Spec => []TypeOK` |
| `HitsServeTheirOwn` | `Spec => HitsAreOwnAndFresh` |
| `UsedLastStays` | `Spec => LastUsedSurvives` |
| `EntriesGoForAReason` | an entry stays, or goes by a `clear` of its client or of an id its client's begins with, by a lookup of its own key, or by a `put` into a full cache |

`CacheInv` says the entries are a dictionary: no key twice, each under the key of the request it answered and
with its lifetime (`Labelled`), and the key used last is at the end if it is there at all (`LastIs`). That
it survives expiry, eviction and moving to the end is `OrderedPick`'s lemmas (`PickedInOrder`, `PickedLast`).
`EntriesGoForAReason` bounds what `CacheClears` finds: `clear` takes away answers of clients other than the one
named, but only of those whose id begins with that one's and a colon, and nothing else takes them.

### Admission and the adapters (`TextAdapterProofs`)

| Theorem | States |
|---|---|
| `NeverPastExpiry` | a provider with a review never qualifies after the time `review_expiry` names |
| `QualifiedUntilExpiry` | one that qualifies goes on qualifying until then, so no dated condition is missing from it |
| `SendsEndWithReview` | `Spec => NothingSentAfterExpiry` |
| `AdapterTypes` | `Spec => []TypeOK` |
| `PricesAreProved` | `Spec => []PriceProvedRecently` |
| `SettlementsAreTrue` | `Spec => []SettledAsHappened` |
| `HeldBackJustly` | `Spec => []HeldBackWithReason` |
| `SmallSizesStay` | `Spec => SmallestKept` |

The expiry is a minimum over a finite set of dates, which exists by well-founded induction over the
naturals (`EarliestExists`); every dated condition of `qualified` is one of those dates or constant.
A step replaces at most one completion's record; one that sends has just found `_admit` to hold
(`SendersAreAdmitted`); and admitted means not past the expiry, by `NeverPastExpiry`. That needs of the state
only `Known`: the clock is a number, the specification has a review or none, each completion has a record.

The rest needs `AdapterInv`: the world (`World`), where the catalogue is held under the time it was asked for;
each completion (`CallsFit`), which is on its way only with a catalogue less than its lifetime old and
has sent nothing while it still asks for one; how the last attempt was settled (`SettledFits`); and the sizes
held back (`SizesFit`), each one the provider refused and held no longer than that refusal allows.

### What is vouched for (`JudgementProofs`)

| Theorem | States | Assuming |
|---|---|---|
| `SolvesAreTyped` | `Spec => []JudgementTypeOK` | — |
| `ClaimsAreWeighed` | `Spec => []ClaimsWeighed` | — |
| `AcceptedIsRight` | `Spec => []AcceptedPassedAll` | `FunctionsAreRun` |
| `OriginsAreCounted` | `CountSpec => []CountIsCorroboration` | — |

`VerdictMeans` is the claims checker, for every dossier and every set of answers: the code compares sets of
references and counts values, its meaning counts facts and positions. They agree because a place states one
value (`RecordsAreIndexed`), more than one value is two facts that disagree (`ManyValues`), and a list of
as many references as there are facts that names each of them names each once (`CitedOnce`).

`AcceptedIsRight` says what a user of FAIR relies on. `JudgementInv` keeps with the answer judged the report
it earned at that moment (`ReportKept`) and with the result what the report allowed (`ReturnedAsJudged`);
the rest is about one report: without reasons the answer is sound (`NoReasonsIsSound`), without a block the
sources are reviewed and independent (`NotBlockedIsSourced`), covered means judgeable
(`CoveredIsJudgeable`), and a contract's check that passes leaves the answer right (`MatchedMeans`). The
assumption is the algorithm that is a parameter: a function without a failure gives what Python would for
every case. `CodeAgrees` is what TLC checks of it. `DossierAssumption` says what the schemas and parsers
guarantee of requests and answers.

`OriginsAreCounted` is the correctness of the augmenting search, which `AcceptedIsRight` relies on through
`Corroboration`. What is hard is the middle of a search, when the calls have promised texts nobody has
assigned yet. `Settled` is what will be assigned once the calls that are returning `True` have all
returned, and it does not change while they do (`FlipPopped`). The inductive invariant is `CountInv`:
`CountTypes`; `Chained`, each call places the owner of the text the one before asked for, and no text is
asked for twice; `Fitting`, of what is settled nobody has two texts, and some set of texts is `Stuck`: taken,
and their owners, like every origin that could not be placed, have reviewed no others; `Searched`, whatever
was seen is taken, each owner met has only texts that are seen or still to be tried, and no call leads out of
stuck texts. A text nobody has ends an augmenting path, along which one origin more is placed and the stuck
texts stay (`Augmented`, `TakeKeeps`); a search that fails leaves its seen texts stuck (`GiveUpKeeps`). In the
end stuck texts bound every independent set of reviews (`StuckBounds`) and the assignment reaches the bound
(`OwnersCorroborate`), as in König's theorem.

### The service and its page (`StatusPageProofs`)

| Theorem | States |
|---|---|
| `AllAccountedFor` | `Spec => []StartAccountsForAll` |
| `KeysAreKeptApart` | `Spec => []ClientsKeptApart` |
| `PageTypes` | `Spec => []PageTypeOK` |
| `KeyGuardsTables` | `Spec => []DetailUnderKey` |
| `NeverBack` | `Spec => ScreenForward` |
| `SignedOutByRefusal` | `Spec => OnlyRefusedKeySignsOut` |

`ServiceInv` says a serving process is what its deployment asks for, and one that failed to start had a
deployment that is refused; the two properties then follow from what the settings and the file of keys may be
(`DeploymentAssumption`). `StartAccountsForAll` says that FAIR starts with every provider it may use whatever is
wrong with the others, and fails only by a mistake of the operator's: each built-in provider that may be used
registers (`BuiltInsAreUsable`). `ClientsKeptApart` allows for ids that differ by blanks: they become one client,
and exactly one of their keys speaks for it.

`DetailUnderKey` is not inductive: that the tables drawn belong to the key in force rests on the refresh
that brought them. The inductive invariant is `PageInv`: `Typed`, the page's variables keep their sorts;
`Attributed`, no refresh is of a session to come, one of the session in force carries the key in force,
each has a number of its own that is not the one drawn last, and only one with a key asks for listings;
`Numbered`, the tables shown have a number; and `DetailUnderKey`. That no refresh has the number drawn last
is what `NeverBack` needs: an answer that passes the test `turn < drawn` is then strictly newer.

## What is only model-checked

* **Liveness** (`BlocksEnd`, `ProbeSlotReturns`, `SolvesEnd`, `SubmitAnswered`, `CountEnds`), which is beyond
  the prover.
* **`CodeAgrees`**: the interpreter of functions is recursive, and what a recursive definition computes for
  every input cannot be proved here. TLC compares it with Python's meaning on two thousand functions.
* **The violations.** `RefundsInOwnWindow` is proved for the pools where its cause is absent, and
  `EntriesGoForAReason` bounds `ClearsOnlyTheNamed`'s; of `RefusedSizeHeldForAnHour` and `CountsOnlyWithoutKey`
  only the runs speak.
* **Strikes.** How many per-minute refusals a key has taken is part of the governor's state and decides how long
  its next bench is, but no property states the count.

Three definitions had to change to be reasoned about, and say the same: `augment` is a stack of
calls rather than a recursive operator, what an `OrderedDict` keeps is picked by rank rather than recursively,
and alternatives the code tries in turn are nested `IF`s, because a `CASE` whose guards overlap does not say
which of them is taken.

## Where the code and its texts differ

Shown by a run:

* `RefundsInOwnWindow` — `SharedQuotaLedger.release` promises that a stale refund never touches a
  newer window; the stamp it compares is a reset that a report may move earlier.
* `ClearsOnlyTheNamed` — `FAIR.clear_cache` says another client is cleared only when named; keys are
  matched by the prefix of the client's id and a colon, and an id may contain a colon.
* `RefusedSizeHeldForAnHour` — `README.md` says a refused size is held back for an hour; a refusal
  that a smaller, older one covers is forgotten with that one.
* `CountsOnlyWithoutKey` — `README.md` says the page shows only the `/health` counts without a key; after
  a key is forgotten or refused the tables go, but the line that names the providers that are out stays until
  an anonymous `/health` is drawn, and stays for good when the service does not answer.

Noticed while modelling, not pursued with a run of their own:

* A comment of `_attempt` (`router.py:167`) says a provider-wide throttle is caught inside the
  reservation. With a ledger, availability is read before the await; afterwards only the model's bench
  is read again, so a throttle that begins meanwhile is not seen.
* `README.md:985` says a `BillingViolation` stops the entire system; the code blocks that provider
  and the solve goes on with the others.
* An attempt that claimed no probe and succeeds while the circuit is open ends the cooldown early
  (`quota.py:967`), on the strength of a request sent before it.
* A client's answers cleared while one of its solves is under way are joined by that solve's afterwards
  (`cache.py:139`); and `close` between the stop check and the dispatch does not hold the request
  back (`router.py:490`).
* The page orders answers by when they were asked for, not by when they were served, so of two
  refreshes the one asked for last wins though it was answered first.
* Two client ids in the file of keys that differ only by blanks become one client, with the later key.
* One provider left out must not deny the application every other, says a comment of `module.py:532-535`; a
  quota pool named for a provider that was left out stops the whole process (`module.py:549-553`).
* When building FAIR fails late, the ledger and the adapters already opened are not closed.
* `SOURCE_POLICY_CONFLICT` cannot arise, since nothing passes a server's policy.
* The docstring of `solve` says there is output only when a result is `ACCEPTED`; an `ACCEPTED_UNVERIFIED`
  one carries it too.
* `MemoryQuotaGovernor.exhaust` takes the reset of the last report whatever it says
  (`quota.py:912`), where the ledger keeps the later one.
* `throttle` and `exhaust` reopen a half-open circuit whoever reports them (`quota.py:729`,
  `913`), where `success` and `failure` ignore all but the owner of the probe.
* `ledger_failures` is one counter per router, so one solve's response can carry
  `QUOTA_LEDGER_UNAVAILABLE` for a failure another solve met (`router.py:567`).
* With every provider down a solve reports `ESCALATION_REQUIRED`; `README.md:824` describes `FAILED`.
* Gemini's and Ollama's `complete` never remember a refused size.
* A reading of the catalogue that arrives late replaces a newer one (`live.py:748`); it is still
  within its lifetime, which is what `PriceProvedRecently` says.
* A rate limit the catalogue met is raised again, with its relative `Retry-After`, for every
  completion of the next minute (`live.py:741`).
* A review that ends between selection and dispatch is an `AdmissionDenied`, which the guard turns into
  `ProviderUnavailable`, and so counts as a failure of the provider (`security/adapter.py:132`).
* Kilo answers that state no cost and take longer than the catalogue's minute block the provider.
* The age of the terms, which `_admit` checks, is not part of `review_expires_at`.
* Mistral's reads of the administrators' API are made without `_admit` (`live.py:1116`), and when
  the attempt's deadline passes during them the refusal they were about is lost (`live.py:1167`).
* An unstamped reservation is refunded when the pool has no reset (`quota.py:212`).
* `reserve` with a clock reading from before a boundary opens a window that is already over
  (`quota.py:172`); the next read clears it.

## Not modelled

* **Performance registry.** Its counters and averages only rank routes; `EmbeddedRouter` takes the routes in
  every order, so nothing checked here can depend on them.
* **Command-line tools.** Run by hand once; they call providers and print.
* **Transport and text.** HTTP, SSE framing, schema dialects, JSON, citation and Python parsing, the patterns
  of the task profiler, what the credential guard scans for, and the page's wording.
* **Two adapters** FAIR never builds, and the adapters' diagnostics.
* **Reports.** `usage_report`, `effective_status`, the numbers of `/health` and the assembly of a
  response's events.

## Plan

Done: the ledger with its abstract specification, the governor, the routing loop, the answer cache,
admission and the adapters, how an answer is judged, and the service with its status page; and
theorems for every invariant and action property the runs check but `CodeAgrees`.

1. The selector's filters and its reads of governor and admission in place of `EmbeddedRouter`'s free
   choice, with several routes that share a provider.
2. Two processes: a governor in front of the ledger, composed, so that what the governor is told
   and what the ledger holds can be compared.
