------------------------------ MODULE Service ------------------------------
(***************************************************************************)
(* One FAIR process behind its HTTP service: how the FAIR object is built  *)
(* from its settings (fair/embedded/module.py, FAIR.__init__), how         *)
(* create_app_from_env puts the service around it (fair/service/app.py),   *)
(* and whose bearer each endpoint takes.  Building runs before anything is *)
(* served, in one piece, so it is one action.  Solving is EmbeddedRouter's *)
(* and Judgement's; here a process only starts, answers for its listings,  *)
(* and ends, to be started again with other settings or keys.              *)
(***************************************************************************)
EXTENDS Integers, Sequences, FiniteSets

CONSTANTS
    Cloud,          \* built-in cloud providers
    RuntimeZero,    \* _RUNTIME_ZERO_COST_PROVIDERS
    NeedsAccount,   \* those that need an account id beside the key
    Ineligible,     \* providers FAIR knows and never uses: credits, trials, prepaid
    Zai,            \* the one of them that may still be named as confirmed
    Ollama,         \* "ollama_local"
    Secrets,        \* bearer values that may be configured or presented
    Weak,           \* those too short for a client
    WeakAdmin,      \* those too short for the administrator, or the placeholder
    RawIds,         \* client ids as written in FAIR_SERVICE_CLIENTS
    Stripped,       \* client_id.strip() of each, NoClient for one refused as an id
    NoKey, NoClient,
    Deployments,    \* the configurations a process may be started with
    Viewed          \* those whose process is watched and started again

ASSUME ServiceAssumption ==
    /\ RuntimeZero \subseteq Cloud /\ NeedsAccount \subseteq Cloud
    /\ Zai \in Ineligible /\ Ollama \notin Cloud \cup Ineligible
    /\ Cloud \cap Ineligible = {}
    /\ Weak \subseteq WeakAdmin /\ WeakAdmin \subseteq Secrets /\ NoKey \notin Secrets
    /\ Stripped \in [RawIds -> RawIds \cup {NoClient}] /\ NoClient \notin RawIds
    /\ Viewed \subseteq Deployments

VARIABLES
    deployment,   \* what the process was started with
    phase,        \* starting, failed, serving, closed
    registered,   \* the registry's providers
    skipped,      \* FAIR.skipped: provider -> reason
    client_keys   \* client id -> its key, as create_app keeps them

service_vars == <<deployment, phase, registered, skipped, client_keys>>

Reasons == {"ineligible", "unconfirmed", "no_account", "review", "adapter",
            "not_loopback", "unreachable", "no_models"}

\* What a configuration can say: keys for the built-in cloud providers and for the
\* ineligible ones (the keyword arguments of FAIR.__init__ and their variables of
\* the environment), how Ollama is found, and a file that gives ids their keys.
ASSUME DeploymentAssumption ==
    \A d \in Deployments :
        /\ d.settings.keys \subseteq Cloud /\ d.settings.unusable \subseteq Ineligible
        /\ d.settings.ollama \in {"off", "served"} \cup Reasons
        /\ DOMAIN d.clients \subseteq RawIds /\ d.clients \in [DOMAIN d.clients -> Secrets]

-----------------------------------------------------------------------------
(* FAIR.__init__, as functions of the settings c.  Operators named Bug_... *)
(* are mutated forms of the definition that follows them: plausible slips, *)
(* kept to show which property notices each one.                           *)

UnknownConfirmed(c) == c.confirmed \ (Cloud \cup {Zai}) # {}

Bug_Confirmed(c) == Cloud
Confirmed(c) == (c.confirmed \cap Cloud) \cup RuntimeZero

\* What the loop over _CLOUD_PROVIDERS says of a provider whose key is not blank.
\* Registering asks the review first, then whether the adapter admits itself.
Bug_CloudReason(c, p) ==
    IF p \notin Confirmed(c)                    THEN "unconfirmed"
    ELSE IF p \in NeedsAccount /\ ~c.account_id THEN "no_account"
    ELSE IF ~c.reviewed                         THEN "review"
    ELSE IF p \in c.refuse                      THEN "none"
    ELSE "registered"
CloudReason(c, p) ==
    IF p \notin Confirmed(c)                    THEN "unconfirmed"
    ELSE IF p \in NeedsAccount /\ ~c.account_id THEN "no_account"
    ELSE IF ~c.reviewed                         THEN "review"
    ELSE IF p \in c.refuse                      THEN "adapter"
    ELSE "registered"

\* _register_ollama: a loopback address, then models given or discovered.
OllamaReason(c) ==
    CASE c.ollama = "off"     -> "none"
      [] c.ollama = "served"  -> "registered"
      [] OTHER                -> c.ollama

Fate(c) ==
    [p \in c.keys \cup c.unusable \cup (c.confirmed \cap {Zai}) \cup {Ollama} |->
        IF p = Ollama THEN OllamaReason(c)
        ELSE IF p \in Ineligible THEN "ineligible" ELSE CloudReason(c, p)]

BuiltIns(c) == {p \in DOMAIN Fate(c) : Fate(c)[p] = "registered"}

Skipped(c) ==
    LET left_out == {p \in DOMAIN Fate(c) : Fate(c)[p] \in Reasons}
    IN [p \in left_out |-> Fate(c)[p]]

CustomIds(c) == {c.custom[i].id : i \in DOMAIN c.custom}

\* Registry.register, for each of FAIR(providers=...) in turn: an id once, an
\* adapter of its own name, and admission unless its spec is not ACTIVE.
CustomRefused(c) ==
    \E i \in DOMAIN c.custom :
        \/ c.custom[i].id \in BuiltIns(c) \cup {c.custom[j].id : j \in 1..(i - 1)}
        \/ c.custom[i].active /\ ~c.custom[i].admitted
        \/ ~c.custom[i].own_name

Providers(c) == BuiltIns(c) \cup CustomIds(c)

UnknownPools(c) == c.pools \ Providers(c) # {}

\* A ValueError of FAIR(): the process does not start.
Bug_Unbuildable(c) ==
    \/ UnknownConfirmed(c) \/ CustomRefused(c) \/ UnknownPools(c) \/ Providers(c) = {}
    \/ \E p \in DOMAIN Fate(c) : Fate(c)[p] = "adapter"
Unbuildable(c) ==
    UnknownConfirmed(c) \/ CustomRefused(c) \/ UnknownPools(c) \/ Providers(c) = {}

-----------------------------------------------------------------------------
(* parse_client_keys and create_app, for the file of client keys as written *)

BadClients(clients) ==
    \/ DOMAIN clients = {}
    \/ \E raw \in DOMAIN clients : Stripped[raw] = NoClient \/ clients[raw] \in Weak
    \/ \E raw, other \in DOMAIN clients : raw # other /\ clients[raw] = clients[other]

\* Two ids that differ only by blanks are one client, with the later one's key;
\* the file's order is free.
Bug_Parsed(clients) == {clients}
Parsed(clients) ==
    {keys \in [{Stripped[raw] : raw \in DOMAIN clients} -> Secrets] :
        \A id \in DOMAIN keys :
            \E raw \in DOMAIN clients : Stripped[raw] = id /\ keys[id] = clients[raw]}

Bug_BadAdmin(admin, keys) == admin # NoKey /\ admin \in WeakAdmin
BadAdmin(admin, keys) ==
    admin # NoKey /\ (admin \in WeakAdmin \/ \E id \in DOMAIN keys : keys[id] = admin)

-----------------------------------------------------------------------------
(* Whose bearer a handler takes *)

\* _client_resolver: the client whose key matches, NoClient for a 401.
resolve_client(bearer) ==
    IF \E id \in DOMAIN client_keys : client_keys[id] = bearer
      THEN CHOOSE id \in DOMAIN client_keys : client_keys[id] = bearer
      ELSE NoClient

\* _admin_resolver: 404 without an admin key, 401 for any other bearer.
resolve_admin(bearer) == deployment.admin # NoKey /\ bearer = deployment.admin

\* /v1/fair/providers, and /v1/models and /v1/fair/quota with it.
Listing(bearer) == IF resolve_client(bearer) = NoClient THEN 401 ELSE 200

-----------------------------------------------------------------------------
(* Actions *)

ServiceInit ==
    /\ deployment \in Deployments
    /\ phase = "starting"
    /\ registered = {} /\ skipped = <<>> /\ client_keys = <<>>

\* create_app_from_env: the keys are parsed before FAIR is built, the admin key
\* is looked at afterwards.
Start ==
    LET c == deployment.settings IN
    /\ phase = "starting"
    /\ IF BadClients(deployment.clients) \/ Unbuildable(c)
         THEN phase' = "failed" /\ UNCHANGED <<registered, skipped, client_keys>>
         ELSE \E keys \in Parsed(deployment.clients) :
                IF BadAdmin(deployment.admin, keys)
                  THEN phase' = "failed" /\ UNCHANGED <<registered, skipped, client_keys>>
                  ELSE /\ phase' = "serving"
                       /\ registered' = Providers(c) /\ skipped' = Skipped(c)
                       /\ client_keys' = keys
    /\ UNCHANGED deployment

Serving == phase = "serving"

\* The process ends, orderly (the lifespan closes FAIR) or not.
Close ==
    /\ Serving
    /\ phase' = "closed" /\ registered' = {} /\ skipped' = <<>> /\ client_keys' = <<>>
    /\ UNCHANGED deployment

\* It is started again, perhaps with another file of keys.
Restart ==
    /\ phase = "closed" /\ deployment \in Viewed
    /\ phase' = "starting" /\ deployment' \in Viewed
    /\ UNCHANGED <<registered, skipped, client_keys>>

-----------------------------------------------------------------------------
(* Properties *)

ServiceTypeOK ==
    /\ deployment \in Deployments
    /\ phase \in {"starting", "failed", "serving", "closed"}
    /\ registered \subseteq Cloud \cup {Ollama} \cup CustomIds(deployment.settings)
    /\ DOMAIN skipped \subseteq Cloud \cup Ineligible \cup {Ollama}
    /\ \A p \in DOMAIN skipped : skipped[p] \in Reasons
    /\ client_keys \in [DOMAIN client_keys -> Secrets] /\ DOMAIN client_keys \subseteq RawIds

\* The built-in providers the settings let FAIR use, each looked at by itself: its
\* price is proved per request or its account confirmed, and nothing about it is out.
Usable(c) ==
    {p \in c.keys : /\ p \in RuntimeZero \cup c.confirmed /\ c.reviewed
                    /\ p \in NeedsAccount => c.account_id
                    /\ p \notin c.refuse}
    \cup {p \in {Ollama} : c.ollama = "served"}

\* What the operator has to put right before FAIR starts.  A provider left out is
\* no cause, unless it was the last or a quota pool was named for it.
OperatorsMistake ==
    LET c == deployment.settings IN
    \/ c.confirmed \ (Cloud \cup {Zai}) # {} \/ CustomRefused(c)
    \/ ~(c.pools \subseteq Usable(c) \cup CustomIds(c))
    \/ Usable(c) \cup CustomIds(c) = {}
    \/ BadClients(deployment.clients)
    \/ \E keys \in Parsed(deployment.clients) : BadAdmin(deployment.admin, keys)

\* FAIR starts with every provider it may use and none whose account might be
\* charged, however many of the others it has to leave out; none that was
\* configured goes missing: it is in use, or listed with the reason it is not,
\* never both.  And only a mistake of the operator's keeps it from starting.
StartAccountsForAll ==
    /\ Serving => LET c == deployment.settings IN
        /\ registered = Usable(c) \cup CustomIds(c) /\ registered # {}
        /\ c.keys \cup c.unusable \subseteq registered \cup DOMAIN skipped
        /\ c.ollama # "off" => Ollama \in registered \cup DOMAIN skipped
        /\ registered \cap DOMAIN skipped \subseteq CustomIds(c)
    /\ phase = "failed" => OperatorsMistake

\* Whatever the ids in the file, each configured client is spoken for by its own
\* key alone, and the keys of two never mix.  Only ids that differ in nothing but
\* blanks become one client, though the service starts without complaint: one of
\* their keys then speaks for it, and the holders of the others are turned away.
\* And no client's key is the administrator's: it does not lift a provider's block.
ClientsKeptApart ==
    Serving =>
        LET file     == deployment.clients
            Spoken   == {raw \in DOMAIN file : resolve_client(file[raw]) # NoClient}
            Namesake(raw) == {other \in DOMAIN file : Stripped[other] = Stripped[raw]}
        IN
        /\ \A raw \in Spoken : resolve_client(file[raw]) = Stripped[raw]
        /\ \A raw \in DOMAIN file : \E one \in DOMAIN file :
              Namesake(raw) \cap Spoken = {one}
        /\ \A bearer \in Secrets : resolve_admin(bearer) => Listing(bearer) = 401
=============================================================================
