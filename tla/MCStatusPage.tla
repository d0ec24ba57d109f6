---------------------------- MODULE MCStatusPage ----------------------------
(* Small instances of StatusPage: three cloud providers, one that proves its *)
(* price, one that must be confirmed and one that needs an account as well;  *)
(* many settings with one file of keys, and many files with one setting.     *)
EXTENDS StatusPage, TLC

CONSTANTS openrouter, gemini, cloudflare, zai, typo, k1, k2, k3, short

mcStripped == "a" :> "a" @@ " a" :> "a" @@ "b" :> "b" @@ "" :> NoClient

Plain ==
    [keys |-> {openrouter}, unusable |-> {}, confirmed |-> {}, account_id |-> FALSE,
     reviewed |-> TRUE, refuse |-> {}, ollama |-> "off", custom |-> <<>>, pools |-> {}]

Custom(id, active, admitted) ==
    [id |-> id, active |-> active, admitted |-> admitted, own_name |-> TRUE]

Settings ==
    [keys : SUBSET {openrouter, gemini, cloudflare}, unusable : SUBSET {zai},
     confirmed : SUBSET {gemini, cloudflare, zai, typo}, account_id : BOOLEAN,
     reviewed : BOOLEAN, refuse : SUBSET {cloudflare},
     ollama : {"off", "served", "not_loopback", "no_models"},
     custom : {<<>>, <<Custom(gemini, TRUE, TRUE)>>, <<Custom(typo, FALSE, FALSE)>>,
               <<Custom(typo, TRUE, FALSE)>>},
     pools : {{}, {gemini}}]

OneClient == "a" :> k1
Deploy(settings, clients, admin) ==
    [settings |-> settings, clients |-> clients, admin |-> admin]

mcViewed == {Deploy(Plain, OneClient, NoKey), Deploy(Plain, OneClient @@ "b" :> k2, k3)}

mcDeployments ==
    [settings : Settings, clients : {OneClient}, admin : {NoKey}]
    \cup [settings : {Plain}, clients : UNION {[ids -> Secrets] : ids \in SUBSET RawIds},
          admin : Secrets \cup {NoKey}]

mcCloud == {openrouter, gemini, cloudflare}
=============================================================================
