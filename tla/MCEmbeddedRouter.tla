-------------------------- MODULE MCEmbeddedRouter --------------------------
(***************************************************************************)
(* Finite instances of EmbeddedRouter.  Two gateways serve one model under *)
(* two ids (r1 and r2 share a group), r3 and r4 are other models.          *)
(***************************************************************************)
EXTENDS EmbeddedRouter, TLC

CONSTANTS s1, s2

r1 == [provider |-> "groq", model |-> "oss-20b", group |-> "oss"]
r2 == [provider |-> "cloudflare", model |-> "cf-oss-20b", group |-> "oss"]
r3 == [provider |-> "gemini", model |-> "flash", group |-> "flash"]
r4 == [provider |-> "groq", model |-> "llama", group |-> "llama"]

TwoRoutes   == {r1, r3}
FourRoutes  == {r1, r2, r3, r4}
=============================================================================
