--------------------------- MODULE MCTextAdapter ---------------------------
(* Values for TLC that a cfg cannot write. *)
EXTENDS TextAdapter, TLC

CONSTANTS m1

\* One whose review ends during the run, one whose terms were read too long ago by
\* then, one that stays admitted; and a local one, which needs neither.
Remote(r, t, terms) ==
    [eligible |-> TRUE, sound |-> TRUE, local |-> FALSE, active |-> {m1},
     terms_last_verified |-> terms,
     qualification |-> [reviewed_at |-> r, expires_at |-> r + 3, live_test_at |-> (m1 :> t)]]

ReviewEnds == Remote(1, 0, 1)
TermsAge   == Remote(2, 1, 0)
Stays      == Remote(2, 1, 1)
Local      == [Stays EXCEPT !.local = TRUE, !.qualification = NoReview]

MCProviders ==
    [groq |-> {ReviewEnds, Stays}, mistral |-> {ReviewEnds, Stays},
     cloudflare_workers_ai |-> {Stays}, openrouter_free |-> {ReviewEnds, TermsAge, Stays},
     kilo_free |-> {ReviewEnds, Stays}, google_gemini_api |-> {ReviewEnds, Stays},
     ollama_local |-> {Local}]

\* Two shapes of which neither covers the other, and one that covers both;
\* elsewhere one that fits, and one that fits no context.
MCAsks ==
    [groq |-> {<<1, 1>>}, mistral |-> {<<1, 1>>}, kilo_free |-> {<<1, 1>>},
     cloudflare_workers_ai |-> {<<1, 2>>, <<2, 1>>, <<2, 2>>},
     openrouter_free |-> {<<1, 1>>, <<3, 3>>}, google_gemini_api |-> {<<3, 3>>, <<6, 1>>},
     ollama_local |-> {<<1, 1>>, <<3, 3>>}]

Symmetry == Permutations(Calls)
=============================================================================
