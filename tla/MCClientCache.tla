--------------------------- MODULE MCClientCache ---------------------------
(* Instances of ClientCache: one Grafana, two tokens, one login. *)
EXTENDS ClientCacheProps, TLC

CONSTANTS t1, t2, t3, u1, a1, a2, l1, o1, s1

MCThreads == {t1, t2, t3}
MCTwoThreads == {t1, t2}
MCUrls == {u1}
MCApiKeys == {a1, a2}
MCLogins == {l1}
MCOrgs == {o1}
MCStamps == {s1}

Req(a, l) == [url |-> u1, apiKey |-> a, login |-> l, orgID |-> o1]

\* Two requests with distinct tokens, one that adds basic auth to the first.
MCRequests == {Req(a1, None), Req(a2, None), Req(a1, l1)}
MCTokens == {Req(a1, None), Req(a2, None)}

Symmetry == Permutations(MCThreads)
=============================================================================
