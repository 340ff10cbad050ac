------------------------- MODULE MCProxiedSessions -------------------------
(* Instances of ProxiedSessions. *)
EXTENDS ProxiedSessionsProps, TLC

CONSTANTS s1, s2, t1, t2, d1, d2

MCOneSession == {s1}
MCTwoSessions == {s1, s2}
MCOneThread == {t1}
MCThreads == {t1, t2}
MCOneDatasource == {d1}
MCDatasources == {d1, d2}

Symmetry == Permutations(MCThreads) \cup Permutations(MCDatasources)
=============================================================================
