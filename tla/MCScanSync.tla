---------------------------- MODULE MCScanSync ----------------------------
(* Two scans, two projects, and two components of which one refers to the   *)
(* other.                                                                   *)
EXTENDS ScanSyncProps, TLC

CONSTANTS s1, s2, p1, p2, i1, i2

MCScans == {s1, s2}
MCProjects == {p1, p2}
MCScanIds == {i1, i2}
MCItems == {1, 2}
MCEdges == {<<1, 2>>}

Symmetric == Permutations(MCScans) \cup Permutations(MCProjects)
                 \cup Permutations(MCScanIds)
=============================================================================
