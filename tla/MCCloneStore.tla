--------------------------- MODULE MCCloneStore ---------------------------
(* Two threads and clones of four entries. *)
EXTENDS CloneStoreProps

CONSTANTS t1, t2, p1

MCThreads == {t1, t2}
MCProjects == {p1}
MCDotFiles == {-1}
MCSources == {1}
MCResources == {2}
=============================================================================
