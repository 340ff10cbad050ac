-------------------------------- MODULE Lists --------------------------------
(* What the tools do to lists and maps, beside what the community modules know. *)
EXTENDS Integers, SequencesExt

IsList(list) == list \in Seq(Range(list))

\* The elements of a list at some of its places, in their order.
ElementsAt(list, places) ==
    FlattenSeq([i \in DOMAIN list |-> IF i \in places THEN <<list[i]>> ELSE <<>>])

\* The elements of a list that are in a set, in their order: a loop that appends
\* what passes a test.
Those(list, set) ==
    FlattenSeq([i \in DOMAIN list |-> IF list[i] \in set THEN <<list[i]>> ELSE <<>>])

\* The places of a list by the value they hold: one list of places for each value,
\* values in the order in which they first appear.
Alike(values) ==
    LET places == [i \in DOMAIN values |-> i]
        firsts == Those(places, {i \in DOMAIN values :
                                    \A j \in 1..i - 1 : values[j] # values[i]})
    IN [g \in DOMAIN firsts |->
          Those(places, {i \in DOMAIN values : values[i] = values[firsts[g]]})]

\* Go's maps: one entry, and one map copied over another.
Only(key, value) == [k \in {key} |-> value]
Over(f, g) == [k \in DOMAIN f \cup DOMAIN g |-> IF k \in DOMAIN f THEN f[k] ELSE g[k]]
=============================================================================
