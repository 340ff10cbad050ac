-------------------------- MODULE DashboardPatches --------------------------
(***************************************************************************)
(* How update_dashboard applies patch operations to a dashboard            *)
(* (skuld-mcp-grafana/tools/dashboard.go).                                 *)
(*                                                                         *)
(* A JSON value is a pair of a kind and what it consists of.  A path is  *)
(* a sequence of segments, as parseJSONPath returns it: a key, an index or *)
(* NoIndex, and whether "/-" follows.  Indices start at 0 in the program.  *)
(***************************************************************************)
EXTENDS Integers, SequencesExt

Obj(fields) == <<"object", fields>>
Arr(seq) == <<"array", seq>>
Val(v) == <<"value", v>>
Error == <<"error">>
Kind(json) == json[1]
Of(json) == json[2]

NoIndex == -1
Seg(key, index, append) == [key |-> key, index |-> index, append |-> append]
Field(key) == Seg(key, NoIndex, FALSE)
Elem(key, index) == Seg(key, index, FALSE)
End(key) == Seg(key, NoIndex, TRUE)

HasArray(obj, key) == key \in DOMAIN Of(obj) /\ Kind(Of(obj)[key]) = "array"
HasElem(obj, seg) == HasArray(obj, seg.key) /\ seg.index < Len(Of(Of(obj)[seg.key]))

Put(obj, key, value) ==
    Obj([k \in DOMAIN Of(obj) \cup {key} |-> IF k = key THEN value ELSE Of(obj)[k]])

\* The object that a segment before the last leads to.
Navigate(obj, seg) ==
    LET target ==
          CASE seg.append -> Error
            [] ~seg.append /\ seg.index # NoIndex ->
                 IF HasElem(obj, seg) THEN Of(Of(obj)[seg.key])[seg.index + 1] ELSE Error
            [] OTHER -> IF seg.key \in DOMAIN Of(obj) THEN Of(obj)[seg.key] ELSE Error
    IN IF Kind(target) = "object" THEN target ELSE Error

\* "/-" wins over an index before it.
SetAtSegment(obj, seg, value) ==
    LET old == Of(Of(obj)[seg.key]) IN
    CASE seg.append ->
           IF HasArray(obj, seg.key) THEN Put(obj, seg.key, Arr(Append(old, value)))
                                     ELSE Error
      [] ~seg.append /\ seg.index # NoIndex ->
           IF HasElem(obj, seg)
           THEN Put(obj, seg.key, Arr([old EXCEPT ![seg.index + 1] = value]))
           ELSE Error
      [] OTHER -> Put(obj, seg.key, value)

\* A field that is not there is removed without complaint.
RemoveAtSegment(obj, seg) ==
    CASE seg.append -> Error
      [] ~seg.append /\ seg.index # NoIndex ->
           IF HasElem(obj, seg)
           THEN Put(obj, seg.key, Arr(RemoveAt(Of(Of(obj)[seg.key]), seg.index + 1)))
           ELSE Error
      [] OTHER -> Obj([k \in DOMAIN Of(obj) \ {seg.key} |-> Of(obj)[k]])

\* Puts the changed object back where Navigate found it.
PutBack(obj, seg, child) ==
    IF seg.index = NoIndex THEN Put(obj, seg.key, child)
    ELSE Put(obj, seg.key, Arr([Of(Of(obj)[seg.key]) EXCEPT ![seg.index + 1] = child]))

\* The objects on the way down: the document, and what each segment leads to.
Levels(doc, path) ==
    LET level[i \in 1..Len(path)] ==
          CASE i = 1 -> doc
            [] i # 1 /\ level[i - 1] = Error -> Error
            [] OTHER -> Navigate(level[i - 1], path[i - 1])
    IN level

\* The last segment is changed in the object that the others lead to, and so is
\* every object on the way.  A filter, a wildcard or an empty path has no segments
\* here.
ApplyJSONPath(doc, op) ==
    LET path == op.path
        level == Levels(doc, path)
        changed[i \in 1..Len(path)] ==
          CASE i = Len(path) -> IF op.op = "remove" THEN RemoveAtSegment(level[i], path[i])
                                ELSE SetAtSegment(level[i], path[i], op.value)
            [] i # Len(path) /\ changed[i + 1] = Error -> Error
            [] OTHER -> PutBack(level[i], path[i], changed[i + 1])
    IN IF path = <<>> \/ Error \in Range(level) THEN Error ELSE changed[1]

ApplyOperation(doc, op) ==
    IF doc = Error \/ op.op \notin {"replace", "add", "remove"}
    THEN Error ELSE ApplyJSONPath(doc, op)

\* The array an operation removes an element of: the path without its index.
ArrayOf(path) == Append(Front(path), Field(Last(path).key))
RemovesElement(op) ==
    /\ op.op = "remove"
    /\ op.path # <<>>
    /\ Last(op.path).index # NoIndex
    /\ ~Last(op.path).append

\* The positions of the operations that remove from the array of the i-th.
SameArray(ops, i) ==
    {j \in DOMAIN ops : RemovesElement(ops[j]) /\ ArrayOf(ops[j].path) = ArrayOf(ops[i].path)}

DuplicateRemove(ops) ==
    \E i, j \in DOMAIN ops : i # j /\ RemovesElement(ops[i]) /\ j \in SameArray(ops, i)
                             /\ Last(ops[i].path).index = Last(ops[j].path).index

\* Mutant of SortArrayRemovesDescending: the caller's order.
SortNothing(ops) == ops

\* Removals from one array take the places of these removals, greatest index
\* first; all other operations stay where they are.
SortArrayRemovesDescending(ops) ==
    [i \in DOMAIN ops |->
        IF ~RemovesElement(ops[i]) THEN ops[i]
        ELSE LET places == SameArray(ops, i)
                 before == Cardinality({j \in places : j < i})
             IN ops[CHOOSE j \in places :
                      before = Cardinality({k \in places :
                          Last(ops[k].path).index > Last(ops[j].path).index})]]

Patched(doc, ops) ==
    IF DuplicateRemove(ops) THEN Error
    ELSE FoldLeft(ApplyOperation, doc, SortArrayRemovesDescending(ops))
=============================================================================
