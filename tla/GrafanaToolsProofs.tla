------------------------- MODULE GrafanaToolsProofs -------------------------
(***************************************************************************)
(* Theorems about GrafanaTools, and the facts about sequences that the     *)
(* proofs about tools rest on: induction, what FlattenSeq and FoldLeft     *)
(* compute, and what substitution does to a text.                          *)
(***************************************************************************)
EXTENDS GrafanaToolsProps, FiniteSetTheorems, WellFoundedInduction, TLAPS

-----------------------------------------------------------------------------
(* Induction and recursion *)

\* Induction over numbers, stated of a set.
LEMMA NatInd ==
    ASSUME NEW S, 0 \in S, \A n \in Nat : n \in S => n + 1 \in S
    PROVE  \A n \in Nat : n \in S
<1> DEFINE T == {n \in Nat : n \notin S}
<1>1. SUFFICES ASSUME T # {} PROVE FALSE
  OBVIOUS
<1>2. PICK m \in T : \A y \in T : ~ (<<y, m>> \in OpToRel(<, Nat))
  BY <1>1, WFMin, NatLessThanWellFounded, Zenon
<1>3. \A y \in T : ~ (y < m)
  BY <1>2, Zenon DEF OpToRel
<1>4. m # 0 /\ m - 1 \in Nat
  OBVIOUS
<1>5. m - 1 \in S
  BY <1>3, <1>4
<1>6. m - 1 + 1 \in S
  BY <1>4, <1>5
<1> QED BY <1>6

\* A finite set of numbers has a least and a greatest element.
LEMMA MaxOfInterval ==
    ASSUME NEW n \in Nat, NEW S \in SUBSET (1..n), S # {}
    PROVE  Max(S) \in S /\ \A y \in S : Max(S) >= y
<1> DEFINE P == {k \in Nat : \A T \in SUBSET (1..k) : T # {} => \E x \in T : \A y \in T : x >= y}
<1>1. 0 \in P
  <2>1. 1..0 = {}
    OBVIOUS
  <2> QED BY <2>1
<1>2. ASSUME NEW k \in Nat, k \in P PROVE k + 1 \in P
  <2>1. SUFFICES ASSUME NEW T \in SUBSET (1..k + 1), T # {}
                 PROVE  \E x \in T : \A y \in T : x >= y
    OBVIOUS
  <2>2. CASE k + 1 \in T
    BY <2>2
  <2>3. CASE k + 1 \notin T
    BY <2>1, <2>3, <1>2
  <2> QED BY <2>2, <2>3
<1>3. n \in P
  BY <1>1, <1>2, NatInd
<1>4. PICK x \in S : \A y \in S : x >= y
  BY <1>3
<1> QED BY <1>4 DEF Max

LEMMA MinOfNats ==
    ASSUME NEW S \in SUBSET Int, NEW b \in Int, \A x \in S : x >= b, S # {}
    PROVE  Min(S) \in S /\ \A y \in S : Min(S) <= y
<1> DEFINE Q == {k \in Nat : \A T \in SUBSET Int :
                    (\A x \in T : x >= b) /\ (\E y \in T : y <= b + k)
                    => \E x \in T : \A y \in T : x <= y}
<1>1. 0 \in Q
  OBVIOUS
<1>2. ASSUME NEW k \in Nat, k \in Q PROVE k + 1 \in Q
  <2>1. SUFFICES ASSUME NEW T \in SUBSET Int, \A x \in T : x >= b,
                        NEW z \in T, z <= b + (k + 1)
                 PROVE  \E x \in T : \A y \in T : x <= y
    OBVIOUS
  <2>2. CASE \E y \in T : y <= b + k
    BY <1>2, <2>1, <2>2
  <2>3. CASE \A y \in T : ~(y <= b + k)
    BY <2>1, <2>3
  <2> QED BY <2>2, <2>3
<1>3. \A k \in Nat : k \in Q
  <2> HIDE DEF Q
  <2> QED BY <1>1, <1>2, NatInd
<1>4. PICK z \in S : TRUE
  OBVIOUS
<1>5. z - b \in Nat /\ z <= b + (z - b)
  BY <1>4
<1>6. z - b \in Q
  BY <1>3, <1>5
<1>7. PICK x \in S : \A y \in S : x <= y
  BY <1>5, <1>6
<1> QED BY <1>7 DEF Min

LEMMA MinOfPositions ==
    ASSUME NEW S \in SUBSET Nat, S # {} PROVE Min(S) \in S /\ \A y \in S : Min(S) <= y
<1>1. 0 \in Int /\ S \in SUBSET Int /\ \A x \in S : x >= 0
  OBVIOUS
<1> DEFINE b == 0
<1>2. b \in Int /\ \A x \in S : x >= b
  BY <1>1
<1> HIDE DEF b
<1> QED BY <1>1, <1>2, MinOfNats

\* The functions over 0..n that begin with b and go on by a step, and that there
\* is one.
Recursions(S, b, n, step) ==
    {f \in [0..n -> S] : f[0] = b /\ \A k \in 0..n - 1 : f[k + 1] = step[<<k, f[k]>>]}
LEMMA RecursionExists ==
    ASSUME NEW S, NEW b \in S, NEW n \in Nat,
           NEW step \in [(0..n - 1) \X S -> S]
    PROVE  Recursions(S, b, n, step) # {}
<1> DEFINE P == {m \in Nat : m <= n => \E f \in [0..m -> S] :
                    f[0] = b /\ \A k \in 0..m - 1 : f[k + 1] = step[<<k, f[k]>>]}
<1>1. 0 \in P
  <2> DEFINE f == [k \in 0..0 |-> b]
  <2>1. f \in [0..0 -> S] /\ f[0] = b
    OBVIOUS
  <2>2. 0..0 - 1 = {}
    OBVIOUS
  <2> QED BY <2>1, <2>2
<1>2. ASSUME NEW m \in Nat, m \in P PROVE m + 1 \in P
  <2>1. SUFFICES ASSUME m + 1 <= n
                 PROVE  \E f \in [0..m + 1 -> S] :
                           f[0] = b /\ \A k \in 0..m : f[k + 1] = step[<<k, f[k]>>]
    BY m + 1 - 1 = m
  <2>2. PICK g \in [0..m -> S] : g[0] = b /\ \A k \in 0..m - 1 : g[k + 1] = step[<<k, g[k]>>]
    BY <1>2, <2>1
  <2> DEFINE f == [k \in 0..m + 1 |-> IF k = m + 1 THEN step[<<m, g[m]>>] ELSE g[k]]
  <2>3. step[<<m, g[m]>>] \in S
    <3>1. m \in 0..n - 1 /\ g[m] \in S
      BY <2>1
    <3> QED BY <3>1
  <2>4. f \in [0..m + 1 -> S]
    BY <2>3
  <2>5. f[0] = g[0] /\ f[m] = g[m] /\ f[m + 1] = step[<<m, g[m]>>]
    OBVIOUS
  <2>6. ASSUME NEW k \in 0..m PROVE f[k + 1] = step[<<k, f[k]>>]
    <3>1. CASE k = m
      BY <2>5, <3>1
    <3>2. CASE k # m
      <4>1. k \in 0..m - 1 /\ f[k] = g[k] /\ f[k + 1] = g[k + 1]
        BY <3>2
      <4> QED BY <2>2, <4>1
    <3> QED BY <3>1, <3>2
  <2> HIDE DEF f
  <2> QED BY <2>2, <2>4, <2>5, <2>6
<1>3. n \in P
  <2> HIDE DEF P
  <2> QED BY <1>1, <1>2, NatInd
<1> QED BY <1>3 DEF Recursions

\* Induction over sequences that grow at their end, stated of a set.
LEMMA SeqInd ==
    ASSUME NEW X, NEW S, <<>> \in S,
           \A t \in Seq(X), x \in X : t \in S => Append(t, x) \in S
    PROVE  \A t \in Seq(X) : t \in S
<1> DEFINE P == {n \in Nat : \A t \in Seq(X) : Len(t) = n => t \in S}
<1>1. 0 \in P
  OBVIOUS
<1>2. ASSUME NEW n \in Nat, n \in P PROVE n + 1 \in P
  <2>1. SUFFICES ASSUME NEW t \in Seq(X), Len(t) = n + 1 PROVE t \in S
    OBVIOUS
  <2> DEFINE front == SubSeq(t, 1, n)
  <2>2. front \in Seq(X) /\ Len(front) = n /\ t[n + 1] \in X
    BY <2>1
  <2>3. t = Append(front, t[n + 1])
    BY <2>1, <2>2
  <2>4. front \in S
    BY <1>2, <2>2
  <2> QED BY <2>2, <2>3, <2>4
<1>3. \A n \in Nat : n \in P
  <2> HIDE DEF P
  <2> QED BY <1>1, <1>2, NatInd
<1> QED BY <1>3

-----------------------------------------------------------------------------
(* FlattenSeq and FoldLeft *)

Flat(seqs) ==
    CHOOSE f : f = [i \in 1..Len(seqs) |-> IF i = 1 THEN seqs[i] ELSE f[i - 1] \o seqs[i]]

\* FlattenSeq puts one sequence after the other.
LEMMA FlattenByPrefix ==
    ASSUME NEW T, NEW seqs \in Seq(Seq(T))
    PROVE  \E g \in [0..Len(seqs) -> Seq(T)] :
               /\ g[0] = <<>>
               /\ \A k \in 0..Len(seqs) - 1 : g[k + 1] = g[k] \o seqs[k + 1]
               /\ FlattenSeq(seqs) = g[Len(seqs)]
<1> DEFINE n == Len(seqs)
           step == [p \in (0..n - 1) \X Seq(T) |-> p[2] \o seqs[p[1] + 1]]
<1>1. n \in Nat /\ \A i \in 1..n : seqs[i] \in Seq(T)
  OBVIOUS
<1>2. ASSUME NEW k \in 0..n - 1, NEW x \in Seq(T)
      PROVE  step[<<k, x>>] = x \o seqs[k + 1] /\ step[<<k, x>>] \in Seq(T)
  <2>1. k + 1 \in 1..n
    BY <1>1
  <2>2. seqs[k + 1] \in Seq(T)
    BY <1>1, <2>1
  <2>3. x \o seqs[k + 1] \in Seq(T)
    BY <2>2
  <2>4. step[<<k, x>>] = x \o seqs[k + 1]
    <3>1. <<k, x>> \in (0..n - 1) \X Seq(T)
      OBVIOUS
    <3>2. \A p \in (0..n - 1) \X Seq(T) : step[p] = p[2] \o seqs[p[1] + 1]
      OBVIOUS
    <3> HIDE DEF step, n
    <3>3. step[<<k, x>>] = <<k, x>>[2] \o seqs[<<k, x>>[1] + 1]
      BY <3>1, <3>2
    <3> QED BY <3>3
  <2> QED BY <2>3, <2>4
<1>3. <<>> \in Seq(T)
  OBVIOUS
<1> HIDE DEF step
<1>4. PICK g \in [0..n -> Seq(T)] : g[0] = <<>> /\ \A k \in 0..n - 1 : g[k + 1] = step[<<k, g[k]>>]
  <2> DEFINE S == Seq(T)
             b == <<>>
  <2>1. n \in Nat /\ b \in S /\ step \in [(0..n - 1) \X S -> S]
    <3>1. \A k \in 0..n - 1, x \in Seq(T) : x \o seqs[k + 1] \in Seq(T)
      BY <1>2
    <3> QED BY <1>1, <1>3, <3>1 DEF step
  <2> HIDE DEF n, S, b
  <2>2. Recursions(S, b, n, step) # {}
    BY <2>1, RecursionExists
  <2> QED BY <2>2 DEF S, n, b, Recursions
<1>5. ASSUME NEW k \in 0..n - 1 PROVE g[k + 1] = g[k] \o seqs[k + 1]
  <2>1. g[k] \in Seq(T)
    BY <1>1
  <2> QED BY <1>2, <1>4, <2>1
<1> DEFINE f == [i \in 1..n |-> g[i]]
<1>6. ASSUME NEW i \in 1..n PROVE f[i] = IF i = 1 THEN seqs[i] ELSE f[i - 1] \o seqs[i]
  <2> HIDE DEF n
  <2>0. i - 1 \in 0..n - 1 /\ i - 1 + 1 = i
    BY <1>1
  <2>1. g[i] = g[i - 1] \o seqs[i]
    BY <1>5, <2>0
  <2>2. CASE i = 1
    <3>1. g[1] = g[0] \o seqs[1]
      BY <1>1, <2>1, <2>2
    <3> QED BY <1>1, <1>4, <2>2, <3>1
  <2>3. CASE i # 1
    <3>1. i - 1 \in 1..n
      BY <1>1, <2>3
    <3> QED BY <2>1, <2>3, <3>1
  <2> QED BY <2>2, <2>3
<1>7. f = [i \in 1..n |-> IF i = 1 THEN seqs[i] ELSE f[i - 1] \o seqs[i]]
  BY <1>6
<1> HIDE DEF f
<1>8. Flat(seqs) = [i \in 1..n |-> IF i = 1 THEN seqs[i] ELSE Flat(seqs)[i - 1] \o seqs[i]]
  BY <1>7 DEF Flat
<1> DEFINE S == {j \in Nat : j \in 1..n => Flat(seqs)[j] = g[j]}
<1>9. \A k \in Nat : k \in S
  <2>1. 0 \in S
    OBVIOUS
  <2>2. ASSUME NEW k \in Nat, k \in S, k + 1 \in 1..n
        PROVE  Flat(seqs)[k + 1] = g[k + 1]
    <3> HIDE DEF n
    <3>0. k \in 0..n - 1
      BY <1>1, <2>2
    <3>1. g[k + 1] = g[k] \o seqs[k + 1]
      BY <1>5, <3>0
    <3>2. CASE k = 0
      <4>1. Flat(seqs)[1] = seqs[1]
        BY <1>8, <2>2, <3>2
      <4>2. g[1] = g[0] \o seqs[1]
        <5>1. k + 1 = 1
          BY <3>2
        <5> QED BY <3>1, <3>2, <5>1
      <4> QED BY <1>1, <1>4, <2>2, <3>2, <4>1, <4>2
    <3>3. CASE k # 0
      <4>1. k \in 1..n /\ k + 1 - 1 = k /\ k + 1 # 1
        BY <1>1, <3>0, <3>3
      <4> DEFINE m == k + 1
      <4>2. m \in 1..n /\ m # 1 /\ m - 1 = k
        BY <2>2, <4>1
      <4> HIDE DEF m
      <4>3. Flat(seqs)[m] = Flat(seqs)[m - 1] \o seqs[m]
        BY <1>8, <4>2
      <4>4. Flat(seqs)[k + 1] = Flat(seqs)[k] \o seqs[k + 1]
        BY <4>2, <4>3 DEF m
      <4> QED BY <2>2, <3>1, <4>1, <4>4
    <3> QED BY <3>2, <3>3
  <2>3. \A k \in Nat : k \in S => k + 1 \in S
    BY <2>2
  <2> HIDE DEF S
  <2> QED BY <2>1, <2>3, NatInd
<1>10. FlattenSeq(seqs) = IF n = 0 THEN seqs ELSE Flat(seqs)[n]
  BY DEF FlattenSeq, Flat
<1>11. FlattenSeq(seqs) = g[n]
  <2>1. CASE n = 0
    BY <1>4, <1>10, <2>1
  <2>2. CASE n # 0
    <3>1. n \in Nat /\ n \in 1..n
      BY <1>1, <2>2
    <3> QED BY <1>9, <1>10, <2>2, <3>1
  <2> QED BY <2>1, <2>2
<1> QED BY <1>4, <1>5, <1>11

LEMMA FlattenEmpty == FlattenSeq(<<>>) = <<>>
BY DEF FlattenSeq

LEMMA FlattenType ==
    ASSUME NEW T, NEW seqs \in Seq(Seq(T)) PROVE FlattenSeq(seqs) \in Seq(T)
<1>1. PICK g \in [0..Len(seqs) -> Seq(T)] : FlattenSeq(seqs) = g[Len(seqs)]
  BY FlattenByPrefix
<1>2. Len(seqs) \in 0..Len(seqs)
  OBVIOUS
<1> QED BY <1>1, <1>2

LEMMA FlattenAppend ==
    ASSUME NEW T, NEW seqs \in Seq(Seq(T)), NEW s \in Seq(T)
    PROVE  FlattenSeq(Append(seqs, s)) = FlattenSeq(seqs) \o s
<1> DEFINE more == Append(seqs, s)
           n == Len(seqs)
<1>1. more \in Seq(Seq(T)) /\ Len(more) = n + 1 /\ n \in Nat
  OBVIOUS
<1>2. more[n + 1] = s /\ \A k \in 1..n : more[k] = seqs[k]
  OBVIOUS
<1>3. PICK g \in [0..n -> Seq(T)] :
        /\ g[0] = <<>>
        /\ \A k \in 0..n - 1 : g[k + 1] = g[k] \o seqs[k + 1]
        /\ FlattenSeq(seqs) = g[n]
  BY FlattenByPrefix
<1> HIDE DEF more
<1>4. PICK h \in [0..Len(more) -> Seq(T)] :
        /\ h[0] = <<>>
        /\ \A k \in 0..Len(more) - 1 : h[k + 1] = h[k] \o more[k + 1]
        /\ FlattenSeq(more) = h[Len(more)]
  BY <1>1, FlattenByPrefix
<1>5. ASSUME NEW k \in 0..n PROVE h[k + 1] = h[k] \o more[k + 1]
  <2>1. k \in 0..Len(more) - 1
    BY <1>1
  <2> QED BY <1>4, <2>1
<1> DEFINE S == {k \in Nat : k <= n => h[k] = g[k]}
<1>6. 0 \in S
  BY <1>3, <1>4
<1>7. ASSUME NEW k \in Nat, k \in S, k + 1 <= n PROVE h[k + 1] = g[k + 1]
  <2>1. k \in 0..n - 1 /\ k \in 0..n /\ k + 1 \in 1..n
    BY <1>1, <1>7
  <2>2. h[k] = g[k]
    BY <1>1, <1>7
  <2> QED BY <1>2, <1>3, <1>5, <2>1, <2>2
<1>8. \A k \in Nat : k \in S
  <2>1. \A k \in Nat : k \in S => k + 1 \in S
    BY <1>7
  <2> HIDE DEF S
  <2> QED BY <1>6, <2>1, NatInd
<1>9. h[n] = g[n]
  BY <1>1, <1>8
<1>10. h[n + 1] = h[n] \o more[n + 1]
  <2>1. n \in 0..n
    BY <1>1
  <2> QED BY <1>5, <2>1
<1> QED BY <1>1, <1>2, <1>3, <1>4, <1>9, <1>10 DEF more
LEMMA RangeAppend ==
    ASSUME NEW X, NEW t \in Seq(X), NEW x \in X
    PROVE  Range(Append(t, x)) = Range(t) \cup {x}
<1> DEFINE more == Append(t, x)
           n == Len(t)
<1>1. n \in Nat /\ DOMAIN t = 1..n /\ DOMAIN more = 1..n + 1
  OBVIOUS
<1>2. \A i \in 1..n : more[i] = t[i]
  OBVIOUS
<1>3. more[n + 1] = x
  OBVIOUS
<1> HIDE DEF more, n
<1>4. ASSUME NEW y \in Range(more) PROVE y \in Range(t) \cup {x}
  BY <1>1, <1>2, <1>3 DEF Range
<1>5. ASSUME NEW y \in Range(t) PROVE y \in Range(more)
  <2>1. PICK i \in 1..n : y = t[i]
    BY <1>1 DEF Range
  <2>2. i \in DOMAIN more /\ more[i] = y
    BY <1>1, <1>2, <2>1
  <2> QED BY <2>2 DEF Range
<1>6. x \in Range(more)
  <2>1. n + 1 \in DOMAIN more
    BY <1>1
  <2> QED BY <1>3, <2>1 DEF Range
<1> QED BY <1>4, <1>5, <1>6 DEF more

\* What Those keeps: the elements in the set, in the order of the list.
One(x, set) == IF x \in set THEN <<x>> ELSE <<>>
LEMMA ThoseEmpty == ASSUME NEW set PROVE Those(<<>>, set) = <<>>
<1>1. [i \in DOMAIN <<>> |-> IF <<>>[i] \in set THEN << <<>>[i]>> ELSE <<>>] = <<>>
  OBVIOUS
<1> QED BY <1>1, FlattenEmpty DEF Those

LEMMA ThoseAppend ==
    ASSUME NEW X, NEW set, NEW list \in Seq(X), NEW x \in X
    PROVE  Those(Append(list, x), set) = Those(list, set) \o One(x, set)
<1> DEFINE parts == [i \in DOMAIN list |-> One(list[i], set)]
           more == Append(list, x)
           last == One(x, set)
<1>1. \A y \in X : One(y, set) \in Seq(X)
  BY DEF One
<1>2. parts \in Seq(Seq(X)) /\ last \in Seq(X)
  <2>1. \A i \in DOMAIN list : list[i] \in X /\ One(list[i], set) \in Seq(X)
    BY <1>1
  <2>2. Len(list) \in Nat /\ DOMAIN list = 1..Len(list)
    OBVIOUS
  <2> QED BY <1>1, <2>1, <2>2
<1>3. [i \in DOMAIN more |-> One(more[i], set)] = Append(parts, last)
  <2>1. DOMAIN more = 1..Len(list) + 1 /\ DOMAIN list = 1..Len(list)
        /\ Len(parts) = Len(list) /\ Len(list) \in Nat
    OBVIOUS
  <2>2. \A i \in 1..Len(list) : more[i] = list[i]
    OBVIOUS
  <2>3. more[Len(list) + 1] = x
    OBVIOUS
  <2>4. DOMAIN Append(parts, last) = 1..Len(list) + 1
    BY <1>2, <2>1
  <2>5. \A i \in 1..Len(list) : Append(parts, last)[i] = parts[i]
    BY <1>2, <2>1
  <2>6. Append(parts, last)[Len(list) + 1] = last
    BY <1>2, <2>1
  <2>7. Append(parts, last) = [i \in 1..Len(list) + 1 |-> Append(parts, last)[i]]
    BY <1>2, <2>4
  <2> HIDE DEF more, last
  <2>8. \A i \in 1..Len(list) + 1 : Append(parts, last)[i] = One(more[i], set)
    BY <2>1, <2>2, <2>3, <2>5, <2>6 DEF last
  <2> HIDE DEF parts
  <2> QED BY <2>1, <2>7, <2>8
<1>4. FlattenSeq(Append(parts, last)) = FlattenSeq(parts) \o last
  <2> HIDE DEF parts, last
  <2> QED BY <1>2, FlattenAppend
<1>5. Those(more, set) = FlattenSeq(Append(parts, last)) /\ Those(list, set) = FlattenSeq(parts)
  BY <1>3 DEF Those, One
<1> QED BY <1>4, <1>5

LEMMA ThoseType ==
    ASSUME NEW X, NEW set, NEW list \in Seq(X)
    PROVE  Those(list, set) \in Seq(X) /\ Range(Those(list, set)) = Range(list) \cap set
<1> DEFINE S == {t \in Seq(X) : /\ Those(t, set) \in Seq(X)
                                /\ Range(Those(t, set)) = Range(t) \cap set}
<1>1. <<>> \in S
  <2>1. Range(<<>>) = {}
    BY DEF Range
  <2>2. Those(<<>>, set) = <<>> /\ <<>> \in Seq(X)
    BY ThoseEmpty
  <2>3. Range(Those(<<>>, set)) = Range(<<>>) \cap set
    BY <2>1, <2>2
  <2> QED BY <2>2, <2>3
<1>2. ASSUME NEW t \in Seq(X), NEW x \in X, t \in S PROVE Append(t, x) \in S
  <2>1. Those(Append(t, x), set) = Those(t, set) \o One(x, set)
    BY ThoseAppend
  <2>2. Range(Append(t, x)) = Range(t) \cup {x}
    BY RangeAppend
  <2>3. CASE x \in set
    <3>1. Those(t, set) \o One(x, set) = Append(Those(t, set), x)
      BY <1>2, <2>3 DEF One
    <3>2. Range(Append(Those(t, set), x)) = Range(Those(t, set)) \cup {x}
      BY <1>2, RangeAppend
    <3>3. Append(Those(t, set), x) \in Seq(X) /\ Append(t, x) \in Seq(X)
      BY <1>2
    <3>4. Range(Those(Append(t, x), set)) = Range(Append(t, x)) \cap set
      BY <1>2, <2>1, <2>2, <2>3, <3>1, <3>2
    <3> QED BY <2>1, <3>1, <3>3, <3>4
  <2>4. CASE x \notin set
    <3>1. Those(t, set) \o One(x, set) = Those(t, set)
      BY <1>2, <2>4 DEF One
    <3> QED BY <1>2, <2>1, <2>2, <2>4, <3>1
  <2> QED BY <2>3, <2>4
<1>3. \A t \in Seq(X) : t \in S
  <2> HIDE DEF S
  <2> QED BY <1>1, <1>2, SeqInd
<1> QED BY <1>3

LEMMA ThoseHead ==
    ASSUME NEW X, NEW set, NEW list \in Seq(X), list # <<>>, list[1] \in set
    PROVE  1 \in DOMAIN Those(list, set) /\ Those(list, set)[1] = list[1]
<1> DEFINE S == {t \in Seq(X) : t # <<>> /\ t[1] \in set =>
                    1 \in DOMAIN Those(t, set) /\ Those(t, set)[1] = t[1]}
<1>1. <<>> \in S
  OBVIOUS
<1>2. ASSUME NEW t \in Seq(X), NEW x \in X, t \in S, Append(t, x)[1] \in set
      PROVE  /\ 1 \in DOMAIN Those(Append(t, x), set)
             /\ Those(Append(t, x), set)[1] = Append(t, x)[1]
  <2>1. Those(Append(t, x), set) = Those(t, set) \o One(x, set)
    BY ThoseAppend
  <2>2. Those(t, set) \in Seq(X) /\ One(x, set) \in Seq(X)
    BY ThoseType DEF One
  <2>3. CASE t = <<>>
    <3>1. Append(t, x)[1] = x
      BY <2>3
    <3>2. Those(t, set) = <<>> /\ One(x, set) = <<x>>
      BY <1>2, <2>3, <3>1, ThoseEmpty DEF One
    <3>3. Those(Append(t, x), set) = <<x>>
      BY <2>1, <3>2
    <3> QED BY <3>1, <3>3
  <2>4. CASE t # <<>>
    <3>1. Append(t, x)[1] = t[1]
      BY <2>4
    <3>2. 1 \in DOMAIN Those(t, set) /\ Those(t, set)[1] = t[1]
      BY <1>2, <2>4, <3>1
    <3> QED BY <2>1, <2>2, <3>1, <3>2
  <2> QED BY <2>3, <2>4
<1>3. ASSUME NEW t \in Seq(X), NEW x \in X, t \in S PROVE Append(t, x) \in S
  <2>1. Append(t, x) \in Seq(X)
    OBVIOUS
  <2> QED BY <1>2, <1>3, <2>1
<1>4. \A t \in Seq(X) : t \in S
  <2> HIDE DEF S
  <2> QED BY <1>1, <1>3, SeqInd
<1> QED BY <1>4

\* Max and the set before it, of the sets 1..k by which FoldLeft recurs.
LEMMA MaxOfPrefix ==
    ASSUME NEW k \in Nat
    PROVE  Max(1..k + 1) = k + 1 /\ (1..k + 1) \ {k + 1} = 1..k /\ 1..k + 1 # {}
<1>1. k + 1 \in 1..k + 1
  OBVIOUS
<1>2. Max(1..k + 1) \in 1..k + 1 /\ \A y \in 1..k + 1 : Max(1..k + 1) >= y
  <2> DEFINE S == 1..k + 1
             n == k + 1
  <2>1. n \in Nat /\ S \in SUBSET (1..n) /\ S # {}
    BY <1>1
  <2> HIDE DEF S, n
  <2>2. Max(S) \in S /\ \A y \in S : Max(S) >= y
    BY <2>1, MaxOfInterval
  <2> QED BY <2>2 DEF S
<1>3. Max(1..k + 1) = k + 1
  BY <1>1, <1>2
<1>4. (1..k + 1) \ {k + 1} = 1..k
  OBVIOUS
<1> QED BY <1>1, <1>3, <1>4

\* A function over the subsets of 1..n can be defined from its value for the set
\* without the greatest element, as FoldLeft does.
SetRecursions(S, b, n, step) ==
    {f \in [SUBSET (1..n) -> S] :
        \A s \in SUBSET (1..n) :
            f[s] = IF s = {} THEN b ELSE step[<<Max(s), f[s \ {Max(s)}]>>]}
LEMMA SetRecursionExists ==
    ASSUME NEW S, NEW b \in S, NEW n \in Nat, NEW step \in [(1..n) \X S -> S]
    PROVE  SetRecursions(S, b, n, step) # {}
<1> DEFINE P == {m \in Nat : m <= n => SetRecursions(S, b, m, step) # {}}
<1>1. 0 \in P
  <2> DEFINE f == [s \in SUBSET (1..0) |-> b]
  <2>1. \A s \in SUBSET (1..0) : s = {}
    OBVIOUS
  <2>2. f \in SetRecursions(S, b, 0, step)
    BY <2>1 DEF SetRecursions
  <2> QED BY <2>2
<1>2. ASSUME NEW m \in Nat, m \in P PROVE m + 1 \in P
  <2>1. SUFFICES ASSUME m + 1 <= n PROVE SetRecursions(S, b, m + 1, step) # {}
    OBVIOUS
  <2>2. PICK g \in SetRecursions(S, b, m, step) : TRUE
    BY <1>2, <2>1
  <2>3. /\ g \in [SUBSET (1..m) -> S]
        /\ \A s \in SUBSET (1..m) :
              g[s] = IF s = {} THEN b ELSE step[<<Max(s), g[s \ {Max(s)}]>>]
    BY <2>2 DEF SetRecursions
  <2> DEFINE D == SUBSET (1..m + 1)
             f == [s \in D |-> IF m + 1 \in s THEN step[<<m + 1, g[s \ {m + 1}]>>] ELSE g[s]]
  <2>4. ASSUME NEW s \in D
        PROVE  /\ s \ {m + 1} \in SUBSET (1..m)
               /\ m + 1 \notin s => s \in SUBSET (1..m)
    OBVIOUS
  <2>5. f \in [D -> S]
    <3>1. ASSUME NEW s \in D
          PROVE  (IF m + 1 \in s THEN step[<<m + 1, g[s \ {m + 1}]>>] ELSE g[s]) \in S
      <4>1. g[s \ {m + 1}] \in S /\ m + 1 \in 1..n
        BY <2>1, <2>3, <2>4
      <4>2. step[<<m + 1, g[s \ {m + 1}]>>] \in S
        BY <4>1
      <4> QED BY <2>3, <2>4, <4>2
    <3> QED BY <3>1
  <2>6. ASSUME NEW s \in D
        PROVE  f[s] = IF s = {} THEN b ELSE step[<<Max(s), f[s \ {Max(s)}]>>]
    <3>1. CASE m + 1 \in s
      <4>1. Max(s) \in s /\ \A y \in s : Max(s) >= y
        BY <3>1, MaxOfInterval, m + 1 \in Nat
      <4>2. Max(s) = m + 1
        <5>1. Max(s) \in 1..m + 1 /\ Max(s) >= m + 1
          BY <3>1, <4>1
        <5> QED BY <5>1
      <4>3. s \ {m + 1} \in D /\ m + 1 \notin s \ {m + 1}
        BY <2>4
      <4>4. f[s \ {m + 1}] = g[s \ {m + 1}]
        BY <4>3
      <4> QED BY <3>1, <4>2, <4>4
    <3>2. CASE m + 1 \notin s
      <4>1. s \in SUBSET (1..m) /\ f[s] = g[s]
        BY <2>4, <3>2
      <4>2. CASE s = {}
        BY <2>3, <4>1, <4>2
      <4>3. CASE s # {}
        <5>1. s \ {Max(s)} \in SUBSET (1..m) /\ s \ {Max(s)} \in D /\ m + 1 \notin s \ {Max(s)}
          BY <3>2, <4>1
        <5>2. f[s \ {Max(s)}] = g[s \ {Max(s)}]
          BY <5>1
        <5> QED BY <2>3, <4>1, <4>3, <5>2
      <4> QED BY <4>2, <4>3
    <3> QED BY <3>1, <3>2
  <2> HIDE DEF f
  <2>7. f \in SetRecursions(S, b, m + 1, step)
    BY <2>5, <2>6 DEF SetRecursions
  <2> QED BY <2>7
<1>3. n \in P
  <2> HIDE DEF P
  <2> QED BY <1>1, <1>2, NatInd
<1> QED BY <1>3
\* When is a function a sequence, and what is a longer one?
LEMMA SequenceFrom ==
    ASSUME NEW Y, NEW n \in Nat, NEW f, f = [i \in 1..n |-> f[i]], \A i \in 1..n : f[i] \in Y
    PROVE  f \in Seq(Y) /\ Len(f) = n /\ DOMAIN f = 1..n
<1>1. f \in [1..n -> Y]
  OBVIOUS
<1> QED BY <1>1
LEMMA LongerSequence ==
    ASSUME NEW Y, NEW t \in Seq(Y), NEW y \in Y
    PROVE  Append(t, y) = [i \in 1..Len(t) + 1 |-> IF i = Len(t) + 1 THEN y ELSE t[i]]
<1> DEFINE new == Append(t, y)
<1>1. /\ new \in Seq(Y) /\ Len(new) = Len(t) + 1
      /\ \A i \in 1..Len(t) + 1 : new[i] = IF i = Len(t) + 1 THEN y ELSE t[i]
  OBVIOUS
<1> HIDE DEF new
<1>2. new = [i \in 1..Len(t) + 1 |-> new[i]]
  BY <1>1
<1>3. new = [i \in 1..Len(t) + 1 |-> IF i = Len(t) + 1 THEN y ELSE t[i]]
  BY <1>1, <1>2
<1> QED BY <1>3 DEF new

LEMMA ElementsOf ==
    ASSUME NEW X, NEW l \in Seq(X)
    PROVE  /\ Len(l) \in Nat /\ DOMAIN l = 1..Len(l)
           /\ \A i \in DOMAIN l : l[i] \in X
           /\ l # <<>> => Head(l) \in X
OBVIOUS

LEMMA JoinAppend ==
    ASSUME NEW X, NEW s \in Seq(X), NEW t \in Seq(X), NEW x \in X
    PROVE  s \o Append(t, x) = Append(s \o t, x) /\ s \o t \in Seq(X) /\ s \o <<>> = s
OBVIOUS

LEMMA ListOf == ASSUME NEW X, NEW l \in Seq(X) PROVE IsList(l)
BY DEF IsList, Range

-----------------------------------------------------------------------------
(* Ranks in an order *)

Before(S, R, x) == {y \in S : <<y, x>> \in R}
RankIn(S, R, x) == Cardinality(Before(S, R, x))
IsOrder(S, R) ==
    /\ \A x \in S : <<x, x>> \notin R
    /\ \A x, y, z \in S : <<x, y>> \in R /\ <<y, z>> \in R => <<x, z>> \in R
    /\ \A x, y \in S : x # y => <<x, y>> \in R \/ <<y, x>> \in R

\* Of two elements, the first has the lower rank; no rank reaches the number of all.
LEMMA RankGrows ==
    ASSUME NEW S, IsFiniteSet(S), NEW R, IsOrder(S, R)
    PROVE  /\ \A x \in S : RankIn(S, R, x) \in 0..Cardinality(S) - 1
           /\ \A x, y \in S : <<x, y>> \in R => RankIn(S, R, x) < RankIn(S, R, y)
<1> DEFINE n == Cardinality(S)
<1>1. n \in Nat
  BY FS_CardinalityType
<1>2. ASSUME NEW x \in S
      PROVE  /\ IsFiniteSet(Before(S, R, x)) /\ RankIn(S, R, x) \in 0..n - 1
  <2>1. Before(S, R, x) \in SUBSET (S \ {x})
    BY DEF IsOrder, Before
  <2>2. IsFiniteSet(S \ {x}) /\ Cardinality(S \ {x}) = n - 1
    BY FS_RemoveElement
  <2>3. IsFiniteSet(Before(S, R, x)) /\ Cardinality(Before(S, R, x)) <= Cardinality(S \ {x})
    BY <2>1, <2>2, FS_Subset
  <2>4. Cardinality(Before(S, R, x)) \in Nat
    BY <2>3, FS_CardinalityType
  <2> HIDE DEF n
  <2> QED BY <1>1, <2>2, <2>3, <2>4 DEF RankIn
<1>3. ASSUME NEW x \in S, NEW y \in S, <<x, y>> \in R PROVE RankIn(S, R, x) < RankIn(S, R, y)
  <2> DEFINE A == Before(S, R, x)
             B == Before(S, R, y)
  <2>1. A \in SUBSET B /\ x \in B /\ x \notin A
    BY <1>3 DEF IsOrder, Before
  <2>2. IsFiniteSet(B)
    BY <1>2
  <2>5. RankIn(S, R, x) \in Nat /\ RankIn(S, R, y) \in Nat
    BY <1>1, <1>2
  <2>3. Cardinality(A) = RankIn(S, R, x) /\ Cardinality(B) = RankIn(S, R, y)
    BY DEF RankIn
  <2> HIDE DEF A, B
  <2>4. Cardinality(A) <= Cardinality(B) /\ (Cardinality(B) = Cardinality(A) => B = A)
    BY <2>1, <2>2, FS_Subset
  <2> QED BY <2>1, <2>3, <2>4, <2>5
<1> QED BY <1>2, <1>3

\* Every rank below the number of elements is that of one element.
LEMMA Ranks ==
    ASSUME NEW S, IsFiniteSet(S), NEW R, IsOrder(S, R)
    PROVE  /\ \A x \in S : RankIn(S, R, x) \in 0..Cardinality(S) - 1
           /\ \A x, y \in S : RankIn(S, R, x) = RankIn(S, R, y) => x = y
           /\ \A k \in 0..Cardinality(S) - 1 : \E x \in S : RankIn(S, R, x) = k
<1> DEFINE n == Cardinality(S)
           f == [x \in S |-> RankIn(S, R, x)]
<1>1. n \in Nat
  BY FS_CardinalityType
<1>2. \A x \in S : RankIn(S, R, x) \in 0..n - 1
  BY RankGrows
<1>3. \A x, y \in S : <<x, y>> \in R => RankIn(S, R, x) < RankIn(S, R, y)
  BY RankGrows
<1>4. ASSUME NEW x \in S, NEW y \in S, RankIn(S, R, x) = RankIn(S, R, y) PROVE x = y
  <2> SUFFICES ASSUME x # y PROVE FALSE
    OBVIOUS
  <2>1. RankIn(S, R, x) \in Nat /\ RankIn(S, R, y) \in Nat
    BY <1>1, <1>2
  <2>2. <<x, y>> \in R \/ <<y, x>> \in R
    BY DEF IsOrder
  <2> QED BY <1>3, <1>4, <2>1, <2>2
<1> DEFINE T == 0..n - 1
<1>5. IsFiniteSet(T) /\ Cardinality(T) = n
  <2> HIDE DEF n
  <2> QED BY <1>1, FS_Interval
<1>6. f \in [S -> T] /\ \A x \in S : f[x] = RankIn(S, R, x)
  BY <1>2
<1> HIDE DEF f, T
<1>7. f \in Injection(S, T)
  BY <1>4, <1>6 DEF Injection, IsInjective
<1>8. f \in Surjection(S, T)
  BY <1>5, <1>7, FS_Injection
<1>9. \A k \in T : \E x \in S : f[x] = k
  BY <1>8 DEF Surjection
<1> QED BY <1>2, <1>4, <1>6, <1>9 DEF T

-----------------------------------------------------------------------------
(* The elements of a list at some places *)

Taken(x, i, places) == IF i \in places THEN <<x>> ELSE <<>>

LEMMA ElementsAtEmpty == ASSUME NEW places PROVE ElementsAt(<<>>, places) = <<>>
<1>1. [i \in DOMAIN <<>> |-> IF i \in places THEN << <<>>[i] >> ELSE <<>>] = <<>>
  OBVIOUS
<1> QED BY <1>1, FlattenEmpty DEF ElementsAt

LEMMA ElementsAtAppend ==
    ASSUME NEW X, NEW places, NEW list \in Seq(X), NEW x \in X
    PROVE  ElementsAt(Append(list, x), places)
             = ElementsAt(list, places) \o Taken(x, Len(list) + 1, places)
<1> DEFINE parts == [i \in DOMAIN list |-> Taken(list[i], i, places)]
           more == [i \in DOMAIN Append(list, x) |-> Taken(Append(list, x)[i], i, places)]
           last == Taken(x, Len(list) + 1, places)
<1>1. parts \in Seq(Seq(X)) /\ last \in Seq(X) /\ Len(parts) = Len(list)
  <2>1. \A i \in DOMAIN list : Taken(list[i], i, places) \in Seq(X)
    BY DEF Taken
  <2>2. Len(list) \in Nat /\ DOMAIN list = 1..Len(list)
    OBVIOUS
  <2>3. parts = [i \in 1..Len(list) |-> parts[i]] /\ \A i \in 1..Len(list) : parts[i] \in Seq(X)
    BY <2>1, <2>2
  <2>4. last \in Seq(X)
    BY DEF Taken
  <2> HIDE DEF parts
  <2> QED BY <2>2, <2>3, <2>4, SequenceFrom
<1>2. more = Append(parts, last)
  <2>1. Append(parts, last) = [i \in 1..Len(parts) + 1 |->
                                 IF i = Len(parts) + 1 THEN last ELSE parts[i]]
    <3> HIDE DEF parts, last
    <3> QED BY <1>1, LongerSequence
  <2>2. DOMAIN Append(list, x) = 1..Len(list) + 1
    OBVIOUS
  <2>3. ASSUME NEW i \in 1..Len(list) + 1
        PROVE  Taken(Append(list, x)[i], i, places)
                 = IF i = Len(list) + 1 THEN last ELSE parts[i]
    <3>1. Append(list, x)[i] = IF i = Len(list) + 1 THEN x ELSE list[i]
      BY LongerSequence
    <3>2. CASE i = Len(list) + 1
      BY <3>1, <3>2
    <3>3. CASE i # Len(list) + 1
      <4>1. i \in DOMAIN list
        BY <3>3
      <4> QED BY <3>1, <3>3, <4>1
    <3> QED BY <3>2, <3>3
  <2> HIDE DEF last, parts
  <2> QED BY <1>1, <2>1, <2>2, <2>3
<1>3. FlattenSeq(Append(parts, last)) = FlattenSeq(parts) \o last
  <2> HIDE DEF parts, last
  <2> QED BY <1>1, FlattenAppend
<1>4. ElementsAt(list, places) = FlattenSeq(parts)
  BY DEF ElementsAt, Taken
<1>5. ElementsAt(Append(list, x), places) = FlattenSeq(more)
  BY DEF ElementsAt, Taken
<1> HIDE DEF last, parts, more
<1> QED BY <1>2, <1>3, <1>4, <1>5 DEF last

LEMMA ElementsAtType ==
    ASSUME NEW X, NEW places, NEW list \in Seq(X)
    PROVE  ElementsAt(list, places) \in Seq(X)
<1> DEFINE parts == [i \in 1..Len(list) |-> Taken(list[i], i, places)]
<1>1. DOMAIN list = 1..Len(list) /\ Len(list) \in Nat
  OBVIOUS
<1>2. parts \in Seq(Seq(X))
  <2>1. parts = [i \in 1..Len(list) |-> parts[i]] /\ \A i \in 1..Len(list) : parts[i] \in Seq(X)
    BY <1>1 DEF Taken
  <2> HIDE DEF parts
  <2> QED BY <1>1, <2>1, SequenceFrom
<1>3. ElementsAt(list, places) = FlattenSeq(parts)
  BY <1>1 DEF ElementsAt, Taken
<1> HIDE DEF parts
<1> QED BY <1>2, <1>3, FlattenType

\* Only places of the list count; all of them are the list.
LEMMA SamePlaces ==
    ASSUME NEW list, NEW p, NEW q, \A i \in DOMAIN list : i \in p <=> i \in q
    PROVE  ElementsAt(list, p) = ElementsAt(list, q)
<1>1. \A i \in DOMAIN list : (IF i \in p THEN <<list[i]>> ELSE <<>>)
                               = (IF i \in q THEN <<list[i]>> ELSE <<>>)
  OBVIOUS
<1> QED BY <1>1 DEF ElementsAt

LEMMA NoPlaces == ASSUME NEW X, NEW list \in Seq(X) PROVE ElementsAt(list, {}) = <<>>
<1> DEFINE S == {t \in Seq(X) : ElementsAt(t, {}) = <<>>}
<1>1. <<>> \in S
  BY ElementsAtEmpty
<1>2. ASSUME NEW t \in Seq(X), NEW x \in X, t \in S PROVE Append(t, x) \in S
  <2> DEFINE none == {}
             more == Append(t, x)
  <2> HIDE DEF none, more
  <2>1. ElementsAt(more, none) = ElementsAt(t, none) \o Taken(x, Len(t) + 1, none)
    BY ElementsAtAppend DEF more
  <2>2. Taken(x, Len(t) + 1, none) = <<>> /\ ElementsAt(t, none) = <<>> /\ <<>> \o <<>> = <<>>
    BY <1>2 DEF Taken, none
  <2>3. more \in Seq(X)
    BY DEF more
  <2> QED BY <2>1, <2>2, <2>3 DEF more, none
<1>3. list \in S
  <2> HIDE DEF S
  <2> QED BY <1>1, <1>2, SeqInd
<1> QED BY <1>3

LEMMA AllPlaces ==
    ASSUME NEW X, NEW places, NEW list \in Seq(X), DOMAIN list \subseteq places
    PROVE  ElementsAt(list, places) = list
<1> DEFINE S == {t \in Seq(X) : ElementsAt(t, DOMAIN t) = t}
<1>1. <<>> \in S
  BY ElementsAtEmpty
<1>2. ASSUME NEW t \in Seq(X), NEW x \in X, t \in S PROVE Append(t, x) \in S
  <2> DEFINE more == Append(t, x)
  <2>1. more \in Seq(X) /\ DOMAIN more = 1..Len(t) + 1 /\ Len(t) \in Nat /\ DOMAIN t = 1..Len(t)
    OBVIOUS
  <2> HIDE DEF more
  <2>2. ElementsAt(t, DOMAIN more) = ElementsAt(t, DOMAIN t)
    BY <2>1, SamePlaces
  <2>3. Taken(x, Len(t) + 1, DOMAIN more) = <<x>>
    BY <2>1 DEF Taken
  <2>4. ElementsAt(more, DOMAIN more) = t \o <<x>>
    <3> DEFINE d == DOMAIN more
    <3> HIDE DEF d
    <3>1. ElementsAt(more, d) = ElementsAt(t, d) \o Taken(x, Len(t) + 1, d)
      BY ElementsAtAppend DEF more
    <3> QED BY <1>2, <2>2, <2>3, <3>1 DEF d
  <2>5. t \o <<x>> = more
    BY DEF more
  <2>6. more \in S
    BY <2>1, <2>4, <2>5
  <2> QED BY <2>6 DEF more
<1>3. list \in S
  <2> HIDE DEF S
  <2> QED BY <1>1, <1>2, SeqInd
<1>4. ElementsAt(list, places) = ElementsAt(list, DOMAIN list)
  BY SamePlaces
<1> QED BY <1>3, <1>4

LEMMA JoinedType ==
    ASSUME NEW X, NEW t \in Seq(X), NEW u \in Seq(X)
    PROVE  t \o u \in Seq(X) /\ Len(t \o u) = Len(t) + Len(u)
OBVIOUS
LEMMA ListIs == ASSUME NEW X, NEW t \in Seq(X) PROVE t = [i \in 1..Len(t) |-> t[i]]
OBVIOUS

\* A list without one of its elements.
LEMMA RemovedElement ==
    ASSUME NEW X, NEW t \in Seq(X), NEW p \in 1..Len(t)
    PROVE  /\ RemoveAt(t, p) \in Seq(X)
           /\ RemoveAt(t, p) = [i \in 1..Len(t) - 1 |-> IF i < p THEN t[i] ELSE t[i + 1]]
<1> DEFINE a == SubSeq(t, 1, p - 1)
           b == SubSeq(t, p + 1, Len(t))
<1>1. a \in Seq(X) /\ Len(a) = p - 1 /\ \A i \in 1..p - 1 : a[i] = t[i]
  OBVIOUS
<1>2. b \in Seq(X) /\ Len(b) = Len(t) - p /\ \A i \in 1..Len(t) - p : b[i] = t[i + p]
  OBVIOUS
<1>3. Len(t) \in Nat
  OBVIOUS
<1> HIDE DEF a, b
<1>4. a \o b \in Seq(X) /\ Len(a \o b) = Len(t) - 1
  <2>1. a \in Seq(X) /\ b \in Seq(X)
    BY <1>1, <1>2
  <2>2. a \o b \in Seq(X) /\ Len(a \o b) = Len(a) + Len(b)
    BY <2>1, JoinedType
  <2> QED BY <1>1, <1>2, <1>3, <2>2
<1>5. ASSUME NEW i \in 1..Len(t) - 1 PROVE (a \o b)[i] = IF i < p THEN t[i] ELSE t[i + 1]
  <2>1. CASE i < p
    BY <1>1, <1>2, <2>1
  <2>2. CASE ~ (i < p)
    <3>1. (a \o b)[i] = b[i - (p - 1)] /\ i - (p - 1) \in 1..Len(t) - p
      BY <1>1, <1>2, <1>3, <2>2
    <3>2. i - (p - 1) + p = i + 1
      OBVIOUS
    <3> QED BY <1>2, <2>2, <3>1, <3>2
  <2> QED BY <2>1, <2>2
<1> DEFINE c == a \o b
<1>6. c = [i \in 1..Len(t) - 1 |-> c[i]]
  <2> HIDE DEF c
  <2>1. c \in Seq(X) /\ Len(c) = Len(t) - 1
    BY <1>4 DEF c
  <2> QED BY <2>1, ListIs
<1>7. RemoveAt(t, p) = c
  BY DEF RemoveAt, a, b
<1> HIDE DEF c
<1>8. c = [i \in 1..Len(t) - 1 |-> IF i < p THEN t[i] ELSE t[i + 1]]
  BY <1>5, <1>6 DEF c
<1> QED BY <1>4, <1>7, <1>8 DEF c

LEMMA RemovedLast ==
    ASSUME NEW X, NEW t \in Seq(X), NEW x \in X
    PROVE  RemoveAt(Append(t, x), Len(t) + 1) = t
<1> DEFINE more == Append(t, x)
           less == RemoveAt(more, Len(t) + 1)
<1>1. /\ more \in Seq(X) /\ Len(more) = Len(t) + 1 /\ Len(t) \in Nat
      /\ \A i \in 1..Len(t) : more[i] = t[i]
  OBVIOUS
<1> HIDE DEF more
<1>2. less = [i \in 1..Len(more) - 1 |-> IF i < Len(t) + 1 THEN more[i] ELSE more[i + 1]]
  <2>1. Len(t) + 1 \in 1..Len(more)
    BY <1>1
  <2> QED BY <1>1, <2>1, RemovedElement
<1>3. Len(more) - 1 = Len(t)
  BY <1>1
<1>4. less = [i \in 1..Len(t) |-> t[i]]
  BY <1>1, <1>2, <1>3
<1> HIDE DEF less
<1>5. t = [i \in 1..Len(t) |-> t[i]]
  OBVIOUS
<1> QED BY <1>4, <1>5 DEF less, more

LEMMA RemovedFirst ==
    ASSUME NEW X, NEW t \in Seq(X), NEW u \in Seq(X), NEW p \in 1..Len(t)
    PROVE  RemoveAt(t \o u, p) = RemoveAt(t, p) \o u
<1> DEFINE all == t \o u
           less == RemoveAt(t, p)
           left == less \o u
           n == Len(t) + Len(u)
<1>1. /\ all \in Seq(X) /\ Len(all) = n /\ Len(t) \in Nat /\ Len(u) \in Nat
      /\ \A i \in 1..n : all[i] = IF i <= Len(t) THEN t[i] ELSE u[i - Len(t)]
  OBVIOUS
<1> HIDE DEF all
<1>2. RemoveAt(all, p) = [i \in 1..Len(all) - 1 |-> IF i < p THEN all[i] ELSE all[i + 1]]
  <2>1. p \in 1..Len(all)
    BY <1>1
  <2> QED BY <1>1, <2>1, RemovedElement
<1>3. less \in Seq(X) /\ less = [i \in 1..Len(t) - 1 |-> IF i < p THEN t[i] ELSE t[i + 1]]
  BY RemovedElement
<1> HIDE DEF less
<1>4. Len(less) = Len(t) - 1 /\ \A i \in 1..Len(t) - 1 : less[i] = IF i < p THEN t[i] ELSE t[i + 1]
  <2>1. Len(t) - 1 \in Nat
    BY <1>1
  <2> QED BY <1>3, <2>1
<1>5. /\ left \in Seq(X) /\ Len(left) = n - 1
      /\ \A i \in 1..n - 1 : left[i] = IF i <= Len(t) - 1 THEN less[i] ELSE u[i - (Len(t) - 1)]
  BY <1>1, <1>3, <1>4
<1>6. left = [i \in 1..n - 1 |-> left[i]]
  <2> HIDE DEF left, n
  <2> QED BY <1>5, ListIs
<1> HIDE DEF left
<1>7. ASSUME NEW i \in 1..n - 1 PROVE left[i] = IF i < p THEN all[i] ELSE all[i + 1]
  <2>1. i \in 1..n /\ i + 1 \in 1..n /\ i \in Nat /\ p \in 1..Len(t)
    BY <1>1
  <2>2. CASE i <= Len(t) - 1
    BY <1>1, <1>4, <1>5, <2>1, <2>2
  <2>3. CASE ~ (i <= Len(t) - 1)
    <3>1. left[i] = u[i - (Len(t) - 1)]
      BY <1>5, <2>3
    <3>2. ~ (i < p) /\ ~ (i + 1 <= Len(t)) /\ i + 1 - Len(t) = i - (Len(t) - 1)
      BY <1>1, <2>1, <2>3
    <3>3. all[i + 1] = u[i + 1 - Len(t)]
      BY <1>1, <2>1, <3>2
    <3> QED BY <3>1, <3>2, <3>3
  <2> QED BY <2>2, <2>3
<1>8. Len(all) - 1 = n - 1
  BY <1>1
<1>9. RemoveAt(all, p) = left
  BY <1>2, <1>6, <1>7, <1>8
<1> QED BY <1>9 DEF all, left, less

\* One more place, after those before it.
LEMMA OnePlaceMore ==
    ASSUME NEW X, NEW list \in Seq(X), NEW k \in 1..Len(list), NEW places \in SUBSET (1..k - 1)
    PROVE  ElementsAt(list, places \cup {k}) = Append(ElementsAt(list, places), list[k])
<1> DEFINE more == places \cup {k}
           S == {t \in Seq(X) : k <= Len(t) =>
                    ElementsAt(t, more) = Append(ElementsAt(t, places), t[k])}
<1>1. <<>> \in S
  OBVIOUS
<1>2. ASSUME NEW t \in Seq(X), NEW x \in X, t \in S PROVE Append(t, x) \in S
  <2> DEFINE n == Len(t)
             new == Append(t, x)
             old == ElementsAt(t, places)
  <2>1. /\ new \in Seq(X) /\ Len(new) = n + 1 /\ n \in Nat /\ DOMAIN t = 1..n
        /\ \A i \in 1..n : new[i] = t[i]
        /\ new[n + 1] = x /\ k \in Nat
    OBVIOUS
  <2>2. old \in Seq(X)
    BY ElementsAtType
  <2>3. n + 1 \notin places \/ k > n + 1
    BY <2>1
  <2> HIDE DEF n, new, old
  <2>4. SUFFICES ASSUME k <= n + 1
                 PROVE  ElementsAt(new, more) = Append(ElementsAt(new, places), new[k])
    BY <2>1 DEF new
  <2>5. Taken(x, n + 1, places) = <<>>
    BY <2>3, <2>4, <2>1 DEF Taken
  <2>6. ElementsAt(new, places) = old
    <3>1. ElementsAt(new, places) = old \o Taken(x, n + 1, places)
      BY ElementsAtAppend DEF new, old, n
    <3>2. old \o <<>> = old
      BY <2>2
    <3> QED BY <2>5, <3>1, <3>2
  <2> HIDE DEF more
  <2>7. ElementsAt(new, more) = ElementsAt(t, more) \o Taken(x, n + 1, more)
    BY ElementsAtAppend DEF new, n
  <2>8. CASE k <= n
    <3>1. Taken(x, n + 1, more) = <<>>
      BY <2>1, <2>3, <2>8 DEF Taken, more
    <3>2. ElementsAt(t, more) = Append(old, t[k])
      BY <1>2, <2>8 DEF n, old
    <3>3. t[k] = new[k] /\ t[k] \in X
      <4>1. k \in 1..n
        BY <2>1, <2>8
      <4> QED BY <2>1, <4>1 DEF n
    <3>4. Append(old, t[k]) \o <<>> = Append(old, t[k])
      BY <2>2, <3>3
    <3> QED BY <2>6, <2>7, <3>1, <3>2, <3>3, <3>4
  <2>9. CASE k = n + 1
    <3>1. Taken(x, n + 1, more) = <<x>>
      BY <2>9 DEF Taken, more
    <3>2. \A i \in DOMAIN t : i \in more <=> i \in places
      BY <2>1, <2>9 DEF more
    <3>3. ElementsAt(t, more) = old
      BY <3>2, SamePlaces DEF old
    <3>4. old \o <<x>> = Append(old, x)
      BY <2>2
    <3> QED BY <2>1, <2>6, <2>7, <2>9, <3>1, <3>3, <3>4
  <2> QED BY <2>1, <2>4, <2>8, <2>9
<1>3. list \in S
  <2> HIDE DEF S
  <2> QED BY <1>1, <1>2, SeqInd
<1>4. k <= Len(list)
  OBVIOUS
<1> QED BY <1>3, <1>4

\* One place less, when none before it is missing.
LEMMA OnePlaceLess ==
    ASSUME NEW X, NEW list \in Seq(X), NEW k \in 1..Len(list), NEW places, 1..k \subseteq places
    PROVE  /\ k <= Len(ElementsAt(list, places))
           /\ ElementsAt(list, places \ {k}) = RemoveAt(ElementsAt(list, places), k)
<1> DEFINE less == places \ {k}
           S == {t \in Seq(X) : k <= Len(t) =>
                    /\ k <= Len(ElementsAt(t, places))
                    /\ ElementsAt(t, less) = RemoveAt(ElementsAt(t, places), k)}
<1>1. <<>> \in S
  OBVIOUS
<1>2. ASSUME NEW t \in Seq(X), NEW x \in X, t \in S PROVE Append(t, x) \in S
  <2> DEFINE n == Len(t)
             new == Append(t, x)
             old == ElementsAt(t, places)
             one == Taken(x, n + 1, places)
  <2>1. /\ new \in Seq(X) /\ Len(new) = n + 1 /\ n \in Nat /\ DOMAIN t = 1..n
        /\ k \in Nat /\ k >= 1
    OBVIOUS
  <2>2. old \in Seq(X) /\ one \in Seq(X)
    BY ElementsAtType DEF Taken
  <2> HIDE DEF n, new, old
  <2>3. SUFFICES ASSUME k <= n + 1
                 PROVE  /\ k <= Len(ElementsAt(new, places))
                        /\ ElementsAt(new, less) = RemoveAt(ElementsAt(new, places), k)
    BY <2>1 DEF new
  <2>4. ElementsAt(new, places) = old \o one
    BY ElementsAtAppend DEF new, old, n
  <2> HIDE DEF less
  <2>5. ElementsAt(new, less) = ElementsAt(t, less) \o Taken(x, n + 1, less)
    BY ElementsAtAppend DEF new, n
  <2> HIDE DEF one
  <2>6. CASE k <= n
    <3>1. Taken(x, n + 1, less) = one
      BY <2>1, <2>6 DEF Taken, less, one
    <3>2. k <= Len(old) /\ ElementsAt(t, less) = RemoveAt(old, k)
      BY <1>2, <2>6 DEF n, old
    <3>3. Len(old) \in Nat /\ Len(one) \in Nat /\ Len(old \o one) = Len(old) + Len(one)
      BY <2>2, JoinedType
    <3>4. k \in 1..Len(old)
      BY <2>1, <3>2, <3>3
    <3>5. RemoveAt(old \o one, k) = RemoveAt(old, k) \o one
      BY <2>2, <3>4, RemovedFirst
    <3> QED BY <2>1, <2>4, <2>5, <3>1, <3>2, <3>3, <3>5
  <2>7. CASE k = n + 1
    <3>1. DOMAIN t \subseteq places /\ DOMAIN t \subseteq less /\ n + 1 \in places /\ n + 1 \notin less
      BY <2>1, <2>7 DEF less
    <3>2. old = t /\ ElementsAt(t, less) = t
      BY <3>1, AllPlaces DEF old
    <3>3. one = <<x>> /\ Taken(x, n + 1, less) = <<>>
      BY <3>1 DEF Taken, one
    <3>4. t \o <<x>> = new /\ t \o <<>> = t
      BY DEF new
    <3>5. RemoveAt(new, n + 1) = t
      BY RemovedLast DEF new, n
    <3>6. ElementsAt(new, places) = new /\ ElementsAt(new, less) = t
      BY <2>4, <2>5, <3>2, <3>3, <3>4, Zenon
    <3>7. k <= Len(new)
      BY <2>1, <2>7
    <3> QED BY <2>7, <3>5, <3>6, <3>7, Zenon
  <2> QED BY <2>1, <2>3, <2>6, <2>7
<1>3. list \in S
  <2> HIDE DEF S
  <2> QED BY <1>1, <1>2, SeqInd
<1>4. k <= Len(list)
  OBVIOUS
<1> QED BY <1>3, <1>4

-----------------------------------------------------------------------------
(* Substitution *)

\* The value of a reference in `refs` takes its place, whatever its form.
PieceFor(p, refs, values) == IF p \in refs THEN values[p[2]] ELSE <<p>>
Filled(text, refs, values) ==
    FlattenSeq([i \in DOMAIN text |-> PieceFor(text[i], refs, values)])

\* References that have values, and values without references.
Known(refs, values) ==
    /\ refs \subseteq {p \in Pieces : Refers(p)}
    /\ \A p \in refs : values[p[2]] \in Texts
KnownPlain(refs, values) == Known(refs, values) /\ \A p \in refs : Plain(values[p[2]])

LEMMA PieceForType ==
    ASSUME NEW refs, NEW values, Known(refs, values), NEW p \in Pieces
    PROVE  PieceFor(p, refs, values) \in Texts
<1>1. CASE p \in refs
  BY <1>1 DEF Known, PieceFor
<1>2. CASE p \notin refs
  BY <1>2 DEF PieceFor, Texts, Pieces
<1> QED BY <1>1, <1>2

LEMMA FilledParts ==
    ASSUME NEW refs, NEW values, Known(refs, values), NEW text \in Texts
    PROVE  [i \in DOMAIN text |-> PieceFor(text[i], refs, values)] \in Seq(Texts)
<1>1. ASSUME NEW i \in DOMAIN text PROVE PieceFor(text[i], refs, values) \in Texts
  <2>1. text[i] \in Pieces
    BY DEF Texts, Pieces
  <2> QED BY <2>1, PieceForType
<1>2. Len(text) \in Nat /\ DOMAIN text = 1..Len(text)
  BY DEF Texts
<1> QED BY <1>1, <1>2

LEMMA FilledEmpty == ASSUME NEW refs, NEW values PROVE Filled(<<>>, refs, values) = <<>>
<1>1. [i \in DOMAIN <<>> |-> PieceFor(<<>>[i], refs, values)] = <<>>
  OBVIOUS
<1> QED BY <1>1, FlattenEmpty DEF Filled

LEMMA FilledAppend ==
    ASSUME NEW refs, NEW values, Known(refs, values), NEW text \in Texts, NEW p \in Pieces
    PROVE  /\ Filled(Append(text, p), refs, values)
                = Filled(text, refs, values) \o PieceFor(p, refs, values)
           /\ Filled(text, refs, values) \in Texts
<1> DEFINE parts == [i \in DOMAIN text |-> PieceFor(text[i], refs, values)]
           last == PieceFor(p, refs, values)
           more == Append(text, p)
<1>1. parts \in Seq(Texts) /\ last \in Texts
  BY FilledParts, PieceForType
<1>2. [i \in DOMAIN more |-> PieceFor(more[i], refs, values)] = Append(parts, last)
  <2>1. text \in Seq(Pieces) /\ Len(text) \in Nat
    BY DEF Texts, Pieces
  <2>2. DOMAIN more = 1..Len(text) + 1 /\ DOMAIN text = 1..Len(text) /\ Len(parts) = Len(text)
    BY <2>1
  <2>3. \A i \in 1..Len(text) : more[i] = text[i]
    BY <2>1
  <2>4. more[Len(text) + 1] = p
    BY <2>1
  <2>5. DOMAIN Append(parts, last) = 1..Len(text) + 1
    BY <1>1, <2>2
  <2>6. \A i \in 1..Len(text) : Append(parts, last)[i] = parts[i]
    BY <1>1, <2>2
  <2>7. Append(parts, last)[Len(text) + 1] = last
    BY <1>1, <2>2
  <2>8. Append(parts, last) = [i \in 1..Len(text) + 1 |-> Append(parts, last)[i]]
    BY <1>1, <2>5
  <2> HIDE DEF more, last
  <2>9. \A i \in 1..Len(text) + 1 : Append(parts, last)[i] = PieceFor(more[i], refs, values)
    BY <2>1, <2>2, <2>3, <2>4, <2>6, <2>7 DEF last
  <2> HIDE DEF parts
  <2> QED BY <2>2, <2>8, <2>9
<1>3. FlattenSeq(Append(parts, last)) = FlattenSeq(parts) \o last /\ FlattenSeq(parts) \in Texts
  <2> HIDE DEF parts, last
  <2> QED BY <1>1, FlattenAppend, FlattenType DEF Texts
<1> QED BY <1>2, <1>3 DEF Filled

LEMMA FilledType ==
    ASSUME NEW refs, NEW values, Known(refs, values), NEW text \in Texts
    PROVE  Filled(text, refs, values) \in Texts
<1>1. [i \in DOMAIN text |-> PieceFor(text[i], refs, values)] \in Seq(Texts)
  BY FilledParts
<1> QED BY <1>1, FlattenType DEF Filled, Texts

\* A text into which nothing is put stays as it is.
LEMMA FilledNothing == ASSUME NEW values, NEW text \in Texts PROVE Filled(text, {}, values) = text
<1> DEFINE Q == {u \in Texts : Filled(u, {}, values) = u}
<1>1. Known({}, values)
  BY DEF Known
<1>2. <<>> \in Q
  BY FilledEmpty DEF Texts
<1>3. ASSUME NEW u \in Seq(Pieces), NEW p \in Pieces, u \in Q PROVE Append(u, p) \in Q
  <2>1. u \in Texts /\ Append(u, p) \in Texts
    BY DEF Texts, Pieces
  <2>2. Filled(Append(u, p), {}, values) = Filled(u, {}, values) \o PieceFor(p, {}, values)
    BY <1>1, <2>1, FilledAppend
  <2>3. PieceFor(p, {}, values) = <<p>>
    BY DEF PieceFor
  <2>4. Append(u, p) = u \o <<p>>
    OBVIOUS
  <2> QED BY <1>3, <2>1, <2>2, <2>3, <2>4
<1>4. \A u \in Seq(Pieces) : u \in Q
  <2> HIDE DEF Q
  <2> QED BY <1>2, <1>3, SeqInd
<1> QED BY <1>4 DEF Texts, Pieces

\* What is put into a text is put into its parts.
LEMMA FilledConcat ==
    ASSUME NEW refs, NEW values, Known(refs, values), NEW s \in Texts, NEW t \in Texts
    PROVE  Filled(s \o t, refs, values) = Filled(s, refs, values) \o Filled(t, refs, values)
<1> DEFINE S == {u \in Texts : Filled(s \o u, refs, values)
                                = Filled(s, refs, values) \o Filled(u, refs, values)}
<1>1. <<>> \in S
  <2>1. s \o <<>> = s /\ Filled(s, refs, values) \o <<>> = Filled(s, refs, values) /\ <<>> \in Texts
    BY FilledType DEF Texts
  <2> QED BY <2>1, FilledEmpty
<1>2. ASSUME NEW u \in Seq(Pieces), NEW p \in Pieces, u \in S
      PROVE  Append(u, p) \in S
  <2> DEFINE P(x) == Filled(x, refs, values)
  <2>1. u \in Texts /\ s \o u \in Texts /\ Append(u, p) \in Texts
    BY DEF Texts, Pieces
  <2>2. P(Append(u, p)) = P(u) \o PieceFor(p, refs, values)
    BY <2>1, FilledAppend
  <2>3. P(Append(s \o u, p)) = P(s \o u) \o PieceFor(p, refs, values)
    BY <2>1, FilledAppend
  <2>4. s \o Append(u, p) = Append(s \o u, p)
    BY <2>1 DEF Texts, Pieces
  <2>5. P(s \o u) = P(s) \o P(u)
    BY <1>2
  <2>6. P(s) \in Texts /\ P(u) \in Texts /\ PieceFor(p, refs, values) \in Texts
    BY <2>1, FilledType, PieceForType
  <2> HIDE DEF P
  <2>7. (P(s) \o P(u)) \o PieceFor(p, refs, values) = P(s) \o (P(u) \o PieceFor(p, refs, values))
    BY <2>6 DEF Texts
  <2>8. P(s \o Append(u, p)) = P(s) \o P(Append(u, p))
    BY <2>2, <2>3, <2>4, <2>5, <2>7
  <2> QED BY <2>1, <2>8 DEF P
<1>3. \A u \in Seq(Pieces) : u \in S
  <2> HIDE DEF S
  <2> QED BY <1>1, <1>2, SeqInd
<1> QED BY <1>3 DEF Texts, Pieces

\* Nothing is put into a text without references.
LEMMA FilledPlain ==
    ASSUME NEW refs, NEW values, Known(refs, values), NEW text \in Texts, Plain(text)
    PROVE  Filled(text, refs, values) = text
<1> DEFINE S == {u \in Texts : Plain(u) => Filled(u, refs, values) = u}
<1>1. <<>> \in S
  BY FilledEmpty DEF Texts
<1>2. ASSUME NEW u \in Seq(Pieces), NEW p \in Pieces, u \in S
      PROVE  Append(u, p) \in S
  <2>1. u \in Texts /\ Append(u, p) \in Texts
    BY DEF Texts, Pieces
  <2>2. SUFFICES ASSUME Plain(Append(u, p)) PROVE Filled(Append(u, p), refs, values) = Append(u, p)
    BY <2>1
  <2>3. Len(u) + 1 \in DOMAIN Append(u, p) /\ Append(u, p)[Len(u) + 1] = p
    OBVIOUS
  <2>4. ~Refers(p)
    BY <2>2, <2>3 DEF Plain
  <2>5. Plain(u)
    <3>1. \A i \in DOMAIN u : i \in DOMAIN Append(u, p) /\ Append(u, p)[i] = u[i]
      OBVIOUS
    <3> QED BY <2>2, <3>1 DEF Plain
  <2>6. PieceFor(p, refs, values) = <<p>>
    BY <2>4 DEF Known, PieceFor
  <2>7. Filled(Append(u, p), refs, values) = u \o <<p>>
    <3>1. Filled(Append(u, p), refs, values) = Filled(u, refs, values) \o PieceFor(p, refs, values)
      BY <2>1, FilledAppend
    <3> QED BY <1>2, <2>5, <2>6, <3>1
  <2> QED BY <2>7
<1>3. \A u \in Seq(Pieces) : u \in S
  <2> HIDE DEF S
  <2> QED BY <1>1, <1>2, SeqInd
<1> QED BY <1>3 DEF Texts, Pieces

\* Values without references may be put in one after the other.
LEMMA FilledTwice ==
    ASSUME NEW r1, NEW r2, NEW values, KnownPlain(r1, values), KnownPlain(r2, values),
           NEW text \in Texts
    PROVE  Filled(Filled(text, r1, values), r2, values) = Filled(text, r1 \cup r2, values)
<1> DEFINE r == r1 \cup r2
           Both(u) == Filled(Filled(u, r1, values), r2, values)
           S == {u \in Texts : Both(u) = Filled(u, r, values)}
<1>1. Known(r1, values) /\ Known(r2, values) /\ Known(r, values)
  BY DEF KnownPlain, Known
<1>2. <<>> \in S
  BY FilledEmpty DEF Texts
<1>3. ASSUME NEW u \in Seq(Pieces), NEW p \in Pieces, u \in S
      PROVE  Append(u, p) \in S
  <2>1. u \in Texts /\ Append(u, p) \in Texts /\ Filled(u, r1, values) \in Texts
    BY <1>1, FilledType DEF Texts, Pieces
  <2> DEFINE piece == PieceFor(p, r1, values)
  <2>2. piece \in Texts
    BY <1>1, PieceForType
  <2>3. Filled(piece, r2, values) = PieceFor(p, r, values)
    <3>1. CASE p \in r1
      <4>1. Plain(values[p[2]]) /\ piece = values[p[2]] /\ PieceFor(p, r, values) = values[p[2]]
        BY <3>1 DEF KnownPlain, PieceFor
      <4> QED BY <1>1, <2>2, <4>1, FilledPlain
    <3>2. CASE p \notin r1
      <4>1. piece = Append(<<>>, p) /\ <<>> \in Texts
        BY <3>2 DEF PieceFor, Texts
      <4>2. Filled(piece, r2, values) = <<>> \o PieceFor(p, r2, values)
        <5>1. Filled(Append(<<>>, p), r2, values) = Filled(<<>>, r2, values) \o PieceFor(p, r2, values)
          BY <1>1, <4>1, FilledAppend
        <5> QED BY <4>1, <5>1, FilledEmpty
      <4>3. PieceFor(p, r2, values) \in Texts
        BY <1>1, PieceForType
      <4>4. <<>> \o PieceFor(p, r2, values) = PieceFor(p, r2, values)
        BY <4>3 DEF Texts
      <4>5. PieceFor(p, r2, values) = PieceFor(p, r, values)
        BY <3>2 DEF PieceFor
      <4> QED BY <4>2, <4>4, <4>5
    <3> QED BY <3>1, <3>2
  <2>4. Filled(Append(u, p), r1, values) = Filled(u, r1, values) \o piece
    BY <1>1, <2>1, FilledAppend
  <2>5. Both(Append(u, p)) = Both(u) \o Filled(piece, r2, values)
    <3> HIDE DEF piece
    <3>1. Filled(Filled(u, r1, values) \o piece, r2, values) = Both(u) \o Filled(piece, r2, values)
      BY <1>1, <2>1, <2>2, FilledConcat
    <3> QED BY <2>4, <3>1
  <2>6. Filled(Append(u, p), r, values) = Filled(u, r, values) \o PieceFor(p, r, values)
    BY <1>1, <2>1, FilledAppend
  <2> QED BY <1>3, <2>1, <2>3, <2>5, <2>6
<1>4. \A u \in Seq(Pieces) : u \in S
  <2> HIDE DEF S
  <2> QED BY <1>2, <1>3, SeqInd
<1> QED BY <1>4 DEF Texts, Pieces
\* The references of some forms to some variables.
Refs(forms, names) == {p \in Pieces : p[1] \in forms /\ p[2] \in names}
RefsOf(form, n) == Refs({form}, {n})
AllForms == {"braces", "simple", "brackets"}

LEMMA ReplaceIsFilled ==
    ASSUME NEW text \in Texts, NEW forms, NEW values
    PROVE  ReplaceRefs(text, forms, values) = Filled(text, Refs(forms, DOMAIN values), values)
<1>1. \A i \in DOMAIN text : text[i] \in Pieces
  BY DEF Texts, Pieces
<1>2. \A i \in DOMAIN text :
        PieceFor(text[i], Refs(forms, DOMAIN values), values)
            = IF text[i][1] \in forms /\ text[i][2] \in DOMAIN values
              THEN values[text[i][2]] ELSE <<text[i]>>
  BY <1>1 DEF PieceFor, Refs
<1> QED BY <1>2 DEF Filled, ReplaceRefs

LEMMA ReplaceOneIsFilled ==
    ASSUME NEW text \in Texts, NEW form, NEW values, NEW n
    PROVE  ReplaceRefs(text, {form}, Restrict(values, {n})) = Filled(text, RefsOf(form, n), values)
<1>1. \A i \in DOMAIN text : text[i] \in Pieces
  BY DEF Texts, Pieces
<1>2. \A i \in DOMAIN text :
        PieceFor(text[i], RefsOf(form, n), values)
            = IF text[i][1] \in {form} /\ text[i][2] \in DOMAIN Restrict(values, {n})
              THEN Restrict(values, {n})[text[i][2]] ELSE <<text[i]>>
  BY <1>1 DEF PieceFor, Refs, RefsOf, Restrict
<1> QED BY <1>2 DEF Filled, ReplaceRefs

LEMMA RefsKnown ==
    ASSUME NEW values, IsValues(values), PlainValues(values),
           NEW forms, "literal" \notin forms, NEW names, names \subseteq DOMAIN values
    PROVE  KnownPlain(Refs(forms, names), values)
BY DEF IsValues, PlainValues, KnownPlain, Known, Refs, Refers

LEMMA SubstituteOneIsFilled ==
    ASSUME NEW values, IsValues(values), PlainValues(values),
           NEW n \in DOMAIN values, NEW text \in Texts
    PROVE  SubstituteOne(text, values, n) = Filled(text, Refs(AllForms, {n}), values)
<1> DEFINE R(form) == RefsOf(form, n)
           t1 == Filled(text, R("braces"), values)
           t2 == Filled(t1, R("brackets"), values)
<1>1. \A form \in AllForms : KnownPlain(R(form), values) /\ Known(R(form), values)
  BY RefsKnown DEF AllForms, KnownPlain, RefsOf
<1>2. t1 \in Texts
  BY <1>1, FilledType DEF AllForms
<1>3. t2 \in Texts
  BY <1>1, <1>2, FilledType DEF AllForms
<1>4. SubstituteOne(text, values, n) = Filled(t2, R("simple"), values)
  <2>1. ReplaceRefs(text, {"braces"}, Restrict(values, {n})) = t1
    BY ReplaceOneIsFilled
  <2>2. ReplaceRefs(t1, {"brackets"}, Restrict(values, {n})) = t2
    BY <1>2, ReplaceOneIsFilled
  <2>3. ReplaceRefs(t2, {"simple"}, Restrict(values, {n})) = Filled(t2, R("simple"), values)
    BY <1>3, ReplaceOneIsFilled
  <2> HIDE DEF t1, t2
  <2> QED BY <2>1, <2>2, <2>3 DEF SubstituteOne
<1>5. KnownPlain(R("braces") \cup R("brackets"), values)
  BY <1>1 DEF AllForms, KnownPlain, Known
<1>6. t2 = Filled(text, R("braces") \cup R("brackets"), values)
  BY <1>1, FilledTwice DEF AllForms
<1>7. Filled(t2, R("simple"), values)
        = Filled(text, (R("braces") \cup R("brackets")) \cup R("simple"), values)
  BY <1>1, <1>5, <1>6, FilledTwice DEF AllForms
<1>8. (R("braces") \cup R("brackets")) \cup R("simple") = Refs(AllForms, {n})
  BY DEF AllForms, Refs, RefsOf
<1> QED BY <1>4, <1>7, <1>8

\* A text after k variables has all their values.
LEMMA FoldFilled ==
    ASSUME NEW values, IsValues(values), PlainValues(values),
           NEW order \in Seq(DOMAIN values), NEW text \in Texts,
           NEW forms, "literal" \notin forms, NEW it,
           it[{}] = text,
           \A k \in 0..Len(order) - 1 : it[1..k] \in Texts =>
               it[1..k + 1] = Filled(it[1..k], Refs(forms, {order[k + 1]}), values)
    PROVE  it[1..Len(order)] = Filled(text, Refs(forms, Range(order)), values)
<1> DEFINE names(k) == {order[i] : i \in 1..k}
           S == {k \in Nat : k <= Len(order) =>
                    it[1..k] = Filled(text, Refs(forms, names(k)), values)}
<1>1. ASSUME NEW k \in 0..Len(order)
      PROVE  /\ names(k) \subseteq DOMAIN values
             /\ KnownPlain(Refs(forms, names(k)), values)
             /\ Known(Refs(forms, names(k)), values)
  <2>1. names(k) \subseteq DOMAIN values
    OBVIOUS
  <2> QED BY <2>1, RefsKnown DEF KnownPlain
<1>2. 0 \in S
  <2>1. 1..0 = {}
    OBVIOUS
  <2>2. Refs(forms, names(0)) = {}
    BY <2>1 DEF Refs
  <2>3. Filled(text, {}, values) = text
    BY FilledNothing
  <2> QED BY <2>1, <2>2, <2>3
<1>3. ASSUME NEW k \in Nat, k \in S, k + 1 <= Len(order)
      PROVE  it[1..k + 1] = Filled(text, Refs(forms, names(k + 1)), values)
  <2> DEFINE next == Refs(forms, {order[k + 1]})
  <2>1. k \in 0..Len(order) - 1 /\ k \in 0..Len(order) /\ order[k + 1] \in DOMAIN values
    BY <1>3
  <2>2. it[1..k] = Filled(text, Refs(forms, names(k)), values)
    BY <1>3
  <2>3. it[1..k] \in Texts
    BY <1>1, <2>1, <2>2, FilledType
  <2>4. it[1..k + 1] = Filled(it[1..k], next, values)
    BY <2>1, <2>3
  <2>5. KnownPlain(next, values)
    BY <2>1, RefsKnown
  <2>6. it[1..k + 1] = Filled(text, Refs(forms, names(k)) \cup next, values)
    <3>1. KnownPlain(Refs(forms, names(k)), values)
      BY <1>1, <2>1
    <3>2. Filled(Filled(text, Refs(forms, names(k)), values), next, values)
            = Filled(text, Refs(forms, names(k)) \cup next, values)
      <4> HIDE DEF names, next
      <4> QED BY <2>5, <3>1, FilledTwice
    <3> QED BY <2>2, <2>4, <3>2
  <2>7. names(k + 1) = names(k) \cup {order[k + 1]}
    OBVIOUS
  <2>8. Refs(forms, names(k)) \cup next = Refs(forms, names(k + 1))
    BY <2>7 DEF Refs
  <2> QED BY <2>6, <2>8
<1>4. \A k \in Nat : k \in S
  <2>1. \A k \in Nat : k \in S => k + 1 \in S
    BY <1>3
  <2> HIDE DEF S
  <2> QED BY <1>2, <2>1, NatInd
<1>5. names(Len(order)) = Range(order)
  BY DEF Range
<1>6. Len(order) \in Nat
  OBVIOUS
<1>7. it[1..Len(order)] = Filled(text, Refs(forms, names(Len(order))), values)
  <2> HIDE DEF names
  <2> QED BY <1>4, <1>6
<1> QED BY <1>5, <1>7
\* One variable after the other, all get their values.
LEMMA TemplateIsFilled ==
    ASSUME NEW values, IsValues(values), PlainValues(values),
           NEW order \in Seq(DOMAIN values), NEW text \in Texts
    PROVE  SubstituteTemplateVariables(text, values, order)
               = Filled(text, Refs(AllForms, Range(order)), values)
<1> DEFINE n == Len(order)
           step == [p \in (1..n) \X Texts |-> SubstituteOne(p[2], values, order[p[1]])]
           Rec(it) == it = [s \in SUBSET DOMAIN order |->
                               IF s = {} THEN text
                               ELSE SubstituteOne(it[s \ {Max(s)}], values, order[Max(s)])]
           fold == CHOOSE it : Rec(it)
<1>1. n \in Nat /\ DOMAIN order = 1..n /\ \A i \in 1..n : order[i] \in DOMAIN values
  OBVIOUS
<1>2. ASSUME NEW q \in Texts, NEW i \in 1..n
      PROVE  /\ SubstituteOne(q, values, order[i])
                    = Filled(q, Refs(AllForms, {order[i]}), values)
             /\ SubstituteOne(q, values, order[i]) \in Texts
  <2>1. order[i] \in DOMAIN values
    BY <1>1
  <2>2. SubstituteOne(q, values, order[i])
            = Filled(q, Refs(AllForms, {order[i]}), values)
    BY <2>1, SubstituteOneIsFilled
  <2>3. Known(Refs(AllForms, {order[i]}), values)
    <3>1. {order[i]} \subseteq DOMAIN values /\ "literal" \notin AllForms
      BY <2>1 DEF AllForms
    <3> HIDE DEF n
    <3> QED BY <3>1, RefsKnown DEF KnownPlain
  <2> QED BY <2>2, <2>3, FilledType
<1>3. step \in [(1..n) \X Texts -> Texts]
  <2>1. \A q \in Texts, i \in 1..n : SubstituteOne(q, values, order[i]) \in Texts
    BY <1>2
  <2> QED BY <2>1
<1>4. PICK f \in SetRecursions(Texts, text, n, step) : TRUE
  <2> HIDE DEF n, step
  <2> QED BY <1>1, <1>3, SetRecursionExists
<1>5. /\ f \in [SUBSET (1..n) -> Texts]
      /\ \A s \in SUBSET (1..n) :
            f[s] = IF s = {} THEN text ELSE step[<<Max(s), f[s \ {Max(s)}]>>]
  BY <1>4 DEF SetRecursions
<1>6. ASSUME NEW s \in SUBSET (1..n)
      PROVE  f[s] = IF s = {} THEN text
                    ELSE SubstituteOne(f[s \ {Max(s)}], values, order[Max(s)])
  <2>1. CASE s = {}
    BY <1>5, <2>1
  <2>2. CASE s # {}
    <3>1. Max(s) \in 1..n /\ f[s \ {Max(s)}] \in Texts
      BY <1>1, <1>5, <2>2, MaxOfInterval
    <3>2. <<Max(s), f[s \ {Max(s)}]>> \in (1..n) \X Texts
      BY <3>1
    <3>3. step[<<Max(s), f[s \ {Max(s)}]>>]
            = SubstituteOne(f[s \ {Max(s)}], values, order[Max(s)])
      BY <3>2
    <3> HIDE DEF step
    <3> QED BY <1>5, <2>2, <3>3
  <2> QED BY <2>1, <2>2
<1>7. Rec(f)
  <2> HIDE DEF n
  <2>1. f = [s \in SUBSET (1..n) |-> f[s]]
    BY <1>5
  <2> QED BY <1>1, <1>6, <2>1
<1> HIDE DEF n
<1>8. Rec(fold)
  <2> HIDE DEF Rec
  <2> QED BY <1>7
<1>9. SubstituteTemplateVariables(text, values, order) = fold[DOMAIN order]
  BY DEF SubstituteTemplateVariables, FoldLeft, MapThenFoldSet
<1> HIDE DEF fold
<1>10. fold[{}] = text
  BY <1>8
<1>11. ASSUME NEW k \in 0..n - 1, fold[1..k] \in Texts
       PROVE  fold[1..k + 1] = Filled(fold[1..k], Refs(AllForms, {order[k + 1]}), values)
  <2>1. k \in Nat /\ k + 1 \in 1..n /\ 1..k + 1 \in SUBSET DOMAIN order
    BY <1>1
  <2>2. Max(1..k + 1) = k + 1 /\ (1..k + 1) \ {k + 1} = 1..k /\ 1..k + 1 # {}
    BY <2>1, MaxOfPrefix
  <2>3. fold[1..k + 1] = SubstituteOne(fold[1..k], values, order[k + 1])
    BY <1>8, <2>1, <2>2
  <2> QED BY <1>2, <1>11, <2>1, <2>3
<1>12. fold[1..Len(order)] = Filled(text, Refs(AllForms, Range(order)), values)
  <2>1. "literal" \notin AllForms
    BY DEF AllForms
  <2>2. \A k \in 0..Len(order) - 1 : fold[1..k] \in Texts =>
          fold[1..k + 1] = Filled(fold[1..k], Refs(AllForms, {order[k + 1]}), values)
    BY <1>11 DEF n
  <2> QED BY <1>10, <2>1, <2>2, FoldFilled, Zenon
<1> QED BY <1>1, <1>9, <1>12 DEF n

SimpleForm == {"simple"}
LEMMA SimpleIsFilled ==
    ASSUME NEW values, IsValues(values), PlainValues(values),
           NEW order \in Seq(DOMAIN values), NEW text \in Texts
    PROVE  SubstituteSimple(text, values, order)
               = Filled(text, Refs(SimpleForm, Range(order)), values)
<1> DEFINE n == Len(order)
           step == [p \in (1..n) \X Texts |-> ReplaceRefs(p[2], {"simple"}, Restrict(values, {order[p[1]]}))]
           Rec(it) == it = [s \in SUBSET DOMAIN order |->
                               IF s = {} THEN text
                               ELSE ReplaceRefs(it[s \ {Max(s)}], {"simple"}, Restrict(values, {order[Max(s)]}))]
           fold == CHOOSE it : Rec(it)
<1>1. n \in Nat /\ DOMAIN order = 1..n /\ \A i \in 1..n : order[i] \in DOMAIN values
  OBVIOUS
<1>2. ASSUME NEW q \in Texts, NEW i \in 1..n
      PROVE  /\ ReplaceRefs(q, {"simple"}, Restrict(values, {order[i]}))
                    = Filled(q, Refs(SimpleForm, {order[i]}), values)
             /\ ReplaceRefs(q, {"simple"}, Restrict(values, {order[i]})) \in Texts
  <2>1. order[i] \in DOMAIN values
    BY <1>1
  <2>2. ReplaceRefs(q, {"simple"}, Restrict(values, {order[i]}))
            = Filled(q, Refs(SimpleForm, {order[i]}), values)
    <3>1. ReplaceRefs(q, {"simple"}, Restrict(values, {order[i]}))
            = Filled(q, RefsOf("simple", order[i]), values)
      BY ReplaceOneIsFilled
    <3> QED BY <3>1 DEF RefsOf, SimpleForm
  <2>3. Known(Refs(SimpleForm, {order[i]}), values)
    <3>1. {order[i]} \subseteq DOMAIN values /\ "literal" \notin SimpleForm
      BY <2>1 DEF SimpleForm
    <3> HIDE DEF n
    <3> QED BY <3>1, RefsKnown DEF KnownPlain
  <2> QED BY <2>2, <2>3, FilledType
<1>3. step \in [(1..n) \X Texts -> Texts]
  <2>1. \A q \in Texts, i \in 1..n : ReplaceRefs(q, {"simple"}, Restrict(values, {order[i]})) \in Texts
    BY <1>2
  <2> QED BY <2>1
<1>4. PICK f \in SetRecursions(Texts, text, n, step) : TRUE
  <2> HIDE DEF n, step
  <2> QED BY <1>1, <1>3, SetRecursionExists
<1>5. /\ f \in [SUBSET (1..n) -> Texts]
      /\ \A s \in SUBSET (1..n) :
            f[s] = IF s = {} THEN text ELSE step[<<Max(s), f[s \ {Max(s)}]>>]
  BY <1>4 DEF SetRecursions
<1>6. ASSUME NEW s \in SUBSET (1..n)
      PROVE  f[s] = IF s = {} THEN text
                    ELSE ReplaceRefs(f[s \ {Max(s)}], {"simple"}, Restrict(values, {order[Max(s)]}))
  <2>1. CASE s = {}
    BY <1>5, <2>1
  <2>2. CASE s # {}
    <3>1. Max(s) \in 1..n /\ f[s \ {Max(s)}] \in Texts
      BY <1>1, <1>5, <2>2, MaxOfInterval
    <3>2. <<Max(s), f[s \ {Max(s)}]>> \in (1..n) \X Texts
      BY <3>1
    <3>3. step[<<Max(s), f[s \ {Max(s)}]>>]
            = ReplaceRefs(f[s \ {Max(s)}], {"simple"}, Restrict(values, {order[Max(s)]}))
      BY <3>2
    <3> HIDE DEF step
    <3> QED BY <1>5, <2>2, <3>3
  <2> QED BY <2>1, <2>2
<1>7. Rec(f)
  <2> HIDE DEF n
  <2>1. f = [s \in SUBSET (1..n) |-> f[s]]
    BY <1>5
  <2> QED BY <1>1, <1>6, <2>1
<1> HIDE DEF n
<1>8. Rec(fold)
  <2> HIDE DEF Rec
  <2> QED BY <1>7
<1>9. SubstituteSimple(text, values, order) = fold[DOMAIN order]
  BY DEF SubstituteSimple, FoldLeft, MapThenFoldSet
<1> HIDE DEF fold
<1>10. fold[{}] = text
  BY <1>8
<1>11. ASSUME NEW k \in 0..n - 1, fold[1..k] \in Texts
       PROVE  fold[1..k + 1] = Filled(fold[1..k], Refs(SimpleForm, {order[k + 1]}), values)
  <2>1. k \in Nat /\ k + 1 \in 1..n /\ 1..k + 1 \in SUBSET DOMAIN order
    BY <1>1
  <2>2. Max(1..k + 1) = k + 1 /\ (1..k + 1) \ {k + 1} = 1..k /\ 1..k + 1 # {}
    BY <2>1, MaxOfPrefix
  <2>3. fold[1..k + 1] = ReplaceRefs(fold[1..k], {"simple"}, Restrict(values, {order[k + 1]}))
    BY <1>8, <2>1, <2>2
  <2> QED BY <1>2, <1>11, <2>1, <2>3
<1>12. fold[1..Len(order)] = Filled(text, Refs(SimpleForm, Range(order)), values)
  <2>1. "literal" \notin SimpleForm
    BY DEF SimpleForm
  <2>2. \A k \in 0..Len(order) - 1 : fold[1..k] \in Texts =>
          fold[1..k + 1] = Filled(fold[1..k], Refs(SimpleForm, {order[k + 1]}), values)
    BY <1>11 DEF n
  <2> QED BY <1>10, <2>1, <2>2, FoldFilled, Zenon
<1> QED BY <1>1, <1>9, <1>12 DEF n

\* An order of the variables names all of them.
LEMMA OrderIsAll ==
    ASSUME NEW values, IsValues(values), NEW order \in Orders(values)
    PROVE  order \in Seq(DOMAIN values) /\ Range(order) = DOMAIN values
<1> DEFINE S == DOMAIN values
           n == Cardinality(S)
<1>1. n \in Nat /\ IsFiniteSet(S)
  BY FS_CardinalityType DEF IsValues
<1>2. order \in [1..n -> S] /\ \A i, j \in 1..n : i # j => order[i] # order[j]
  BY DEF Orders, SetToSeqs
<1>3. order \in Injection(1..n, S)
  BY <1>2 DEF Injection, IsInjective
<1>4. Cardinality(1..n) = n
  <2> HIDE DEF n, S
  <2>1. Cardinality(1..n) = IF 1 > n THEN 0 ELSE n - 1 + 1
    BY <1>1, FS_Interval
  <2> QED BY <1>1, <2>1
<1>5. order \in Surjection(1..n, S)
  BY <1>1, <1>3, <1>4, FS_Injection
<1>6. \A x \in S : \E i \in 1..n : order[i] = x
  BY <1>5 DEF Surjection
<1>7. order \in Seq(S)
  BY <1>1, <1>2
<1>8. Range(order) = S
  BY <1>2, <1>6 DEF Range
<1> QED BY <1>7, <1>8

\* SetToSeq yields one of the orders.
LEMMA SetToSeqIsOrder ==
    ASSUME NEW values, IsValues(values)
    PROVE  SetToSeq(DOMAIN values) \in Orders(values)
<1> DEFINE S == DOMAIN values
           n == Cardinality(S)
<1>1. n \in Nat /\ ExistsBijection(1..n, S)
  BY FS_CardinalityType DEF IsValues
<1>2. PICK f \in [1..n -> S] : IsInjective(f)
  BY <1>1 DEF ExistsBijection, Bijection, Injection, IsInjective
<1>3. SetToSeq(S) \in [1..n -> S] /\ IsInjective(SetToSeq(S))
  BY <1>2 DEF SetToSeq
<1> QED BY <1>3 DEF Orders, SetToSeqs, IsInjective

\* What substitution in either tool does if no value holds a reference.
LEMMA TemplateIsReplaced ==
    ASSUME NEW values, IsValues(values), PlainValues(values),
           NEW order \in Orders(values), NEW text \in Texts
    PROVE  SubstituteTemplateVariables(text, values, order) = ReplaceRefs(text, AllForms, values)
BY OrderIsAll, TemplateIsFilled, ReplaceIsFilled

LEMMA VariablesAreReplaced ==
    ASSUME NEW values, IsValues(values), PlainValues(values),
           NEW order \in Orders(values), NEW text \in Texts, NoOption(text)
    PROVE  SubstituteVariables(text, values, order) = ReplaceRefs(text, AllForms, values)
<1> DEFINE names == DOMAIN values
           F1 == {"braces", "option"}
           F3 == {"brackets"}
           R(forms) == Refs(forms, names)
           t1 == Filled(text, R(F1), values)
           t2 == Filled(t1, R(SimpleForm), values)
<1>1. /\ KnownPlain(R(F1), values) /\ Known(R(F1), values)
      /\ KnownPlain(R(SimpleForm), values) /\ Known(R(SimpleForm), values)
      /\ KnownPlain(R(F3), values)
  BY RefsKnown DEF KnownPlain, SimpleForm
<1>2. ReplaceRefs(text, F1, values) = t1 /\ t1 \in Texts
  BY <1>1, ReplaceIsFilled, FilledType
<1>3. SubstituteSimple(t1, values, order) = t2 /\ t2 \in Texts
  BY <1>1, <1>2, OrderIsAll, SimpleIsFilled, FilledType
<1>4. ReplaceRefs(t2, F3, values) = Filled(t2, R(F3), values)
  BY <1>3, ReplaceIsFilled
<1>5. SubstituteVariables(text, values, order) = Filled(t2, R(F3), values)
  <2> HIDE DEF t1, t2
  <2> QED BY <1>2, <1>3, <1>4 DEF SubstituteVariables
<1>6. KnownPlain(R(F1) \cup R(SimpleForm), values)
  BY <1>1 DEF KnownPlain, Known
<1>7. t2 = Filled(text, R(F1) \cup R(SimpleForm), values)
  BY <1>1, FilledTwice
<1>8. Filled(t2, R(F3), values) = Filled(text, (R(F1) \cup R(SimpleForm)) \cup R(F3), values)
  BY <1>1, <1>6, <1>7, FilledTwice
<1>9. \A i \in DOMAIN text :
        text[i] \in (R(F1) \cup R(SimpleForm)) \cup R(F3) <=> text[i] \in R(AllForms)
  BY DEF Refs, AllForms, SimpleForm, NoOption
<1>10. \A i \in DOMAIN text :
         PieceFor(text[i], (R(F1) \cup R(SimpleForm)) \cup R(F3), values)
            = PieceFor(text[i], R(AllForms), values)
  <2> HIDE DEF R
  <2> QED BY <1>9 DEF PieceFor
<1>11. Filled(text, (R(F1) \cup R(SimpleForm)) \cup R(F3), values)
         = Filled(text, R(AllForms), values)
  <2> HIDE DEF R
  <2> QED BY <1>10 DEF Filled
<1>12. ReplaceRefs(text, AllForms, values) = Filled(text, R(AllForms), values)
  BY ReplaceIsFilled
<1> QED BY <1>5, <1>8, <1>11, <1>12
-----------------------------------------------------------------------------
(* Panels and the values of variables *)

AllPanels == PanelsWith(Seq(PanelsWith({<<>>}))) \cup PanelsWith({<<>>})

LEMMA CollectType ==
    ASSUME NEW panels \in Seq(PanelsWith(Seq(PanelsWith({<<>>}))))
    PROVE  CollectAllPanels(panels) \in Seq(AllPanels)
<1> DEFINE parts == [i \in DOMAIN panels |-> <<panels[i]>> \o panels[i].nested]
<1>1. ASSUME NEW i \in DOMAIN panels PROVE <<panels[i]>> \o panels[i].nested \in Seq(AllPanels)
  <2>1. panels[i] \in PanelsWith(Seq(PanelsWith({<<>>})))
    OBVIOUS
  <2>2. panels[i].nested \in Seq(PanelsWith({<<>>}))
    BY <2>1 DEF PanelsWith
  <2>3. <<panels[i]>> \in Seq(AllPanels) /\ panels[i].nested \in Seq(AllPanels)
    <3> DEFINE T == PanelsWith({<<>>})
    <3>1. T \subseteq AllPanels /\ panels[i] \in AllPanels
      BY <2>1 DEF AllPanels
    <3>2. panels[i].nested \in Seq(T)
      BY <2>2
    <3> HIDE DEF T
    <3> QED BY <3>1, <3>2
  <2> QED BY <2>3
<1>2. parts \in Seq(Seq(AllPanels))
  <2>1. Len(panels) \in Nat /\ DOMAIN panels = 1..Len(panels)
    OBVIOUS
  <2> HIDE DEF AllPanels
  <2> QED BY <1>1, <2>1
<1> HIDE DEF parts
<1>3. FlattenSeq(parts) \in Seq(AllPanels)
  BY <1>2, FlattenType
<1> QED BY <1>3 DEF CollectAllPanels, parts

\* A panel that the dashboard has is found.
LEMMA FindPanelType ==
    ASSUME NEW panels \in Seq(PanelsWith(Seq(PanelsWith({<<>>})))), NEW id, HasPanel(panels, id)
    PROVE  /\ FindPanelByID(panels, id) \in AllPanels
           /\ FindPanelByID(panels, id).id = id
           /\ FindPanelByID(panels, id).ds \in DatasourceRefs
           /\ FindPanelByID(panels, id).targets \in Seq(PanelTargets)
<1> DEFINE all == CollectAllPanels(panels)
           I == {i \in 1..Len(all) : all[i].id = id}
<1>1. all \in Seq(AllPanels)
  BY CollectType
<1>2. \E i \in 1..Len(all) : all[i].id = id
  BY <1>1 DEF HasPanel, Range
<1>3. SelectInSeq(all, LAMBDA p : p.id = id) = Min(I)
  <2>1. I # {}
    BY <1>2
  <2> QED BY <2>1 DEF SelectInSeq
<1>4. Min(I) \in I
  <2>1. I \in SUBSET Nat /\ I # {}
    BY <1>2
  <2> HIDE DEF I
  <2> QED BY <2>1, MinOfPositions
<1>5. FindPanelByID(panels, id) = all[Min(I)]
  BY <1>3 DEF FindPanelByID
<1>6. all[Min(I)] \in AllPanels /\ all[Min(I)].id = id
  BY <1>1, <1>4
<1>7. \A p \in AllPanels : p.ds \in DatasourceRefs /\ p.targets \in Seq(PanelTargets)
  BY DEF AllPanels, PanelsWith
<1> HIDE DEF all, I
<1> QED BY <1>5, <1>6, <1>7

\* Names of a finite set of variables are finite.
LEMMA NamesFinite ==
    ASSUME NEW W, IsFiniteSet(W) PROVE IsFiniteSet({v.name : v \in W})
<1> DEFINE f == [v \in W |-> v.name]
<1>1. f \in Surjection(W, {v.name : v \in W})
  BY DEF Surjection
<1> QED BY <1>1, FS_Surjection

LEMMA RunValueType ==
    ASSUME NEW v \in TemplateVariables, RunValue(v) # Unset PROVE RunValue(v) \in Texts
<1>1. v.current \in Seq(Texts) /\ v.text \in Texts
  BY DEF TemplateVariables
<1>2. v.current # <<>> => Head(v.current) \in Texts
  BY <1>1
<1> QED BY <1>1, <1>2 DEF RunValue

\* Names with a value, and the values of a dashboard.
OwnNames(variables) == {v.name : v \in {w \in variables : RunValue(w) # Unset}}
OwnValue(variables, n) == RunValue(CHOOSE v \in variables : v.name = n)

LEMMA OwnValueOf ==
    ASSUME NEW board, IsDashboard(board), NEW n \in OwnNames(board.variables)
    PROVE  \E v \in board.variables : /\ v.name = n /\ RunValue(v) # Unset
                                      /\ OwnValue(board.variables, n) = RunValue(v)
<1>1. PICK w \in board.variables : w.name = n /\ RunValue(w) # Unset
  BY DEF OwnNames
<1> DEFINE c == CHOOSE v \in board.variables : v.name = n
<1>2. c \in board.variables /\ c.name = n
  BY <1>1
<1>3. c = w
  BY <1>1, <1>2 DEF IsDashboard
<1> QED BY <1>1, <1>3 DEF OwnValue

LEMMA RunVariablesAre ==
    ASSUME NEW variables, NEW overrides
    PROVE  RunVariables(variables, overrides) =
               [n \in DOMAIN overrides \cup OwnNames(variables) |->
                   IF n \in DOMAIN overrides THEN overrides[n] ELSE OwnValue(variables, n)]
BY DEF RunVariables, Effective, OwnNames, OwnValue, Over

LEMMA RunVariablesType ==
    ASSUME NEW board, IsDashboard(board), NEW overrides, IsValues(overrides)
    PROVE  IsValues(RunVariables(board.variables, overrides))
<1> DEFINE own == OwnNames(board.variables)
           D == DOMAIN overrides \cup own
           values == RunVariables(board.variables, overrides)
<1>1. IsFiniteSet(own)
  <2> DEFINE W == {w \in board.variables : RunValue(w) # Unset}
  <2>1. IsFiniteSet(W)
    BY FS_Subset DEF IsDashboard
  <2> HIDE DEF W
  <2>2. IsFiniteSet({v.name : v \in W})
    BY <2>1, NamesFinite
  <2> QED BY <2>2 DEF OwnNames, W
<1>2. IsFiniteSet(D)
  BY <1>1, FS_Union DEF IsValues
<1>3. ASSUME NEW n \in own PROVE OwnValue(board.variables, n) \in Texts
  <2>1. PICK v \in board.variables :
          RunValue(v) # Unset /\ OwnValue(board.variables, n) = RunValue(v)
    BY OwnValueOf
  <2>2. v \in TemplateVariables
    BY DEF IsDashboard
  <2> QED BY <2>1, <2>2, RunValueType
<1>4. values = [n \in D |-> IF n \in DOMAIN overrides THEN overrides[n]
                            ELSE OwnValue(board.variables, n)]
  BY RunVariablesAre
<1>5. \A n \in DOMAIN overrides : overrides[n] \in Texts
  BY DEF IsValues
<1> HIDE DEF own
<1>6. values \in [D -> Texts]
  BY <1>3, <1>4, <1>5
<1> HIDE DEF values, D
<1>7. DOMAIN values = D
  BY <1>6
<1> QED BY <1>2, <1>6, <1>7 DEF IsValues, values
-----------------------------------------------------------------------------
(* What holds of a call in every state *)

ReadTools == {"run_panel_query", "get_dashboard_panel_queries"}

\* A call of a tool that only reads keeps its arguments, and its dashboard too.
Started == \E kind \in Calls : \E start \in kind : call = start.call /\ stored = start.stored
StepsInv ==
    call.tool \in DashboardTools =>
        /\ pc \in {"called", "fetched", "done", "failed"}
        /\ pc = "called" => todo = <<>> /\ results = <<>> /\ errors = {} /\ fetched = Unset
        /\ call.tool # "run_panel_query" => todo = <<>>
ReadInv ==
    call.tool \in ReadTools =>
        /\ Started
        /\ fetched = Unset \/ fetched = stored
        /\ pc \in {"fetched", "done"} => fetched = stored

\* After k panels each of them, and no other, has an outcome.
PanelsDone(k) ==
    /\ DOMAIN results \cup errors = {call.ids[i] : i \in 1..k}
    /\ IsInjective(call.ids) => DOMAIN results \cap errors = {}
PanelsInv ==
    call.tool = "run_panel_query" =>
        /\ pc = "fetched" => \E k \in 0..Len(call.ids) :
             todo = SubSeq(call.ids, k + 1, Len(call.ids)) /\ PanelsDone(k)
        /\ pc = "done" => PanelsDone(Len(call.ids))

\* Every result is what PanelQuery makes of the panel.
Values == RunVariables(fetched.variables, call.vars)
ResultsInv ==
    call.tool = "run_panel_query" =>
        \A id \in DOMAIN results : \E order \in Orders(Values) :
            /\ results[id] = PanelQuery(fetched, call, id, TypeOf, order)
            /\ results[id] # Unset
PreviewInv ==
    call.tool = "get_dashboard_panel_queries" /\ pc = "done" =>
        /\ HasPanel(fetched.panels, call.id)
        /\ \E order \in Orders(PreviewVariables(fetched.variables, call.vars)) :
             results = Only(call.id,
                            ExtractPanelQueries(FindPanelByID(fetched.panels, call.id),
                                PreviewVariables(fetched.variables, call.vars), order))

DashboardInv == StepsInv /\ ReadInv /\ PanelsInv /\ ResultsInv /\ PreviewInv

LEMMA DashboardInit == Init => DashboardInv
<1> SUFFICES ASSUME Init PROVE DashboardInv
  OBVIOUS
<1>1. pc = "called" /\ todo = <<>> /\ results = <<>> /\ errors = {} /\ fetched = Unset /\ Started
  BY DEF Init, Started
<1>2. DOMAIN results = {}
  BY <1>1
<1> QED BY <1>1, <1>2 DEF DashboardInv, StepsInv, ReadInv, PanelsInv, ResultsInv, PreviewInv

\* What a call of run_panel_query may take for granted of its input.
LEMMA StartedRun ==
    ASSUME Started, call.tool = "run_panel_query"
    PROVE  call.ids \in Seq(Int) /\ call.index \in Int
BY CallsAssumption DEF Started

LEMMA StartedRead ==
    ASSUME Started, call.tool \in ReadTools
    PROVE  IsValues(call.vars) /\ IsDashboard(stored)
BY CallsAssumption DEF Started, ReadTools

\* The first panel that is left is the next one.
LEMMA NextPanel ==
    ASSUME NEW ids \in Seq(Int), NEW k \in 0..Len(ids),
           SubSeq(ids, k + 1, Len(ids)) # <<>>
    PROVE  /\ k + 1 \in 0..Len(ids) /\ k + 1 \in DOMAIN ids
           /\ Head(SubSeq(ids, k + 1, Len(ids))) = ids[k + 1]
           /\ Tail(SubSeq(ids, k + 1, Len(ids))) = SubSeq(ids, k + 2, Len(ids))
<1> DEFINE n == Len(ids)
           rest == SubSeq(ids, k + 1, n)
<1>1. n \in Nat /\ k \in Nat /\ k <= n
  OBVIOUS
<1>2. k + 1 <= n
  <2>1. SUFFICES ASSUME k = n PROVE rest = <<>>
    BY <1>1
  <2> QED BY <1>1, <2>1
<1>3. Len(rest) = n - k /\ rest \in Seq(Int) /\ \A i \in 1..n - k : rest[i] = ids[k + i]
  BY <1>1, <1>2
<1>4. rest[1] = ids[k + 1]
  BY <1>1, <1>2, <1>3
<1>5. Tail(rest) = SubSeq(ids, k + 2, n)
  <2>1. Tail(rest) \in Seq(Int) /\ Len(Tail(rest)) = n - k - 1
        /\ \A i \in 1..n - k - 1 : Tail(rest)[i] = rest[i + 1]
    BY <1>1, <1>2, <1>3
  <2>2. SubSeq(ids, k + 2, n) \in Seq(Int) /\ Len(SubSeq(ids, k + 2, n)) = n - k - 1
        /\ \A i \in 1..n - k - 1 : SubSeq(ids, k + 2, n)[i] = ids[k + 1 + i]
    BY <1>1, <1>2
  <2>3. \A i \in 1..n - k - 1 : rest[i + 1] = ids[k + 1 + i]
    BY <1>1, <1>2, <1>3
  <2> QED BY <2>1, <2>2, <2>3
<1>6. k + 1 \in 0..n /\ k + 1 \in DOMAIN ids
  BY <1>1, <1>2
<1> HIDE DEF rest
<1>7. Head(rest) = ids[k + 1]
  BY <1>4
<1> QED BY <1>5, <1>6, <1>7 DEF rest

LEMMA NextKeepsCall == ASSUME [Next]_vars PROVE call' = call
BY DEF Next, Fetch, Fail, Save, RunPanel, RunPanels, Preview, OtherSaves, vars

\* Calls of other tools are no matter.
LEMMA OtherToolsInv ==
    ASSUME call.tool \notin DashboardTools PROVE DashboardInv
BY DEF DashboardTools, ReadTools, DashboardInv, StepsInv, ReadInv, PanelsInv, ResultsInv,
       PreviewInv

\* A step that changes nothing of a call but its end, and not to "done".
LEMMA DashboardKept ==
    ASSUME DashboardInv, call.tool \in DashboardTools,
           UNCHANGED <<call, todo, results, errors, fetched>>,
           call.tool \in ReadTools => UNCHANGED stored,
           pc' = pc \/ pc' = "failed"
    PROVE  DashboardInv'
<1>1. StepsInv'
  BY DEF DashboardInv, StepsInv
<1>2. ReadInv'
  BY DEF DashboardInv, ReadInv, Started
<1>3. PanelsInv'
  BY DEF DashboardInv, PanelsInv, PanelsDone
<1>4. ResultsInv'
  BY DEF DashboardInv, ResultsInv, Values
<1>5. PreviewInv'
  BY DEF DashboardInv, PreviewInv
<1> QED BY <1>1, <1>2, <1>3, <1>4, <1>5 DEF DashboardInv

LEMMA FetchStep == ASSUME DashboardInv, Fetch PROVE DashboardInv'
<1>1. call' = call /\ stored' = stored /\ fetched' = stored /\ pc' = "fetched"
      /\ results' = results /\ errors' = errors /\ call.tool \in DashboardTools
      /\ todo' = IF call.tool = "run_panel_query" THEN call.ids ELSE <<>>
  BY DEF Fetch
<1>2. results = <<>> /\ errors = {}
  BY <1>1 DEF Fetch, DashboardInv, StepsInv
<1>3. DOMAIN results' = {} /\ errors' = {}
  BY <1>1, <1>2
<1>4. StepsInv'
  BY <1>1 DEF StepsInv
<1>5. ReadInv'
  BY <1>1 DEF DashboardInv, ReadInv, Started
<1>6. PanelsInv'
  <2>1. SUFFICES ASSUME call.tool = "run_panel_query"
                 PROVE  \E k \in 0..Len(call'.ids) :
                           todo' = SubSeq(call'.ids, k + 1, Len(call'.ids)) /\ PanelsDone(k)'
    BY <1>1 DEF PanelsInv
  <2>2. call.ids \in Seq(Int)
    BY <2>1, StartedRun DEF DashboardInv, ReadInv, ReadTools
  <2>3. todo' = SubSeq(call.ids, 0 + 1, Len(call.ids)) /\ 0 \in 0..Len(call.ids)
    BY <1>1, <2>1, <2>2
  <2>4. PanelsDone(0)'
    <3>1. 1..0 = {}
      OBVIOUS
    <3> QED BY <1>3, <3>1 DEF PanelsDone
  <2> QED BY <1>1, <2>3, <2>4
<1>7. ResultsInv'
  BY <1>3 DEF ResultsInv
<1>8. PreviewInv'
  BY <1>1 DEF PreviewInv
<1> QED BY <1>4, <1>5, <1>6, <1>7, <1>8 DEF DashboardInv

\* One more panel has an outcome; a result is what PanelQuery makes of it.
LEMMA RunPanelStep ==
    ASSUME DashboardInv, RunPanel, call.tool \in DashboardTools PROVE DashboardInv'
<1> DEFINE id == Head(todo)
<1>1. call' = call /\ stored' = stored /\ fetched' = fetched /\ pc' = pc /\ pc = "fetched"
      /\ todo # <<>> /\ todo' = Tail(todo)
  BY DEF RunPanel
<1>2. call.tool = "run_panel_query"
  BY <1>1 DEF DashboardInv, StepsInv
<1>3. \/ /\ errors' = errors
         /\ \E query : results' = Over(Only(id, query), results)
      \/ errors' = errors \cup {id} /\ results' = results
  BY DEF RunPanel
<1>4. DOMAIN results' \cup errors' = (DOMAIN results \cup errors) \cup {id}
  BY <1>3 DEF Over, Only
<1>5. DOMAIN results' \cap errors' \subseteq (DOMAIN results \cap errors) \cup
            ({id} \cap (DOMAIN results \cup errors))
  BY <1>3 DEF Over, Only
<1>6. StepsInv'
  BY <1>1, <1>2 DEF DashboardInv, StepsInv
<1>7. ReadInv'
  BY <1>1 DEF DashboardInv, ReadInv, Started
<1>8. PanelsInv'
  <2>1. call.ids \in Seq(Int)
    BY <1>2, StartedRun DEF DashboardInv, ReadInv, ReadTools
  <2>2. PICK k \in 0..Len(call.ids) :
          todo = SubSeq(call.ids, k + 1, Len(call.ids)) /\ PanelsDone(k)
    BY <1>1, <1>2 DEF DashboardInv, PanelsInv
  <2>3. /\ k + 1 \in 0..Len(call.ids) /\ k + 1 \in DOMAIN call.ids
        /\ id = call.ids[k + 1]
        /\ todo' = SubSeq(call.ids, (k + 1) + 1, Len(call.ids))
    <3>1. k + 2 = (k + 1) + 1
      OBVIOUS
    <3>2. SubSeq(call.ids, k + 1, Len(call.ids)) # <<>>
      BY <1>1, <2>2
    <3>3. /\ k + 1 \in 0..Len(call.ids) /\ k + 1 \in DOMAIN call.ids
          /\ Head(SubSeq(call.ids, k + 1, Len(call.ids))) = call.ids[k + 1]
          /\ Tail(SubSeq(call.ids, k + 1, Len(call.ids))) = SubSeq(call.ids, k + 2, Len(call.ids))
      <4> DEFINE ids == call.ids
      <4>1. ids \in Seq(Int) /\ k \in 0..Len(ids) /\ SubSeq(ids, k + 1, Len(ids)) # <<>>
        BY <2>1, <3>2
      <4> HIDE DEF ids
      <4>2. /\ k + 1 \in 0..Len(ids) /\ k + 1 \in DOMAIN ids
            /\ Head(SubSeq(ids, k + 1, Len(ids))) = ids[k + 1]
            /\ Tail(SubSeq(ids, k + 1, Len(ids))) = SubSeq(ids, k + 2, Len(ids))
        BY <4>1, NextPanel
      <4> QED BY <4>2 DEF ids
    <3> QED BY <1>1, <2>2, <3>1, <3>3
  <2> DEFINE done(m) == {call.ids[i] : i \in 1..m}
  <2>4. done(k + 1) = done(k) \cup {id}
    BY <2>3
  <2>5. DOMAIN results \cup errors = done(k)
    BY <2>2 DEF PanelsDone
  <2>6. IsInjective(call.ids) => id \notin done(k)
    BY <2>1, <2>3 DEF IsInjective
  <2>7. DOMAIN results' \cup errors' = {call'.ids[i] : i \in 1..k + 1}
    BY <1>1, <1>4, <2>4, <2>5
  <2>8. IsInjective(call'.ids) => DOMAIN results' \cap errors' = {}
    <3> HIDE DEF done, id
    <3>1. IsInjective(call.ids) => DOMAIN results \cap errors = {}
      BY <2>2 DEF PanelsDone
    <3> QED BY <1>1, <1>5, <2>5, <2>6, <3>1
  <2>9. PanelsDone(k + 1)'
    BY <2>7, <2>8 DEF PanelsDone
  <2> QED BY <1>1, <2>3, <2>9 DEF PanelsInv
<1>9. ResultsInv'
  <2>1. Values' = Values
    BY <1>1 DEF Values
  <2>2. SUFFICES ASSUME NEW x \in DOMAIN results'
                 PROVE  \E order \in Orders(Values) :
                          /\ results'[x] = PanelQuery(fetched, call, x, TypeOf, order)
                          /\ results'[x] # Unset
    BY <1>1, <2>1 DEF ResultsInv
  <2>3. \A y \in DOMAIN results : \E order \in Orders(Values) :
            /\ results[y] = PanelQuery(fetched, call, y, TypeOf, order)
            /\ results[y] # Unset
    BY <1>2 DEF DashboardInv, ResultsInv
  <2>4. CASE results' = results
    BY <2>2, <2>3, <2>4
  <2>5. CASE results' # results
    <3>1. PICK order \in Orders(Values) :
            /\ PanelQuery(fetched, call, id, TypeOf, order) # Unset
            /\ results' = Over(Only(id, PanelQuery(fetched, call, id, TypeOf, order)), results)
      BY <2>5 DEF RunPanel, Values
    <3>2. CASE x = id
      <4>1. results'[x] = PanelQuery(fetched, call, id, TypeOf, order)
        BY <3>1, <3>2 DEF Over, Only
      <4> QED BY <3>1, <3>2, <4>1
    <3>3. CASE x # id
      <4>1. x \in DOMAIN results /\ results'[x] = results[x]
        BY <2>2, <3>1, <3>3 DEF Over, Only
      <4> QED BY <2>3, <4>1
    <3> QED BY <3>2, <3>3
  <2> QED BY <2>4, <2>5
<1>10. PreviewInv'
  BY <1>1, <1>2 DEF PreviewInv
<1> QED BY <1>6, <1>7, <1>8, <1>9, <1>10 DEF DashboardInv

LEMMA RunPanelsStep == ASSUME DashboardInv, RunPanels PROVE DashboardInv'
<1>1. UNCHANGED <<call, stored, fetched, todo, results, errors>> /\ pc = "fetched"
      /\ pc' = "done" /\ call.tool = "run_panel_query" /\ todo = <<>>
  BY DEF RunPanels
<1>2. StepsInv'
  BY <1>1 DEF DashboardInv, StepsInv
<1>3. ReadInv'
  BY <1>1 DEF DashboardInv, ReadInv, Started
<1>4. PanelsInv'
  <2>1. call.ids \in Seq(Int)
    BY <1>1, StartedRun DEF DashboardInv, ReadInv, ReadTools
  <2>2. PICK k \in 0..Len(call.ids) :
          todo = SubSeq(call.ids, k + 1, Len(call.ids)) /\ PanelsDone(k)
    BY <1>1 DEF DashboardInv, PanelsInv
  <2>3. k = Len(call.ids)
    BY <1>1, <2>1, <2>2
  <2>4. PanelsDone(Len(call.ids))
    BY <2>2, <2>3
  <2> QED BY <1>1, <2>4 DEF PanelsInv, PanelsDone
<1>5. ResultsInv'
  BY <1>1 DEF DashboardInv, ResultsInv, Values
<1>6. PreviewInv'
  BY <1>1 DEF PreviewInv
<1> QED BY <1>2, <1>3, <1>4, <1>5, <1>6 DEF DashboardInv

LEMMA PreviewStep == ASSUME DashboardInv, Preview PROVE DashboardInv'
<1>1. UNCHANGED <<call, stored, fetched, todo, errors>> /\ pc = "fetched" /\ pc' = "done"
      /\ call.tool = "get_dashboard_panel_queries"
  BY DEF Preview
<1>2. StepsInv'
  BY <1>1 DEF DashboardInv, StepsInv
<1>3. ReadInv'
  BY <1>1 DEF DashboardInv, ReadInv, Started
<1>4. PanelsInv' /\ ResultsInv'
  BY <1>1 DEF PanelsInv, ResultsInv
<1>5. PreviewInv'
  BY <1>1 DEF Preview, PreviewInv
<1> QED BY <1>2, <1>3, <1>4, <1>5 DEF DashboardInv

LEMMA DashboardStep == DashboardInv /\ [Next]_vars => DashboardInv'
<1> SUFFICES ASSUME DashboardInv, [Next]_vars PROVE DashboardInv'
  OBVIOUS
<1>1. call' = call
  BY NextKeepsCall
<1>2. CASE call.tool \notin DashboardTools
  <2>1. call'.tool \notin DashboardTools
    BY <1>1, <1>2
  <2> QED BY <2>1 DEF DashboardTools, ReadTools, DashboardInv, StepsInv, ReadInv, PanelsInv,
                      ResultsInv, PreviewInv
<1>3. CASE call.tool \in DashboardTools
  <2>1. CASE Fetch
    BY <2>1, FetchStep
  <2>2. CASE Fail
    BY <1>3, <2>2, DashboardKept DEF Fail
  <2>3. CASE Save
    <3>1. UNCHANGED <<call, fetched, todo, results, errors>> /\ pc' \in {"done", "failed"}
          /\ pc = "fetched" /\ call.tool = "update_dashboard"
      BY <2>3 DEF Save
    <3>2. StepsInv'
      BY <3>1 DEF DashboardInv, StepsInv
    <3>3. ReadInv' /\ PanelsInv' /\ ResultsInv' /\ PreviewInv'
      BY <3>1 DEF ReadInv, ReadTools, PanelsInv, ResultsInv, PreviewInv
    <3> QED BY <3>2, <3>3 DEF DashboardInv
  <2>4. CASE RunPanel
    BY <1>3, <2>4, RunPanelStep
  <2>5. CASE RunPanels
    BY <2>5, RunPanelsStep
  <2>6. CASE Preview
    BY <2>6, PreviewStep
  <2>7. CASE \E new \in Others : OtherSaves(new)
    BY <1>3, <2>7, DashboardKept DEF OtherSaves, ReadTools
  <2>8. CASE UNCHANGED vars
    BY <1>3, <2>8, DashboardKept DEF vars
  <2> QED BY <2>1, <2>2, <2>3, <2>4, <2>5, <2>6, <2>7, <2>8 DEF Next
<1> QED BY <1>2, <1>3
-----------------------------------------------------------------------------
(* What the properties say follows *)

LEMMA OutcomesFollow == DashboardInv => OneOutcomePerPanel
<1> SUFFICES ASSUME DashboardInv, call.tool = "run_panel_query", pc = "done"
             PROVE  /\ DOMAIN results \cup errors = Range(call.ids)
                    /\ IsInjective(call.ids) => DOMAIN results \cap errors = {}
  BY DEF OneOutcomePerPanel
<1>1. call.ids \in Seq(Int)
  BY StartedRun DEF DashboardInv, ReadInv, ReadTools
<1>2. PanelsDone(Len(call.ids))
  BY DEF DashboardInv, PanelsInv
<1>3. Range(call.ids) = {call.ids[i] : i \in 1..Len(call.ids)}
  BY <1>1 DEF Range
<1> QED BY <1>2, <1>3 DEF PanelsDone

\* A datasource that is found has the type that Grafana knows, or one that was
\* stated.
LEMMA LookUpIsRight ==
    ASSUME NEW ds, NEW found, found = LookUpType(ds, TypeOf), found # Unset,
           found.type \in Supported
    PROVE  \/ found = ds /\ ds.type # ""
           \/ ds.type = "" /\ OfItsType(found)
<1>1. ds # Unset
  BY DEF LookUpType
<1>2. CASE ds.type # "" \/ ds.uid = Empty
  <2>1. found = ds
    BY <1>1, <1>2 DEF LookUpType
  <2>2. "" \notin Supported
    BY DEF Supported
  <2> QED BY <2>1, <2>2
<1>3. CASE ~(ds.type # "" \/ ds.uid = Empty)
  <2>1. found = IF ds.uid \in DOMAIN TypeOf
                THEN [uid |-> ds.uid, type |-> TypeOf[ds.uid]] ELSE Unset
    BY <1>1, <1>3 DEF LookUpType
  <2>2. ds.uid \in DOMAIN TypeOf /\ found = [uid |-> ds.uid, type |-> TypeOf[ds.uid]]
    BY <2>1
  <2>3. found.uid = ds.uid /\ found.type = TypeOf[ds.uid]
    BY <2>2
  <2> QED BY <1>3, <2>2, <2>3 DEF OfItsType
<1> QED BY <1>2, <1>3

LEMMA RoutingFollows == DashboardInv => RoutedByType
<1> SUFFICES ASSUME DashboardInv, call.tool = "run_panel_query", NEW id \in DOMAIN results,
                    StatedRight(RunDatasource(FindPanelByID(fetched.panels, id),
                        FindPanelByID(fetched.panels, id).targets[call.index + 1])),
                    call.uid # Empty => (call.type # "" /\ OfItsType(call))
             PROVE  OfItsType(results[id])
  BY DEF RoutedByType
<1> DEFINE panel == FindPanelByID(fetched.panels, id)
           stated == RunDatasource(panel, panel.targets[call.index + 1])
           resolved == ResolveDatasource(stated, call, Values)
           found == LookUpType(resolved, TypeOf)
<1>1. PICK order \in Orders(Values) :
        results[id] = PanelQuery(fetched, call, id, TypeOf, order) /\ results[id] # Unset
  BY DEF DashboardInv, ResultsInv
<1>2. /\ found # Unset /\ found.type \in Supported
      /\ results[id].uid = found.uid /\ results[id].type = found.type
  <2> DEFINE query == SubstituteTemplateVariables(panel.targets[call.index + 1].query, Values,
                                                  order)
  <2>1. PanelQuery(fetched, call, id, TypeOf, order) =
          IF HasPanel(fetched.panels, id) /\ CanExtract(panel, call.index)
             /\ found # Unset /\ found.type \in Supported
          THEN [uid |-> found.uid, type |-> found.type, query |-> query] ELSE Unset
    BY DEF PanelQuery, Values
  <2> HIDE DEF found, query
  <2> DEFINE sent == [uid |-> found.uid, type |-> found.type, query |-> query]
  <2>2. sent.uid = found.uid /\ sent.type = found.type
    OBVIOUS
  <2>3. found # Unset /\ found.type \in Supported /\ results[id] = sent
    BY <1>1, <2>1
  <2> HIDE DEF sent
  <2> QED BY <2>2, <2>3
<1> HIDE DEF found
<1>3. \/ found = resolved /\ resolved.type # ""
      \/ resolved.type = "" /\ OfItsType(found)
  <2> HIDE DEF resolved
  <2> QED BY <1>2, LookUpIsRight DEF found
<1>4. OfItsType(found)
  <2>1. SUFFICES ASSUME found = resolved, resolved.type # "" PROVE OfItsType(resolved)
    BY <1>3
  <2>2. CASE call.uid # Empty
    <3>1. call.type # ""
      BY <2>2
    <3> DEFINE named == [uid |-> call.uid, type |-> call.type]
    <3>2. resolved = named
      BY <2>2, <3>1 DEF ResolveDatasource
    <3>3. named.uid = call.uid /\ named.type = call.type
      OBVIOUS
    <3> HIDE DEF resolved, named
    <3> QED BY <2>2, <3>2, <3>3 DEF OfItsType
  <2>3. CASE call.uid = Empty
    <3>1. resolved = ResolveReference(stated, Values)
      BY <2>3 DEF ResolveDatasource
    <3>2. CASE IsVariableReference(stated.uid)
      <4>1. resolved # Unset
        BY <1>2, <2>1
      <4> DEFINE ref == Head(stated.uid)
                 plain == [uid |-> Values[ref[2]], type |-> ""]
      <4>2. resolved = plain \/ resolved = Unset
        BY <3>1, <3>2 DEF ResolveReference
      <4>3. plain.type = ""
        OBVIOUS
      <4> HIDE DEF resolved, plain
      <4>4. resolved.type = ""
        BY <4>1, <4>2, <4>3
      <4> QED BY <2>1, <4>4
    <3>3. CASE ~IsVariableReference(stated.uid)
      <4>1. resolved = stated
        BY <3>1, <3>3 DEF ResolveReference
      <4> QED BY <2>1, <3>3, <4>1 DEF StatedRight
    <3> QED BY <3>2, <3>3
  <2> QED BY <2>2, <2>3
<1> QED BY <1>2, <1>4 DEF OfItsType

LEMMA SubstitutionFollows == DashboardInv => SubstitutedOnce
<1> SUFFICES ASSUME DashboardInv, call.tool = "run_panel_query", fetched # Unset,
                    PlainValues(Values), NEW id \in DOMAIN results
             PROVE  results[id].query = ReplaceRefs(
                        FindPanelByID(fetched.panels, id).targets[call.index + 1].query,
                        {"braces", "simple", "brackets"}, Values)
  BY DEF SubstitutedOnce, Values
<1> DEFINE panel == FindPanelByID(fetched.panels, id)
           target == panel.targets[call.index + 1]
<1>1. PICK order \in Orders(Values) :
        results[id] = PanelQuery(fetched, call, id, TypeOf, order) /\ results[id] # Unset
  BY DEF DashboardInv, ResultsInv
<1>2. /\ HasPanel(fetched.panels, id) /\ CanExtract(panel, call.index)
      /\ results[id].query = SubstituteTemplateVariables(target.query, Values, order)
  BY <1>1 DEF PanelQuery, Values
<1>3. IsValues(call.vars) /\ IsDashboard(fetched)
  BY StartedRead DEF DashboardInv, ReadInv, ReadTools
<1>4. IsValues(Values)
  BY <1>3, RunVariablesType DEF Values
<1>5. panel.targets \in Seq(PanelTargets)
  BY <1>2, <1>3, FindPanelType DEF IsDashboard
<1>6. target \in PanelTargets
  BY <1>2, <1>5 DEF CanExtract
<1>7. target.query \in Texts
  BY <1>6 DEF PanelTargets
<1> HIDE DEF target
<1>8. SubstituteTemplateVariables(target.query, Values, order)
        = ReplaceRefs(target.query, AllForms, Values)
  BY <1>4, <1>7, TemplateIsReplaced
<1> QED BY <1>2, <1>8 DEF AllForms, target

-----------------------------------------------------------------------------
(* What is shown is what is run *)

LEMMA FlattenOne ==
    ASSUME NEW T, NEW s \in Seq(T) PROVE FlattenSeq(<<s>>) = s
<1>1. <<>> \in Seq(Seq(T)) /\ Append(<<>>, s) = <<s>> /\ <<>> \o s = s
  OBVIOUS
<1>2. FlattenSeq(Append(<<>>, s)) = FlattenSeq(<<>>) \o s
  BY <1>1, FlattenAppend
<1> QED BY <1>1, <1>2, FlattenEmpty

\* One plain current value is the value of the variable for either tool.
LEMMA OneValueIsBoth ==
    ASSUME NEW v \in TemplateVariables, OneValue(v)
    PROVE  /\ RunValue(v) = Head(v.current) /\ PreviewValue(v) = RunValue(v)
           /\ RunValue(v) # Unset /\ Plain(RunValue(v)) /\ RunValue(v) \in Texts
<1> DEFINE c == v.current[1]
<1>1. v.current \in Seq(Texts) /\ Len(v.current) = 1
  BY DEF TemplateVariables, OneValue
<1>2. Head(v.current) = c /\ c \in Texts /\ v.current # <<>> /\ v.current = <<c>>
  BY <1>1
<1>3. c # Empty /\ Plain(c)
  BY <1>2 DEF OneValue
<1>4. c # AllValues
  <2> SUFFICES ASSUME c = AllValues PROVE FALSE
    OBVIOUS
  <2>1. 1 \in DOMAIN c /\ c[1][1] = "simple"
    BY DEF AllValues
  <2> QED BY <1>3, <2>1 DEF Plain, Refers
<1>5. c # Unset
  BY <1>2, UnsetAssumption
<1>6. RunValue(v) = c
  BY <1>2, <1>3, <1>4, <1>5 DEF RunValue
<1>7. FlattenSeq(<<c>>) = c
  BY <1>2, FlattenOne DEF Texts
<1>8. [i \in DOMAIN v.current |->
         IF i = 1 THEN v.current[i] ELSE <<Lit(",")>> \o v.current[i]] = <<c>>
  <2> HIDE DEF c
  <2> QED BY <1>2
<1>9. PreviewValue(v) = c
  <2> HIDE DEF c
  <2> QED BY <1>3, <1>7, <1>8 DEF PreviewValue
<1> QED BY <1>2, <1>3, <1>5, <1>6, <1>9

\* Then both tools know the same values, and plain ones.
LEMMA SameValues ==
    ASSUME NEW board, IsDashboard(board), NEW overrides,
           \A v \in board.variables : OneValue(v)
    PROVE  /\ PreviewVariables(board.variables, overrides)
                = RunVariables(board.variables, overrides)
           /\ PlainValues(overrides) => PlainValues(RunVariables(board.variables, overrides))
<1> DEFINE V == board.variables
           pv == PreviewVariables(V, overrides)
           rv == RunVariables(V, overrides)
           previewNames == {v.name : v \in {w \in V : PreviewValue(w) # Unset}}
<1>1. \A v \in V : PreviewValue(v) = RunValue(v) /\ RunValue(v) # Unset /\ Plain(RunValue(v))
  BY OneValueIsBoth DEF IsDashboard
<1>2. previewNames = OwnNames(V)
  BY <1>1 DEF OwnNames
<1>3. ASSUME NEW n \in OwnNames(V)
      PROVE  /\ PreviewValue(CHOOSE v \in V : v.name = n) = OwnValue(V, n)
             /\ Plain(OwnValue(V, n))
  <2> DEFINE c == CHOOSE v \in V : v.name = n
  <2>1. c \in V
    BY DEF OwnNames
  <2> QED BY <1>1, <2>1 DEF OwnValue
<1>4. rv = [n \in DOMAIN overrides \cup OwnNames(V) |->
              IF n \in DOMAIN overrides THEN overrides[n] ELSE OwnValue(V, n)]
  BY RunVariablesAre
<1>5. pv = [n \in DOMAIN overrides \cup previewNames |->
              IF n \in DOMAIN overrides THEN overrides[n]
              ELSE PreviewValue(CHOOSE v \in V : v.name = n)]
  BY DEF PreviewVariables, Effective, Over
<1> HIDE DEF previewNames, pv, rv
<1>6. pv = rv
  BY <1>2, <1>3, <1>4, <1>5
<1>7. PlainValues(overrides) => PlainValues(rv)
  BY <1>3, <1>4 DEF PlainValues
<1> QED BY <1>6, <1>7 DEF pv, rv, V

\* A reference alone becomes its value.
LEMMA LoneReference ==
    ASSUME NEW values, IsValues(values), NEW uid \in Texts, Len(uid) = 1,
           uid[1][1] \in AllForms, uid[1][2] \in DOMAIN values
    PROVE  ReplaceRefs(uid, AllForms, values) = values[uid[1][2]]
<1> DEFINE v == values[uid[1][2]]
<1>1. v \in Texts
  BY DEF IsValues
<1>2. [i \in DOMAIN uid |->
         IF uid[i][1] \in AllForms /\ uid[i][2] \in DOMAIN values
         THEN values[uid[i][2]] ELSE <<uid[i]>>] = <<v>>
  BY DEF Texts
<1>3. FlattenSeq(<<v>>) = v
  BY <1>1, FlattenOne DEF Texts
<1> HIDE DEF v
<1>4. ReplaceRefs(uid, AllForms, values) = v
  BY <1>2, <1>3 DEF ReplaceRefs
<1> QED BY <1>4 DEF v

\* The datasource that is shown is the one that is asked.
LEMMA SameDatasource ==
    ASSUME NEW values, IsValues(values), PlainValues(values), NEW order \in Orders(values),
           NEW ds \in DatasourceRefs, NameOrReference(ds.uid),
           NEW found, found = LookUpType(ResolveReference(ds, values), TypeOf), found # Unset
    PROVE  SubstituteVariables(ds.uid, values, order) = found.uid
<1> DEFINE uid == ds.uid
           resolved == ResolveReference(ds, values)
<1>1. uid \in Texts
  BY DEF DatasourceRefs
<1>2. resolved # Unset /\ found.uid = resolved.uid
  BY DEF LookUpType
<1>3. CASE Plain(uid)
  <2>1. ~IsVariableReference(uid)
    BY <1>1, <1>3 DEF IsVariableReference, Plain, Texts, Empty
  <2>2. resolved = ds
    BY <2>1 DEF ResolveReference
  <2>3. NoOption(uid)
    BY <1>3 DEF NoOption, Plain, Refers
  <2>4. SubstituteVariables(uid, values, order) = ReplaceRefs(uid, AllForms, values)
    BY <1>1, <2>3, VariablesAreReplaced
  <2>5. Known(Refs(AllForms, DOMAIN values), values)
    BY RefsKnown DEF KnownPlain, AllForms
  <2>6. ReplaceRefs(uid, AllForms, values) = uid
    BY <1>1, <1>3, <2>5, ReplaceIsFilled, FilledPlain
  <2> QED BY <1>2, <2>2, <2>4, <2>6
<1>4. CASE ~Plain(uid)
  <2>1. Len(uid) = 1 /\ Head(uid) = uid[1] /\ DOMAIN uid = {1} /\ uid # <<>>
    BY <1>1, <1>4 DEF NameOrReference, Texts
  <2>2. IsVariableReference(uid)
    BY <1>4, <2>1 DEF IsVariableReference, Plain, Empty
  <2>3. /\ uid[1][1] # "option" /\ uid[1][2] \in DOMAIN values
        /\ resolved = [uid |-> values[uid[1][2]], type |-> ""]
    BY <1>2, <2>1, <2>2 DEF ResolveReference
  <2>4. uid[1][1] \in AllForms
    <3>1. uid[1] \in Pieces
      BY <1>1, <2>1 DEF Texts
    <3>2. uid[1][1] \in {"literal", "braces", "option", "simple", "brackets"}
      BY <3>1 DEF Pieces
    <3>3. uid[1][1] # "literal"
      BY <2>1, <2>2 DEF IsVariableReference, Refers
    <3> QED BY <2>3, <3>2, <3>3 DEF AllForms
  <2>5. NoOption(uid)
    BY <2>1, <2>3 DEF NoOption
  <2>6. SubstituteVariables(uid, values, order) = ReplaceRefs(uid, AllForms, values)
    BY <1>1, <2>5, VariablesAreReplaced
  <2>7. ReplaceRefs(uid, AllForms, values) = values[uid[1][2]]
    BY <1>1, <2>1, <2>3, <2>4, LoneReference
  <2>8. resolved.uid = values[uid[1][2]]
    <3> HIDE DEF resolved, uid
    <3> QED BY <2>3
  <2> QED BY <1>2, <2>6, <2>7, <2>8
<1> QED BY <1>3, <1>4

LEMMA ShowingFollows == DashboardInv => ShowsWhatRuns
<1> DEFINE panel == FindPanelByID(fetched.panels, call.id)
           target == panel.targets[1]
           ds == RunDatasource(panel, target)
           run == [index |-> 0, vars |-> call.vars, uid |-> Empty, type |-> ""]
           rest == SetToSeq(DOMAIN Values)
           sent == PanelQuery(fetched, run, call.id, TypeOf, rest)
<1> SUFFICES ASSUME DashboardInv, call.tool = "get_dashboard_panel_queries", pc = "done",
                    \A v \in fetched.variables : OneValue(v), PlainValues(call.vars),
                    sent # Unset, NameOrReference(ds.uid), target.query # Empty,
                    NoOption(target.query)
             PROVE  results[call.id][1].query = sent.query /\ results[call.id][1].uid = sent.uid
  BY DEF ShowsWhatRuns, Values
<1>1. IsValues(call.vars) /\ IsDashboard(fetched)
  BY StartedRead DEF DashboardInv, ReadInv, ReadTools
<1>2. IsValues(Values) /\ PlainValues(Values)
  BY <1>1, RunVariablesType, SameValues DEF Values
<1>3. PreviewVariables(fetched.variables, call.vars) = Values
  BY <1>1, SameValues DEF Values
<1>4. PICK order \in Orders(Values) :
        results = Only(call.id, ExtractPanelQueries(panel, Values, order))
  BY <1>3 DEF DashboardInv, PreviewInv
<1>5. results[call.id] = ExtractPanelQueries(panel, Values, order)
  BY <1>4 DEF Only
<1> DEFINE found == LookUpType(ResolveDatasource(ds, run, Values), TypeOf)
<1>6. run.index = 0 /\ run.vars = call.vars /\ run.uid = Empty
  OBVIOUS
<1> HIDE DEF run
<1>7. /\ HasPanel(fetched.panels, call.id) /\ CanExtract(panel, 0) /\ found # Unset
      /\ sent.query = SubstituteTemplateVariables(target.query, Values, rest)
      /\ sent.uid = found.uid
  <2>1. /\ HasPanel(fetched.panels, call.id) /\ CanExtract(panel, 0) /\ found # Unset
        /\ sent = [uid |-> found.uid, type |-> found.type,
                   query |-> SubstituteTemplateVariables(target.query, Values, rest)]
    BY <1>6 DEF PanelQuery, Values
  <2> HIDE DEF sent, found, rest
  <2> QED BY <2>1
<1>8. found = LookUpType(ResolveReference(ds, Values), TypeOf)
  BY <1>6 DEF ResolveDatasource
<1> HIDE DEF sent, found
<1>9. panel.targets \in Seq(PanelTargets) /\ panel.ds \in DatasourceRefs
  BY <1>1, <1>7, FindPanelType DEF IsDashboard
<1>10. 1 \in DOMAIN panel.targets
  BY <1>7 DEF CanExtract
<1>11. target \in PanelTargets
  BY <1>9, <1>10
<1>12. target.query \in Texts /\ target.ds \in DatasourceRefs
  BY <1>11 DEF PanelTargets
<1>13. ds \in DatasourceRefs
  BY <1>9, <1>12 DEF RunDatasource
<1> DEFINE shown == Those(panel.targets, {t \in Range(panel.targets) : t.query # Empty})
<1>14. 1 \in DOMAIN shown /\ shown[1] = target
  <2> DEFINE withQuery == {t \in Range(panel.targets) : t.query # Empty}
  <2>1. target \in withQuery /\ panel.targets # <<>>
    BY <1>10 DEF Range
  <2> HIDE DEF withQuery
  <2>2. 1 \in DOMAIN Those(panel.targets, withQuery) /\ Those(panel.targets, withQuery)[1] = target
    BY <1>9, <2>1, ThoseHead
  <2> QED BY <2>2 DEF withQuery
<1>15. /\ results[call.id][1].query = SubstituteVariables(target.query, Values, order)
       /\ results[call.id][1].uid
            = SubstituteVariables(PreviewDatasource(panel, target).uid, Values, order)
  <2> HIDE DEF shown, target
  <2>1. results[call.id][1] = [
          uid |-> SubstituteVariables(PreviewDatasource(panel, target).uid, Values, order),
          type |-> PreviewDatasource(panel, target).type,
          query |-> SubstituteVariables(target.query, Values, order)]
    BY <1>5, <1>14 DEF ExtractPanelQueries, shown
  <2> QED BY <2>1
<1>16. PreviewDatasource(panel, target).uid = ds.uid
  BY DEF PreviewDatasource, RunDatasource
<1> HIDE DEF target, ds, shown
<1>17. SubstituteVariables(ds.uid, Values, order) = found.uid
  BY <1>2, <1>7, <1>8, <1>13, SameDatasource
<1>18. /\ SubstituteVariables(target.query, Values, order)
            = ReplaceRefs(target.query, AllForms, Values)
       /\ sent.query = ReplaceRefs(target.query, AllForms, Values)
  <2>1. rest \in Orders(Values)
    BY <1>2, SetToSeqIsOrder
  <2> HIDE DEF rest
  <2> QED BY <1>2, <1>7, <1>12, <2>1, VariablesAreReplaced, TemplateIsReplaced
<1> QED BY <1>7, <1>15, <1>16, <1>17, <1>18

-----------------------------------------------------------------------------
(* What one operation does to a document *)

\* The recursive definitions of Levels and ApplyJSONPath have a value.
LevelOf(doc, path, i, before) ==
    CASE i = 1 -> doc
      [] i # 1 /\ before = Error -> Error
      [] OTHER -> Navigate(before, path[i - 1])
LEMMA LevelsAre ==
    ASSUME NEW doc, NEW path \in Seq(Segments)
    PROVE  /\ DOMAIN Levels(doc, path) = 1..Len(path)
           /\ Levels(doc, path) = [i \in 1..Len(path) |-> Levels(doc, path)[i]]
           /\ \A i \in 1..Len(path) :
                Levels(doc, path)[i] = LevelOf(doc, path, i, Levels(doc, path)[i - 1])
<1> DEFINE Rec(it, m) == it = [i \in 1..m |-> LevelOf(doc, path, i, it[i - 1])]
           P == {m \in Nat : \E it : Rec(it, m)}
           n == Len(path)
           level == CHOOSE it : Rec(it, n)
<1>1. 0 \in P
  <2>1. Rec([i \in 1..0 |-> doc], 0)
    OBVIOUS
  <2> QED BY <2>1
<1>2. ASSUME NEW m \in Nat, m \in P PROVE m + 1 \in P
  <2>1. PICK it : Rec(it, m)
    BY <1>2
  <2> DEFINE new == [i \in 1..m + 1 |-> IF i = m + 1 THEN LevelOf(doc, path, i, it[i - 1]) ELSE it[i]]
  <2>2. ASSUME NEW i \in 1..m + 1 PROVE new[i] = LevelOf(doc, path, i, new[i - 1])
    <3>1. new[i] = LevelOf(doc, path, i, it[i - 1])
      <4>1. CASE i = m + 1
        BY <4>1
      <4>2. CASE i # m + 1
        <5>1. i \in 1..m
          BY <4>2
        <5> QED BY <2>1, <4>2, <5>1
      <4> QED BY <4>1, <4>2
    <3>2. CASE i = 1
      BY <3>1, <3>2 DEF LevelOf
    <3>3. CASE i # 1
      <4>1. i - 1 \in 1..m + 1 /\ i - 1 # m + 1
        BY <3>3
      <4>2. new[i - 1] = it[i - 1]
        BY <4>1
      <4> QED BY <3>1, <4>2
    <3> QED BY <3>2, <3>3
  <2>3. new = [i \in 1..m + 1 |-> new[i]]
    OBVIOUS
  <2> HIDE DEF new
  <2>4. Rec(new, m + 1)
    BY <2>2, <2>3
  <2> QED BY <2>4
<1>3. n \in P
  <2>1. n \in Nat
    OBVIOUS
  <2> HIDE DEF P, n
  <2> QED BY <1>1, <1>2, <2>1, NatInd
<1>4. Rec(level, n)
  <2>1. \E it : Rec(it, n)
    BY <1>3
  <2> HIDE DEF Rec
  <2> QED BY <2>1
<1>5. Levels(doc, path) = level
  BY DEF Levels, LevelOf
<1> HIDE DEF level
<1> QED BY <1>4, <1>5

Leaf(obj, op, seg) ==
    IF op.op = "remove" THEN RemoveAtSegment(obj, seg) ELSE SetAtSegment(obj, seg, op.value)
ChangedAt(level, op, i, next) ==
    CASE i = Len(op.path) -> Leaf(level[i], op, op.path[i])
      [] i # Len(op.path) /\ next = Error -> Error
      [] OTHER -> PutBack(level[i], op.path[i], next)
LEMMA ChangedIs ==
    ASSUME NEW doc, NEW op, op.path \in Seq(Segments), ApplyJSONPath(doc, op) # Error
    PROVE  LET level == Levels(doc, op.path) IN
           /\ op.path # <<>> /\ Error \notin Range(level)
           /\ \E changed :
                /\ ApplyJSONPath(doc, op) = changed[1]
                /\ \A i \in 1..Len(op.path) :
                      changed[i] = ChangedAt(level, op, i, changed[i + 1])
<1> DEFINE n == Len(op.path)
           level == Levels(doc, op.path)
           Rec(it, m) == it = [i \in n - m + 1..n |-> ChangedAt(level, op, i, it[i + 1])]
           P == {m \in Nat : \E it : Rec(it, m)}
           Whole(it) == it = [i \in 1..n |-> ChangedAt(level, op, i, it[i + 1])]
           changed == CHOOSE it : Whole(it)
<1>0. n \in Nat
  OBVIOUS
<1>1. 0 \in P
  <2>1. n - 0 + 1..n = {}
    BY <1>0
  <2>2. Rec([i \in n - 0 + 1..n |-> doc], 0)
    BY <2>1
  <2> QED BY <2>2
<1> HIDE DEF n, level
<1>2. ASSUME NEW m \in Nat, m \in P PROVE m + 1 \in P
  <2>1. PICK it : Rec(it, m)
    BY <1>2
  <2> DEFINE k == n - (m + 1) + 1
             new == [i \in k..n |-> IF i = k THEN ChangedAt(level, op, i, it[i + 1]) ELSE it[i]]
  <2>2. ASSUME NEW i \in k..n PROVE new[i] = ChangedAt(level, op, i, new[i + 1])
    <3>1. new[i] = ChangedAt(level, op, i, it[i + 1])
      <4>1. CASE i = k
        BY <4>1
      <4>2. CASE i # k
        <5>1. i \in n - m + 1..n
          BY <1>0, <4>2
        <5> QED BY <2>1, <4>2, <5>1
      <4> QED BY <4>1, <4>2
    <3>2. CASE i = n
      BY <3>1, <3>2 DEF ChangedAt, n
    <3>3. CASE i # n
      <4>1. i + 1 \in k..n /\ i + 1 # k
        BY <1>0, <3>3
      <4>2. new[i + 1] = it[i + 1]
        BY <4>1
      <4> QED BY <3>1, <4>2
    <3> QED BY <3>2, <3>3
  <2>3. new = [i \in k..n |-> new[i]]
    OBVIOUS
  <2> HIDE DEF new
  <2>4. Rec(new, m + 1)
    BY <2>2, <2>3
  <2>5. m + 1 \in Nat
    OBVIOUS
  <2> HIDE DEF Rec
  <2> QED BY <2>4, <2>5, Zenon
<1>3. n \in P
  <2> HIDE DEF P
  <2> QED BY <1>0, <1>1, <1>2, NatInd
<1>4. Whole(changed)
  <2>1. n - n + 1 = 1
    BY <1>0
  <2>2. \E it : Whole(it)
    BY <1>3, <2>1
  <2> HIDE DEF Whole
  <2> QED BY <2>2
<1>5. ApplyJSONPath(doc, op) = IF op.path = <<>> \/ Error \in Range(level) THEN Error ELSE changed[1]
  BY DEF ApplyJSONPath, ChangedAt, Leaf, n, level
<1> HIDE DEF changed
<1>6. \A i \in 1..n : changed[i] = ChangedAt(level, op, i, changed[i + 1])
  BY <1>4
<1> QED BY <1>5, <1>6 DEF n, level

\* The first two objects on the way: each is changed by the last segment, or gets back
\* the changed object below.
Changed(obj, op, seg, new) == new = Leaf(obj, op, seg) \/ \E child : new = PutBack(obj, seg, child)
LEMMA OperationIs ==
    ASSUME NEW doc, NEW op, op.path \in Seq(Segments), ApplyOperation(doc, op) # Error
    PROVE  LET path == op.path
               n == Len(path)
               c == ApplyOperation(doc, op)
           IN /\ path # <<>> /\ n \in Nat /\ n >= 1 /\ doc # Error
              /\ op.op \in {"replace", "add", "remove"}
              /\ n = 1 => c = Leaf(doc, op, path[1])
              /\ n >= 2 => \E below :
                   /\ below # Error /\ Navigate(doc, path[1]) # Error
                   /\ c = PutBack(doc, path[1], below)
                   /\ n = 2 => below = Leaf(Navigate(doc, path[1]), op, path[2])
                   /\ Changed(Navigate(doc, path[1]), op, path[2], below)
<1> DEFINE path == op.path
           n == Len(path)
           c == ApplyOperation(doc, op)
           level == Levels(doc, path)
<1>1. doc # Error /\ op.op \in {"replace", "add", "remove"} /\ c = ApplyJSONPath(doc, op)
  BY DEF ApplyOperation
<1>2. path # <<>> /\ Error \notin Range(level)
  BY <1>1, ChangedIs
<1>3. n \in Nat /\ n >= 1
  BY <1>2
<1>4. PICK changed :
         /\ c = changed[1]
         /\ \A i \in 1..n : changed[i] = ChangedAt(level, op, i, changed[i + 1])
  BY <1>1, ChangedIs
<1>5. /\ DOMAIN level = 1..n
      /\ \A i \in 1..n : level[i] = LevelOf(doc, path, i, level[i - 1])
  BY LevelsAre
<1>6. \A i \in 1..n : level[i] # Error
  BY <1>2, <1>5 DEF Range
<1> HIDE DEF c, level
<1>7. level[1] = doc /\ (n >= 2 => level[2] = Navigate(doc, path[1]) /\ level[2] # Error)
  <2>1. level[1] = doc
    <3>1. 1 \in 1..n
      BY <1>3
    <3> QED BY <1>5, <3>1 DEF LevelOf
  <2>2. ASSUME n >= 2 PROVE level[2] = Navigate(doc, path[1]) /\ level[2] # Error
    <3>1. 2 \in 1..n /\ 2 - 1 = 1
      BY <1>3, <2>2
    <3>2. level[2] = LevelOf(doc, path, 2, level[1]) /\ level[2] # Error
      BY <1>5, <1>6, <3>1
    <3> QED BY <2>1, <3>2, <1>1 DEF LevelOf
  <2> QED BY <2>1, <2>2
<1>8. ASSUME n = 1 PROVE c = Leaf(doc, op, path[1])
  <2>1. 1 \in 1..n
    BY <1>3
  <2>2. c = ChangedAt(level, op, 1, changed[1 + 1])
    BY <1>4, <2>1
  <2> QED BY <1>7, <1>8, <2>2 DEF ChangedAt
<1>9. ASSUME n >= 2
      PROVE  /\ changed[2] # Error
             /\ c = PutBack(doc, path[1], changed[2])
             /\ n = 2 => changed[2] = Leaf(level[2], op, path[2])
             /\ Changed(level[2], op, path[2], changed[2])
  <2>1. 1 \in 1..n /\ 2 \in 1..n /\ 1 + 1 = 2 /\ 2 + 1 = 3 /\ 1 # n
    <3> HIDE DEF n
    <3> QED BY <1>3, <1>9
  <2>2. c = ChangedAt(level, op, 1, changed[2]) /\ changed[2] = ChangedAt(level, op, 2, changed[3])
    BY <1>4, <2>1
  <2>3. c # Error
    BY DEF c
  <2>4. changed[2] # Error /\ c = PutBack(doc, path[1], changed[2])
    BY <1>7, <2>1, <2>2, <2>3 DEF ChangedAt
  <2>5. n = 2 => changed[2] = Leaf(level[2], op, path[2])
    BY <2>2 DEF ChangedAt
  <2>6. Changed(level[2], op, path[2], changed[2])
    BY <2>2, <2>4, <2>5 DEF ChangedAt, Changed
  <2> QED BY <2>4, <2>5, <2>6
<1> QED BY <1>1, <1>2, <1>3, <1>7, <1>8, <1>9 DEF c

\* A field of an object is the list s.
HasList(obj, key, s) == key \in DOMAIN Of(obj) /\ Of(obj)[key] = Arr(s)

LEMMA OtherFields ==
    ASSUME NEW obj, NEW op, NEW seg, NEW key, key # seg.key, NEW s, HasList(obj, key, s),
           NEW new, new # Error, Changed(obj, op, seg, new)
    PROVE  HasList(new, key, s) /\ Kind(new) = "object"
<1>1. ASSUME NEW value, new = Put(obj, seg.key, value) PROVE HasList(new, key, s) /\ Kind(new) = "object"
  <2> DEFINE k0 == seg.key
             v0 == value
  <2>0. new = Put(obj, k0, v0)
    BY <1>1
  <2> HIDE DEF k0, v0
  <2>2. LET put == Put(obj, k0, v0) IN
        /\ Kind(put) = "object" /\ put # Error
        /\ DOMAIN Of(put) = DOMAIN Of(obj) \cup {k0}
        /\ Of(put)[k0] = v0
        /\ \A k \in DOMAIN Of(obj) : k # k0 => Of(put)[k] = Of(obj)[k]
    BY DEF Put, Obj, Kind, Of, Error
  <2>1. /\ Kind(new) = "object" /\ DOMAIN Of(new) = DOMAIN Of(obj) \cup {k0}
        /\ \A k \in DOMAIN Of(obj) : k # k0 => Of(new)[k] = Of(obj)[k]
    BY <2>0, <2>2
  <2> QED BY <2>1 DEF HasList, k0
<1> DEFINE without == Obj([k \in DOMAIN Of(obj) \ {seg.key} |-> Of(obj)[k]])
<1>2. new = without => HasList(new, key, s) /\ Kind(new) = "object"
  BY DEF HasList, Obj, Of, Kind
<1>3. new = without \/ \E value : new = Put(obj, seg.key, value)
  BY DEF Changed, Leaf, RemoveAtSegment, SetAtSegment, PutBack
<1> HIDE DEF without
<1> QED BY <1>1, <1>2, <1>3

\* A removal of an element of the list, or an addition at its end.
LEMMA LeafOnList ==
    ASSUME NEW obj, NEW op, NEW seg \in Segments, NEW s, HasList(obj, seg.key, s),
           Leaf(obj, op, seg) # Error
    PROVE  LET new == Leaf(obj, op, seg) IN
           /\ op.op = "remove" /\ ~seg.append /\ seg.index # NoIndex =>
                /\ seg.index < Len(s)
                /\ HasList(new, seg.key, RemoveAt(s, seg.index + 1)) /\ Kind(new) = "object"
           /\ op.op # "remove" /\ seg.append =>
                HasList(new, seg.key, Append(s, op.value)) /\ Kind(new) = "object"
<1>1. Of(Of(obj)[seg.key]) = s
  BY DEF HasList, Of, Arr
<1>2. ASSUME op.op = "remove", ~seg.append, seg.index # NoIndex
      PROVE  /\ seg.index < Len(s)
             /\ Leaf(obj, op, seg) = Put(obj, seg.key, Arr(RemoveAt(s, seg.index + 1)))
  BY <1>1, <1>2 DEF Leaf, RemoveAtSegment, HasElem
<1>3. ASSUME op.op # "remove", seg.append
      PROVE  Leaf(obj, op, seg) = Put(obj, seg.key, Arr(Append(s, op.value)))
  BY <1>1, <1>3 DEF Leaf, SetAtSegment
<1>4. ASSUME NEW list, Leaf(obj, op, seg) = Put(obj, seg.key, Arr(list))
      PROVE  HasList(Leaf(obj, op, seg), seg.key, list) /\ Kind(Leaf(obj, op, seg)) = "object"
  <2> DEFINE k0 == seg.key
             new == Leaf(obj, op, seg)
             v0 == Arr(list)
  <2>0. new = Put(obj, k0, v0)
    BY <1>4
  <2> HIDE DEF new, k0, v0
  <2>2. LET put == Put(obj, k0, v0) IN
        /\ Kind(put) = "object" /\ put # Error
        /\ DOMAIN Of(put) = DOMAIN Of(obj) \cup {k0}
        /\ Of(put)[k0] = v0
        /\ \A k \in DOMAIN Of(obj) : k # k0 => Of(put)[k] = Of(obj)[k]
    BY DEF Put, Obj, Kind, Of, Error
  <2>1. Kind(new) = "object" /\ k0 \in DOMAIN Of(new) /\ Of(new)[k0] = v0
    BY <2>0, <2>2
  <2> QED BY <2>1 DEF HasList, new, k0, v0
<1> QED BY <1>2, <1>3, <1>4

\* A list at the top of a document.
LEMMA TopOperation ==
    ASSUME NEW doc, NEW key, NEW s, HasList(doc, key, s),
           NEW op, op.path \in Seq(Segments), ApplyOperation(doc, op) # Error
    PROVE  LET new == ApplyOperation(doc, op)
               seg == op.path[1]
           IN /\ op.path # <<>>
              /\ seg.key # key => HasList(new, key, s)
              /\ Len(op.path) = 1 /\ seg.key = key =>
                   /\ op.op = "remove" /\ ~seg.append /\ seg.index # NoIndex =>
                        seg.index < Len(s) /\ HasList(new, key, RemoveAt(s, seg.index + 1))
                   /\ op.op # "remove" /\ seg.append => HasList(new, key, Append(s, op.value))
<1> DEFINE new == ApplyOperation(doc, op)
           seg == op.path[1]
<1>1. /\ op.path # <<>> /\ Len(op.path) \in Nat /\ Len(op.path) >= 1
      /\ Len(op.path) = 1 => new = Leaf(doc, op, seg)
      /\ Changed(doc, op, seg, new)
  <2>1. /\ op.path # <<>> /\ Len(op.path) \in Nat /\ Len(op.path) >= 1
        /\ Len(op.path) = 1 => new = Leaf(doc, op, seg)
        /\ Len(op.path) >= 2 => \E below : new = PutBack(doc, seg, below)
    BY OperationIs
  <2> HIDE DEF new, seg
  <2>2. Len(op.path) = 1 \/ Len(op.path) >= 2
    <3> DEFINE n == Len(op.path)
    <3>1. n \in Nat /\ n >= 1
      BY <2>1
    <3> HIDE DEF n
    <3>2. n = 1 \/ n >= 2
      BY <3>1
    <3> QED BY <3>2 DEF n
  <2>3. Changed(doc, op, seg, new)
    BY <2>1, <2>2 DEF Changed
  <2> QED BY <2>1, <2>3
<1>2. seg \in Segments
  BY <1>1
<1>3. new # Error
  OBVIOUS
<1> HIDE DEF new, seg
<1>4. ASSUME seg.key # key PROVE HasList(new, key, s)
  BY <1>1, <1>3, <1>4, OtherFields
<1>5. ASSUME Len(op.path) = 1, seg.key = key
      PROVE  /\ op.op = "remove" /\ ~seg.append /\ seg.index # NoIndex =>
                  seg.index < Len(s) /\ HasList(new, key, RemoveAt(s, seg.index + 1))
             /\ op.op # "remove" /\ seg.append => HasList(new, key, Append(s, op.value))
  BY <1>1, <1>2, <1>3, <1>5, LeafOnList
<1> QED BY <1>1, <1>4, <1>5 DEF new, seg

\* A list in an element of a list at the top.
HasInner(doc, key, i, inner, s) ==
    \E a : /\ IsList(a) /\ HasList(doc, key, a) /\ i + 1 \in DOMAIN a
           /\ Kind(a[i + 1]) = "object" /\ HasList(a[i + 1], inner, s)

LEMMA ListExcept ==
    ASSUME NEW a, IsList(a), NEW k \in DOMAIN a, NEW v
    PROVE  LET new == [a EXCEPT ![k] = v] IN
           IsList(new) /\ DOMAIN new = DOMAIN a /\ new[k] = v /\ \A i \in DOMAIN a : i # k => new[i] = a[i]
<1> DEFINE new == [a EXCEPT ![k] = v]
           X == Range(a) \cup {v}
<1>1. a \in Seq(X)
  BY DEF IsList
<1>2. v \in X
  OBVIOUS
<1> HIDE DEF X
<1>3. new \in Seq(X)
  BY <1>1, <1>2
<1>4. IsList(new)
  <2> HIDE DEF new
  <2> QED BY <1>3, ListOf
<1> QED BY <1>4

LEMMA InnerOperation ==
    ASSUME NEW doc, NEW key \in Keys, NEW i \in Nat, NEW inner, NEW s, HasInner(doc, key, i, inner, s),
           NEW op, op.path \in Seq(Segments), ApplyOperation(doc, op) # Error
    PROVE  LET new == ApplyOperation(doc, op)
               seg == op.path[1]
               next == op.path[2]
           IN /\ op.path # <<>>
              /\ seg.key # key => HasInner(new, key, i, inner, s)
              /\ Len(op.path) >= 2 /\ (seg # Elem(key, i) \/ next.key # inner) =>
                   HasInner(new, key, i, inner, s)
              /\ Len(op.path) = 2 /\ seg = Elem(key, i) /\ next.key = inner =>
                   /\ op.op = "remove" /\ ~next.append /\ next.index # NoIndex =>
                        /\ next.index < Len(s)
                        /\ HasInner(new, key, i, inner, RemoveAt(s, next.index + 1))
                   /\ op.op # "remove" /\ next.append =>
                        HasInner(new, key, i, inner, Append(s, op.value))
<1> DEFINE new == ApplyOperation(doc, op)
           seg == op.path[1]
           next == op.path[2]
           n == Len(op.path)
           obj == Navigate(doc, seg)
<1>1. PICK a : /\ IsList(a) /\ HasList(doc, key, a) /\ i + 1 \in DOMAIN a
               /\ Kind(a[i + 1]) = "object" /\ HasList(a[i + 1], inner, s)
  BY DEF HasInner
<1>2. /\ op.path # <<>> /\ n \in Nat /\ n >= 1
      /\ seg \in Segments
      /\ n >= 2 => next \in Segments
  BY OperationIs
<1>3. ASSUME seg.key # key PROVE HasInner(new, key, i, inner, s)
  <2>1. HasList(new, key, a)
    BY <1>1, <1>3, TopOperation
  <2> QED BY <1>1, <2>1 DEF HasInner
<1>4. ASSUME n >= 2, seg.key = key
      PROVE  \E below :
               /\ below # Error /\ ~seg.append /\ seg.index \in Nat
               /\ seg.index + 1 \in DOMAIN a
               /\ HasList(new, key, [a EXCEPT ![seg.index + 1] = below])
               /\ n = 2 => below = Leaf(a[seg.index + 1], op, next)
               /\ Changed(a[seg.index + 1], op, next, below)
  <2>1. PICK below :
          /\ below # Error /\ obj # Error
          /\ new = PutBack(doc, seg, below)
          /\ n = 2 => below = Leaf(obj, op, next)
          /\ Changed(obj, op, next, below)
    BY <1>4, OperationIs
  <2> HIDE DEF seg, next, new, n
  <2>2. ~seg.append
    BY <2>1 DEF Navigate, Kind, Error
  <2>3. key \in DOMAIN Of(doc) /\ Of(doc)[key] = Arr(a) /\ Of(Arr(a)) = a /\ Kind(Arr(a)) = "array"
    BY <1>1 DEF HasList, Arr, Of, Kind
  <2>4. seg.index # NoIndex
    <3>1. SUFFICES ASSUME seg.index = NoIndex PROVE FALSE
      OBVIOUS
    <3>2. obj = Error
      BY <1>4, <2>2, <2>3, <3>1 DEF Navigate
    <3> QED BY <2>1, <3>2
  <2>5. seg.index \in Nat
    BY <1>2, <2>4 DEF Segments, NoIndex
  <2>6. HasElem(doc, seg) /\ obj = a[seg.index + 1]
    <3>1. ASSUME ~HasElem(doc, seg) PROVE FALSE
      <4>1. obj = Error
        BY <2>2, <2>4, <3>1 DEF Navigate, Kind, Error
      <4> QED BY <2>1, <4>1
    <3>2. HasElem(doc, seg)
      BY <3>1
    <3>3. obj = IF Kind(a[seg.index + 1]) = "object" THEN a[seg.index + 1] ELSE Error
      BY <1>4, <2>2, <2>3, <2>4, <3>2 DEF Navigate
    <3> QED BY <2>1, <3>2, <3>3
  <2>7. seg.index + 1 \in DOMAIN a
    <3>1. seg.index < Len(a)
      BY <1>4, <2>3, <2>6 DEF HasElem
    <3>2. Len(a) \in Nat /\ DOMAIN a = 1..Len(a)
      BY <1>1 DEF IsList
    <3> QED BY <2>5, <3>1, <3>2
  <2>8. HasList(new, key, [a EXCEPT ![seg.index + 1] = below])
    <3> DEFINE list == [a EXCEPT ![seg.index + 1] = below]
    <3>1. new = Put(doc, key, Arr(list))
      BY <1>4, <2>1, <2>3, <2>4 DEF PutBack
    <3> HIDE DEF list
    <3>2. HasList(Put(doc, key, Arr(list)), key, list)
      BY DEF Put, Obj, Of, HasList
    <3> QED BY <3>1, <3>2 DEF list
  <2> QED BY <2>1, <2>2, <2>5, <2>6, <2>7, <2>8
<1> HIDE DEF new, seg, next, n
<1>5. ASSUME NEW below, Kind(below) = "object", NEW t, HasList(below, inner, t),
             HasList(new, key, [a EXCEPT ![i + 1] = below])
      PROVE  HasInner(new, key, i, inner, t)
  <2> DEFINE b == [a EXCEPT ![i + 1] = below]
  <2>1. IsList(b) /\ DOMAIN b = DOMAIN a /\ b[i + 1] = below
    BY <1>1, ListExcept
  <2> HIDE DEF b
  <2>2. HasList(new, key, b)
    BY <1>5 DEF b
  <2> QED BY <1>1, <1>5, <2>1, <2>2 DEF HasInner
<1>6. ASSUME n >= 2, seg.key = key, seg # Elem(key, i) \/ next.key # inner
      PROVE  HasInner(new, key, i, inner, s)
  <2>1. PICK below :
          /\ below # Error /\ ~seg.append /\ seg.index \in Nat
          /\ seg.index + 1 \in DOMAIN a
          /\ HasList(new, key, [a EXCEPT ![seg.index + 1] = below])
          /\ Changed(a[seg.index + 1], op, next, below)
    BY <1>4, <1>6
  <2>2. CASE seg.index = i
    <3>1. seg = Elem(key, i)
      BY <1>2, <1>6, <2>1, <2>2 DEF Segments, Elem, Seg
    <3>2. next.key # inner
      BY <1>6, <3>1
    <3>3. HasList(below, inner, s) /\ Kind(below) = "object"
      <4> DEFINE el == a[i + 1]
      <4>1. HasList(el, inner, s) /\ Changed(el, op, next, below) /\ below # Error
        BY <1>1, <2>1, <2>2
      <4> HIDE DEF el
      <4> QED BY <3>2, <4>1, OtherFields
    <3> QED BY <1>5, <2>1, <2>2, <3>3
  <2>3. CASE seg.index # i
    <3> DEFINE k == seg.index + 1
               b == [a EXCEPT ![k] = below]
    <3>1. k \in DOMAIN a /\ i + 1 # k
      BY <2>1, <2>3
    <3> HIDE DEF k
    <3>2. IsList(b) /\ DOMAIN b = DOMAIN a /\ b[i + 1] = a[i + 1]
      BY <1>1, <3>1, ListExcept
    <3>3. HasList(new, key, b)
      BY <2>1 DEF k
    <3> HIDE DEF b
    <3> QED BY <1>1, <3>2, <3>3 DEF HasInner
  <2> QED BY <2>2, <2>3
<1>7. ASSUME n = 2, seg = Elem(key, i), next.key = inner
      PROVE  /\ op.op = "remove" /\ ~next.append /\ next.index # NoIndex =>
                  /\ next.index < Len(s)
                  /\ HasInner(new, key, i, inner, RemoveAt(s, next.index + 1))
             /\ op.op # "remove" /\ next.append =>
                  HasInner(new, key, i, inner, Append(s, op.value))
  <2>1. seg.key = key /\ seg.index = i
    BY <1>7 DEF Elem, Seg
  <2>2. PICK below :
          /\ below # Error
          /\ HasList(new, key, [a EXCEPT ![i + 1] = below])
          /\ below = Leaf(a[i + 1], op, next)
    <3>1. n >= 2
      BY <1>7
    <3>2. PICK below :
            /\ below # Error
            /\ HasList(new, key, [a EXCEPT ![seg.index + 1] = below])
            /\ n = 2 => below = Leaf(a[seg.index + 1], op, next)
      BY <1>4, <2>1, <3>1
    <3> QED BY <1>7, <2>1, <3>2
  <2> DEFINE el == a[i + 1]
  <2>3. HasList(el, next.key, s) /\ below = Leaf(el, op, next) /\ next \in Segments
    BY <1>1, <1>2, <1>7, <2>2
  <2> HIDE DEF el
  <2>4. /\ op.op = "remove" /\ ~next.append /\ next.index # NoIndex =>
             /\ next.index < Len(s)
             /\ HasList(below, inner, RemoveAt(s, next.index + 1)) /\ Kind(below) = "object"
        /\ op.op # "remove" /\ next.append =>
             HasList(below, inner, Append(s, op.value)) /\ Kind(below) = "object"
    BY <1>7, <2>2, <2>3, LeafOnList
  <2> QED BY <1>5, <2>2, <2>4
<1> QED BY <1>2, <1>3, <1>6, <1>7 DEF new, seg, next, n

\* Paths of an array: at the top of the document, or in an element of one there.
TopPath(path, key) == path = <<Field(key)>>
InnerPath(path, key, i, inner) == path = <<Elem(key, i), Field(inner)>>
Leads(doc, path, s) ==
    \/ \E key \in Keys : TopPath(path, key) /\ HasList(doc, key, s)
    \/ \E key, inner \in Keys, i \in Nat :
         InnerPath(path, key, i, inner) /\ HasInner(doc, key, i, inner, s)

LEMMA FirstElements ==
    ASSUME NEW X, NEW t \in Seq(X), NEW m \in 0..Len(t)
    PROVE  LET few == SubSeq(t, 1, m) IN
           few \in Seq(X) /\ Len(few) = m /\ \A i \in 1..m : few[i] = t[i]
OBVIOUS

LEMMA FrontOfTwo ==
    ASSUME NEW a, NEW b, NEW c
    PROVE  Front(<<a, b>>) = <<a>> /\ Last(<<a, b>>) = b /\ Append(<<a>>, c) = <<a, c>>
<1> DEFINE X == {a, b, c}
           two == <<a, b>>
           few == SubSeq(two, 1, 1)
<1>1. two \in Seq(X) /\ Len(two) = 2 /\ two[1] = a /\ two[2] = b
  OBVIOUS
<1> HIDE DEF two
<1>2. few \in Seq(X) /\ Len(few) = 1 /\ few[1] = a
  <2>1. 1 \in 0..Len(two) /\ 1 \in 1..1
    BY <1>1
  <2> QED BY <1>1, <2>1, FirstElements
<1>3. few = <<a>>
  <2> HIDE DEF few
  <2>1. few = [i \in 1..1 |-> few[i]]
    BY <1>2, ListIs
  <2>2. <<a>> = [i \in 1..1 |-> a]
    OBVIOUS
  <2> QED BY <1>2, <2>1, <2>2
<1>4. Append(<<a>>, c) = <<a, c>>
  <2> DEFINE one == <<a>>
             both == <<a, c>>
  <2>1. one \in Seq(X) /\ Len(one) = 1 /\ c \in X /\ one[1] = a
    OBVIOUS
  <2>2. both \in Seq(X) /\ Len(both) = 2 /\ both[1] = a /\ both[2] = c
    OBVIOUS
  <2> HIDE DEF X, one, both
  <2>3. Append(one, c) = [i \in 1..Len(one) + 1 |-> IF i = Len(one) + 1 THEN c ELSE one[i]]
    <3>1. one \in Seq(X) /\ c \in X
      BY <2>1
    <3> QED BY <3>1, LongerSequence, SMTT(30)
  <2>4. both = [i \in 1..Len(both) |-> both[i]]
    BY <2>2, ListIs
  <2>5. Append(one, c) = both
    BY <2>1, <2>2, <2>3, <2>4
  <2> QED BY <2>5 DEF one, both
<1> QED BY <1>1, <1>3, <1>4 DEF Front, Last, two

LEMMA ArrayOfIs ==
    ASSUME NEW path \in Seq(Segments), path # <<>>
    PROVE  LET n == Len(path)
               array == ArrayOf(path)
           IN /\ n \in Nat /\ n >= 1 /\ Len(array) = n /\ Last(path) = path[n]
              /\ \A i \in 1..n - 1 : array[i] = path[i]
              /\ array[n] = Field(path[n].key)
<1> DEFINE n == Len(path)
           front == SubSeq(path, 1, n - 1)
           last == Field(path[n].key)
<1>1. n \in Nat /\ n >= 1
  OBVIOUS
<1>2. front \in Seq(Segments) /\ Len(front) = n - 1 /\ \A i \in 1..n - 1 : front[i] = path[i]
  <2>1. n - 1 \in 0..Len(path)
    BY <1>1
  <2> HIDE DEF n
  <2> QED BY <2>1, FirstElements
<1>3. ArrayOf(path) = Append(front, last) /\ Last(path) = path[n]
  BY DEF ArrayOf, Last, Front
<1> DEFINE Y == Segments \cup {last}
<1>4. front \in Seq(Y) /\ last \in Y
  BY <1>2
<1> HIDE DEF front, last, n, Y
<1>5. Append(front, last) = [i \in 1..Len(front) + 1 |-> IF i = Len(front) + 1 THEN last ELSE front[i]]
  BY <1>4, LongerSequence
<1>6. Len(Append(front, last)) = n
  BY <1>1, <1>2, <1>4
<1>7. /\ \A i \in 1..n - 1 : Append(front, last)[i] = path[i]
      /\ Append(front, last)[n] = last
  BY <1>1, <1>2, <1>5
<1> QED BY <1>1, <1>3, <1>6, <1>7 DEF n, last

LEMMA FieldIs ==
    ASSUME NEW key, NEW i
    PROVE  /\ Field(key).key = key /\ Elem(key, i).key = key /\ Elem(key, i).index = i
           /\ Field(key).index = NoIndex /\ End(key).key = key /\ End(key).append
BY DEF Field, Elem, End, Seg

\* The target of an operation is a path that is as long as its own.
LEMMA TargetIs ==
    ASSUME NEW op, op.path \in Seq(Segments), op.path # <<>>, NEW path
    PROVE  Concerns(op, path) <=>
             LET n == IF Len(op.path) < Len(path) THEN Len(op.path) ELSE Len(path) IN
             /\ \A i \in 1..n - 1 : ArrayOf(op.path)[i] = path[i]
             /\ ArrayOf(op.path)[n].key = path[n].key
             /\ n < Len(op.path) => n = Len(path)
<1>1. Append(Front(op.path), Field(Last(op.path).key)) = ArrayOf(op.path)
  BY DEF ArrayOf
<1>2. Len(ArrayOf(op.path)) = Len(op.path)
  BY ArrayOfIs
<1> QED BY <1>1, <1>2 DEF Concerns

LEMMA ConcernsTop ==
    ASSUME NEW op, op.path \in Seq(Segments), op.path # <<>>, NEW key, NEW path, TopPath(path, key)
    PROVE  /\ Concerns(op, path) <=> op.path[1].key = key
           /\ ArrayOf(op.path) = path => Len(op.path) = 1 /\ op.path[1].key = key
           /\ op.path = Append(Front(path), End(Last(path).key)) =>
                Len(op.path) = 1 /\ op.path[1].key = key /\ op.path[1].append
<1> DEFINE n == Len(op.path)
           array == ArrayOf(op.path)
<1>1. /\ n \in Nat /\ n >= 1 /\ Len(array) = n
      /\ \A i \in 1..n - 1 : array[i] = op.path[i]
      /\ array[n] = Field(op.path[n].key)
  BY ArrayOfIs
<1>2. Len(path) = 1 /\ path[1] = Field(key) /\ path[1].key = key
  BY FieldIs DEF TopPath
<1>3. Concerns(op, path) <=>
             LET m == IF n < Len(path) THEN n ELSE Len(path) IN
             /\ \A i \in 1..m - 1 : array[i] = path[i]
             /\ array[m].key = path[m].key
             /\ m < n => m = Len(path)
  BY TargetIs
<1> DEFINE first == op.path[1]
<1> HIDE DEF n, array
<1>4. array[1].key = first.key
  <2>1. CASE n = 1
    BY <1>1, <2>1, FieldIs
  <2>2. CASE n # 1
    <3>1. 1 \in 1..n - 1
      BY <1>1, <2>2
    <3> QED BY <1>1, <3>1
  <2> QED BY <2>1, <2>2
<1>5. Concerns(op, path) <=> first.key = key
  <2>1. (IF n < Len(path) THEN n ELSE Len(path)) = 1 /\ 1..1 - 1 = {}
    BY <1>1, <1>2
  <2> QED BY <1>2, <1>3, <1>4, <2>1
<1>6. ASSUME array = path PROVE n = 1 /\ first.key = key
  BY <1>1, <1>2, <1>4, <1>6
<1>7. ASSUME op.path = Append(Front(path), End(Last(path).key))
      PROVE  n = 1 /\ first.key = key /\ first.append
  <2>1. Front(path) = <<>> /\ Last(path) = Field(key)
    BY <1>2 DEF Front, Last, TopPath
  <2>2. op.path = <<End(key)>>
    BY <1>7, <2>1, FieldIs
  <2> QED BY <2>2, FieldIs DEF n
<1> QED BY <1>5, <1>6, <1>7 DEF n, array

LEMMA ConcernsInner ==
    ASSUME NEW op, op.path \in Seq(Segments), op.path # <<>>, NEW key, NEW inner, NEW i \in Nat,
           NEW path, InnerPath(path, key, i, inner)
    PROVE  /\ Len(op.path) = 1 \/ Len(op.path) >= 2
           /\ Len(op.path) = 1 => (Concerns(op, path) <=> op.path[1].key = key)
           /\ Len(op.path) >= 2 =>
                (Concerns(op, path) <=> op.path[1] = Elem(key, i) /\ op.path[2].key = inner)
           /\ ArrayOf(op.path) = path =>
                Len(op.path) = 2 /\ op.path[1] = Elem(key, i) /\ op.path[2].key = inner
           /\ op.path = Append(Front(path), End(Last(path).key)) =>
                /\ Len(op.path) = 2 /\ op.path[1] = Elem(key, i) /\ op.path[2].key = inner
                /\ op.path[2].append
<1> DEFINE n == Len(op.path)
           array == ArrayOf(op.path)
           first == op.path[1]
           next == op.path[2]
<1>1. /\ n \in Nat /\ n >= 1 /\ Len(array) = n
      /\ \A k \in 1..n - 1 : array[k] = op.path[k]
      /\ array[n] = Field(op.path[n].key)
  BY ArrayOfIs
<1>2. /\ Len(path) = 2 /\ path[1] = Elem(key, i) /\ path[2] = Field(inner)
      /\ path[1].key = key /\ path[2].key = inner
  BY FieldIs DEF InnerPath
<1>3. Concerns(op, path) <=>
             LET m == IF n < Len(path) THEN n ELSE Len(path) IN
             /\ \A k \in 1..m - 1 : array[k] = path[k]
             /\ array[m].key = path[m].key
             /\ m < n => m = Len(path)
  BY TargetIs
<1> HIDE DEF n, array
<1>4. n = 1 \/ n >= 2
  BY <1>1
<1>5. ASSUME n = 1 PROVE array[1].key = first.key
  BY <1>1, <1>5, FieldIs
<1>6. ASSUME n >= 2 PROVE array[1] = first /\ array[2].key = next.key
  <2>1. array[1] = first
    <3>1. 1 \in 1..n - 1
      BY <1>1, <1>6
    <3> QED BY <1>1, <3>1
  <2>2. CASE n = 2
    BY <1>1, <2>1, <2>2, FieldIs
  <2>3. CASE n # 2
    <3>1. 2 \in 1..n - 1
      BY <1>1, <1>6, <2>3
    <3> QED BY <1>1, <2>1, <3>1
  <2> QED BY <2>2, <2>3
<1>7. ASSUME n = 1 PROVE Concerns(op, path) <=> first.key = key
  <2>1. (IF n < Len(path) THEN n ELSE Len(path)) = 1 /\ 1..1 - 1 = {} /\ ~ (1 < n)
    BY <1>2, <1>7
  <2> QED BY <1>2, <1>3, <1>5, <1>7, <2>1
<1>8. ASSUME n >= 2 PROVE Concerns(op, path) <=> first = Elem(key, i) /\ next.key = inner
  <2>1. (IF n < Len(path) THEN n ELSE Len(path)) = 2 /\ 1..2 - 1 = {1}
    BY <1>1, <1>2, <1>8
  <2>2. Concerns(op, path) <=> array[1] = path[1] /\ array[2].key = path[2].key
    BY <1>2, <1>3, <2>1
  <2> QED BY <1>2, <1>6, <1>8, <2>2
<1>9. ASSUME array = path PROVE n = 2 /\ first = Elem(key, i) /\ next.key = inner
  <2>1. n = 2
    BY <1>1, <1>2, <1>9
  <2> QED BY <1>2, <1>6, <1>9, <2>1
<1>10. ASSUME op.path = Append(Front(path), End(Last(path).key))
       PROVE  n = 2 /\ first = Elem(key, i) /\ next.key = inner /\ next.append
  <2>1. Front(path) = <<Elem(key, i)>> /\ Last(path) = Field(inner)
    BY FrontOfTwo DEF InnerPath
  <2>2. op.path = <<Elem(key, i), End(inner)>>
    <3>1. Last(path).key = inner
      BY <2>1, FieldIs
    <3>2. op.path = Append(<<Elem(key, i)>>, End(inner))
      BY <1>10, <2>1, <3>1
    <3> QED BY <3>2, FrontOfTwo
  <2> QED BY <2>2, FieldIs DEF n
<1> QED BY <1>4, <1>7, <1>8, <1>9, <1>10 DEF n, array

\* What an operation does to the list at a path: nothing when it does not concern the
\* path, else a removal or an addition.
LEMMA OneOperation ==
    ASSUME NEW doc, NEW path, NEW s, Leads(doc, path, s),
           NEW op, op.path \in Seq(Segments), ApplyOperation(doc, op) # Error
    PROVE  LET new == ApplyOperation(doc, op)
               index == Last(op.path).index
           IN /\ op.path # <<>>
              /\ ~Concerns(op, path) => Leads(new, path, s)
              /\ RemovesElement(op) /\ ArrayOf(op.path) = path =>
                   /\ Concerns(op, path) /\ index \in Nat /\ index < Len(s)
                   /\ Leads(new, path, RemoveAt(s, index + 1))
              /\ op.op # "remove" /\ op.path = Append(Front(path), End(Last(path).key)) =>
                   Concerns(op, path) /\ Leads(new, path, Append(s, op.value))
<1> DEFINE new == ApplyOperation(doc, op)
           last == Last(op.path)
<1>1. op.path # <<>> /\ Len(op.path) \in Nat /\ last \in Segments
  <2>1. op.path # <<>>
    BY OperationIs
  <2> QED BY <2>1 DEF Last
<1>2. RemovesElement(op) => op.op = "remove" /\ ~last.append /\ last.index # NoIndex /\ last.index \in Nat
  BY <1>1 DEF RemovesElement, Segments, NoIndex
<1>3. CASE \E key \in Keys : TopPath(path, key) /\ HasList(doc, key, s)
  <2>1. PICK key \in Keys : TopPath(path, key) /\ HasList(doc, key, s)
    BY <1>3
  <2>2. /\ Concerns(op, path) <=> op.path[1].key = key
        /\ ArrayOf(op.path) = path => Len(op.path) = 1 /\ op.path[1].key = key
        /\ op.path = Append(Front(path), End(Last(path).key)) =>
                Len(op.path) = 1 /\ op.path[1].key = key /\ op.path[1].append
    BY <1>1, <2>1, ConcernsTop
  <2> HIDE DEF new
  <2>3. /\ op.path[1].key # key => HasList(new, key, s)
        /\ Len(op.path) = 1 /\ op.path[1].key = key =>
             /\ op.op = "remove" /\ ~op.path[1].append /\ op.path[1].index # NoIndex =>
                  op.path[1].index < Len(s) /\ HasList(new, key, RemoveAt(s, op.path[1].index + 1))
             /\ op.op # "remove" /\ op.path[1].append => HasList(new, key, Append(s, op.value))
    BY <2>1, TopOperation DEF new
  <2>4. Len(op.path) = 1 => last = op.path[1]
    BY DEF Last
  <2>5. \A t : HasList(new, key, t) => Leads(new, path, t)
    BY <2>1 DEF Leads
  <2> QED BY <1>1, <1>2, <2>2, <2>3, <2>4, <2>5 DEF new
<1>4. CASE \E key, inner \in Keys, i \in Nat :
             InnerPath(path, key, i, inner) /\ HasInner(doc, key, i, inner, s)
  <2>1. PICK key \in Keys, inner \in Keys, i \in Nat :
             InnerPath(path, key, i, inner) /\ HasInner(doc, key, i, inner, s)
    BY <1>4
  <2> DEFINE first == op.path[1]
             next == op.path[2]
             n == Len(op.path)
  <2>2. /\ n = 1 \/ n >= 2
        /\ n = 1 => (Concerns(op, path) <=> first.key = key)
        /\ n >= 2 => (Concerns(op, path) <=> first = Elem(key, i) /\ next.key = inner)
        /\ ArrayOf(op.path) = path => n = 2 /\ first = Elem(key, i) /\ next.key = inner
        /\ op.path = Append(Front(path), End(Last(path).key)) =>
                n = 2 /\ first = Elem(key, i) /\ next.key = inner /\ next.append
    BY <1>1, <2>1, ConcernsInner
  <2> HIDE DEF new
  <2>3. /\ first.key # key => HasInner(new, key, i, inner, s)
        /\ n >= 2 /\ (first # Elem(key, i) \/ next.key # inner) => HasInner(new, key, i, inner, s)
        /\ n = 2 /\ first = Elem(key, i) /\ next.key = inner =>
             /\ op.op = "remove" /\ ~next.append /\ next.index # NoIndex =>
                  /\ next.index < Len(s)
                  /\ HasInner(new, key, i, inner, RemoveAt(s, next.index + 1))
             /\ op.op # "remove" /\ next.append => HasInner(new, key, i, inner, Append(s, op.value))
    BY <2>1, InnerOperation DEF new
  <2>4. n = 2 => last = next /\ n >= 2
    BY DEF Last
  <2>5. \A t : HasInner(new, key, i, inner, t) => Leads(new, path, t)
    BY <2>1 DEF Leads
  <2> HIDE DEF first, next, n, last
  <2> QED BY <1>1, <1>2, <2>2, <2>3, <2>4, <2>5 DEF new, last
<1> QED BY <1>3, <1>4 DEF Leads

-----------------------------------------------------------------------------
(* All operations of a patch *)

\* The operations are applied one after the other.
Applied(doc, ops) == FoldLeft(ApplyOperation, doc, ops)
Documents(g, doc, ops, n) ==
    /\ g[0] = doc
    /\ \A k \in 0..n - 1 : g[k + 1] = ApplyOperation(g[k], ops[k + 1])
    /\ Applied(doc, ops) = g[n]
LEMMA PatchedByPrefix ==
    ASSUME NEW doc, NEW n \in Nat, NEW ops, DOMAIN ops = 1..n
    PROVE  \E g : Documents(g, doc, ops, n)
<1> DEFINE Body(it, s) == IF s = {} THEN doc ELSE ApplyOperation(it[s \ {Max(s)}], ops[Max(s)])
           Rec(it, m) == it = [s \in SUBSET (1..m) |-> Body(it, s)]
           P == {m \in Nat : \E it : Rec(it, m)}
           Whole(it) == it = [s \in SUBSET DOMAIN ops |-> Body(it, s)]
           fold == CHOOSE it : Whole(it)
<1>1. 0 \in P
  <2> DEFINE it == [s \in SUBSET (1..0) |-> doc]
  <2>1. \A s \in SUBSET (1..0) : s = {}
    OBVIOUS
  <2>2. \A s \in SUBSET (1..0) : Body(it, s) = doc
    BY <2>1
  <2>3. Rec(it, 0)
    <3> HIDE DEF Body
    <3> QED BY <2>2
  <2> HIDE DEF it, Rec
  <2> QED BY <2>3
<1>2. ASSUME NEW m \in Nat, m \in P PROVE m + 1 \in P
  <2>1. PICK it : Rec(it, m)
    BY <1>2
  <2> DEFINE D == SUBSET (1..m + 1)
             new == [s \in D |-> IF m + 1 \in s THEN Body(it, s) ELSE it[s]]
  <2>2. ASSUME NEW s \in D, s # {} PROVE Max(s) \in s /\ \A y \in s : Max(s) >= y
    BY <2>2, MaxOfInterval, m + 1 \in Nat
  <2>3. ASSUME NEW s \in D PROVE new[s] = Body(new, s)
    <3>1. new[s] = Body(it, s)
      <4>1. CASE m + 1 \in s
        BY <4>1
      <4>2. CASE m + 1 \notin s
        <5>1. s \in SUBSET (1..m)
          BY <4>2
        <5>2. it[s] = Body(it, s)
          <6> HIDE DEF Body
          <6> QED BY <2>1, <5>1
        <5> QED BY <4>2, <5>2
      <4> QED BY <4>1, <4>2
    <3>2. CASE s = {}
      BY <3>1, <3>2
    <3>3. CASE s # {}
      <4> DEFINE r == s \ {Max(s)}
      <4>1. Max(s) \in s /\ \A y \in s : Max(s) >= y
        BY <2>2, <3>3
      <4>2. m + 1 \notin r
        <5>1. SUFFICES ASSUME m + 1 \in s, m + 1 # Max(s) PROVE FALSE
          OBVIOUS
        <5>2. Max(s) \in 1..m + 1 /\ Max(s) >= m + 1
          BY <4>1, <5>1
        <5> QED BY <5>1, <5>2
      <4>3. r \in D
        OBVIOUS
      <4> HIDE DEF r
      <4>4. new[r] = it[r]
        BY <4>2, <4>3
      <4> HIDE DEF new
      <4>5. Body(new, s) = Body(it, s)
        BY <3>3, <4>4 DEF r
      <4> QED BY <3>1, <4>5
    <3> QED BY <3>2, <3>3
  <2>4. new = [s \in D |-> new[s]]
    OBVIOUS
  <2> HIDE DEF new, Body
  <2>5. Rec(new, m + 1)
    BY <2>3, <2>4
  <2>6. m + 1 \in Nat
    OBVIOUS
  <2> HIDE DEF Rec
  <2> QED BY <2>5, <2>6, Zenon
<1>3. n \in P
  <2> HIDE DEF P
  <2> QED BY <1>1, <1>2, NatInd
<1>4. Whole(fold)
  <2>1. \E it : Whole(it)
    <3> HIDE DEF Body
    <3> QED BY <1>3
  <2> HIDE DEF Whole
  <2> QED BY <2>1
<1>5. Applied(doc, ops) = fold[DOMAIN ops]
  BY DEF Applied, FoldLeft, MapThenFoldSet
<1> HIDE DEF fold
<1>6. fold[{}] = doc
  <2>1. {} \in SUBSET DOMAIN ops
    OBVIOUS
  <2> QED BY <1>4, <2>1
<1>7. ASSUME NEW k \in 0..n - 1 PROVE fold[1..k + 1] = ApplyOperation(fold[1..k], ops[k + 1])
  <2>1. k \in Nat /\ 1..k + 1 \in SUBSET DOMAIN ops
    OBVIOUS
  <2>2. Max(1..k + 1) = k + 1 /\ (1..k + 1) \ {k + 1} = 1..k /\ 1..k + 1 # {}
    BY <2>1, MaxOfPrefix
  <2>3. fold[1..k + 1] = Body(fold, 1..k + 1)
    <3> DEFINE s == 1..k + 1
    <3> HIDE DEF s, Body
    <3>1. s \in SUBSET DOMAIN ops
      BY <2>1 DEF s
    <3>2. fold[s] = Body(fold, s)
      BY <1>4, <3>1
    <3> QED BY <3>2 DEF s
  <2> QED BY <2>2, <2>3
<1> DEFINE g == [k \in 0..n |-> fold[1..k]]
<1>8. g[0] = doc
  <2>1. 1..0 = {} /\ 0 \in 0..n
    OBVIOUS
  <2> QED BY <1>6, <2>1
<1>9. ASSUME NEW k \in 0..n - 1 PROVE g[k + 1] = ApplyOperation(g[k], ops[k + 1])
  <2>1. k \in 0..n /\ k + 1 \in 0..n
    OBVIOUS
  <2> QED BY <1>7, <2>1
<1>10. Applied(doc, ops) = g[n]
  <2>1. n \in 0..n
    OBVIOUS
  <2> QED BY <1>5, <2>1
<1> HIDE DEF g
<1>11. Documents(g, doc, ops, n)
  BY <1>8, <1>9, <1>10 DEF Documents
<1> QED BY <1>11

\* Removals from one array come in the order of their indices, greatest first, each at
\* the place of one of them.
LEMMA SortedIs ==
    ASSUME NEW n \in Nat, NEW ops, DOMAIN ops = 1..n, ~DuplicateRemove(ops),
           \A i \in 1..n : ops[i].path \in Seq(Segments)
    PROVE  LET sorted == SortArrayRemovesDescending(ops)
               Index(op) == Last(op.path).index
           IN /\ DOMAIN sorted = 1..n
              /\ \A i \in 1..n : ~RemovesElement(ops[i]) => sorted[i] = ops[i]
              /\ \A i \in 1..n : RemovesElement(ops[i]) =>
                   /\ \E j \in SameArray(ops, i) : sorted[i] = ops[j]
                   /\ \E j \in SameArray(ops, i) : sorted[j] = ops[i]
                   /\ \A j \in SameArray(ops, i) : i < j => Index(sorted[i]) > Index(sorted[j])
<1> DEFINE sorted == SortArrayRemovesDescending(ops)
           Index(op) == Last(op.path).index
<1>1. DOMAIN sorted = 1..n
  BY DEF SortArrayRemovesDescending
<1>2. \A i \in 1..n : ~RemovesElement(ops[i]) => sorted[i] = ops[i]
  BY DEF SortArrayRemovesDescending
<1>3. ASSUME NEW i \in 1..n, RemovesElement(ops[i])
      PROVE  /\ \E j \in SameArray(ops, i) : sorted[i] = ops[j]
             /\ \E j \in SameArray(ops, i) : sorted[j] = ops[i]
             /\ \A j \in SameArray(ops, i) : i < j => Index(sorted[i]) > Index(sorted[j])
  <2> DEFINE S == SameArray(ops, i)
             R == {p \in S \X S : p[1] < p[2]}
             G == {p \in S \X S : Index(ops[p[1]]) > Index(ops[p[2]])}
             At1(j, k) == RankIn(S, R, j) = RankIn(S, G, k)
             from == [j \in S |-> CHOOSE k \in S : At1(j, k)]
  <2>1. S \subseteq 1..n /\ i \in S /\ \A j \in S : RemovesElement(ops[j]) /\ SameArray(ops, j) = S
    BY <1>3 DEF SameArray
  <2>2. IsFiniteSet(S)
    BY <2>1, FS_Interval, FS_Subset, 1 \in Int, n \in Int
  <2>3. \A j \in S : Index(ops[j]) \in Int
    <3> TAKE j \in S
    <3>1. ops[j].path \in Seq(Segments) /\ ops[j].path # <<>>
      BY <2>1 DEF RemovesElement
    <3>2. Last(ops[j].path) \in Segments
      <4> DEFINE path == ops[j].path
      <4>1. path \in Seq(Segments) /\ path # <<>>
        BY <3>1
      <4> HIDE DEF path
      <4>2. path[Len(path)] \in Segments
        BY <4>1
      <4> QED BY <4>2 DEF path, Last
    <3> QED BY <3>2 DEF Segments, NoIndex
  <2>4. \A j, k \in S : j # k => Index(ops[j]) # Index(ops[k])
    BY <2>1 DEF DuplicateRemove
  <2> HIDE DEF S
  <2>5. IsOrder(S, R)
    BY <2>1 DEF IsOrder
  <2>6. IsOrder(S, G)
    <3> HIDE DEF Index
    <3> QED BY <2>1, <2>3, <2>4 DEF IsOrder
  <2>7. \A j \in S : /\ Cardinality({k \in S : k < j}) = RankIn(S, R, j)
                     /\ Cardinality({k \in S : Index(ops[k]) > Index(ops[j])}) = RankIn(S, G, j)
    <3> TAKE j \in S
    <3>1. {k \in S : k < j} = Before(S, R, j)
      BY DEF Before
    <3>2. {k \in S : Index(ops[k]) > Index(ops[j])} = Before(S, G, j)
      <4> HIDE DEF Index
      <4> QED BY DEF Before
    <3> QED BY <3>1, <3>2 DEF RankIn
  <2>8. \A j \in S : sorted[j] = ops[from[j]]
    <3> TAKE j \in S
    <3>1. RemovesElement(ops[j]) /\ SameArray(ops, j) = S /\ j \in DOMAIN ops
      BY <2>1
    <3>2. sorted[j] = ops[CHOOSE k \in S : Cardinality({l \in S : l < j}) =
                            Cardinality({l \in S : Last(ops[l].path).index > Last(ops[k].path).index})]
      BY <3>1 DEF SortArrayRemovesDescending
    <3>3. \A k \in S : (Cardinality({l \in S : l < j}) =
                           Cardinality({l \in S : Last(ops[l].path).index > Last(ops[k].path).index}))
                      <=> At1(j, k)
      BY <2>7
    <3>4. (CHOOSE k \in S : Cardinality({l \in S : l < j}) =
                            Cardinality({l \in S : Last(ops[l].path).index > Last(ops[k].path).index}))
            = from[j]
      <4> HIDE DEF R, G
      <4> QED BY <3>3
    <3> QED BY <3>2, <3>4
  <2> HIDE DEF R, G, sorted
  <2>9. ASSUME NEW j \in S PROVE from[j] \in S /\ At1(j, from[j])
    <3>1. RankIn(S, R, j) \in 0..Cardinality(S) - 1
      BY <2>2, <2>5, RankGrows
    <3>2. \E k \in S : RankIn(S, G, k) = RankIn(S, R, j)
      BY <2>2, <2>6, <3>1, Ranks
    <3>3. \E k \in S : At1(j, k)
      BY <3>2
    <3> HIDE DEF At1
    <3> QED BY <3>3
  <2>10. ASSUME NEW k \in S PROVE \E j \in S : from[j] = k
    <3>1. RankIn(S, G, k) \in 0..Cardinality(S) - 1
      BY <2>2, <2>6, RankGrows
    <3>2. PICK j \in S : RankIn(S, R, j) = RankIn(S, G, k)
      BY <2>2, <2>5, <3>1, Ranks
    <3>3. from[j] \in S /\ RankIn(S, G, from[j]) = RankIn(S, G, k)
      BY <2>9, <3>2
    <3> HIDE DEF from
    <3>4. from[j] = k
      BY <2>2, <2>6, <3>3, Ranks
    <3> QED BY <3>4
  <2>11. ASSUME NEW j \in S, NEW k \in S, j < k PROVE Index(sorted[j]) > Index(sorted[k])
    <3>1. RankIn(S, R, j) < RankIn(S, R, k)
      <4>1. <<j, k>> \in R
        BY <2>11 DEF R
      <4> QED BY <2>2, <2>5, <4>1, RankGrows
    <3>2. from[j] \in S /\ from[k] \in S /\ RankIn(S, G, from[j]) < RankIn(S, G, from[k])
      BY <2>9, <3>1
    <3> HIDE DEF from
    <3>3. RankIn(S, G, from[j]) \in Int /\ RankIn(S, G, from[k]) \in Int
      BY <2>2, <2>6, <3>2, RankGrows
    <3>4. from[j] # from[k]
      BY <3>2, <3>3
    <3>5. <<from[k], from[j]>> \notin G
      <4>1. SUFFICES ASSUME <<from[k], from[j]>> \in G PROVE FALSE
        OBVIOUS
      <4>2. RankIn(S, G, from[k]) < RankIn(S, G, from[j])
        BY <2>2, <2>6, <3>2, <4>1, RankGrows
      <4> QED BY <3>2, <3>3, <4>2
    <3>6. <<from[j], from[k]>> \in G
      BY <2>6, <3>2, <3>4, <3>5 DEF IsOrder
    <3>7. Index(ops[from[j]]) > Index(ops[from[k]])
      <4> HIDE DEF Index
      <4> QED BY <3>6 DEF G
    <3> QED BY <2>8, <3>7
  <2> HIDE DEF from, Index, At1
  <2>12. \E j \in S : sorted[i] = ops[j]
    BY <2>1, <2>8, <2>9
  <2>13. \E j \in S : sorted[j] = ops[i]
    <3>1. PICK j \in S : from[j] = i
      BY <2>1, <2>10
    <3>2. sorted[j] = ops[from[j]]
      BY <2>8
    <3> QED BY <3>1, <3>2
  <2> QED BY <2>1, <2>11, <2>12, <2>13 DEF S
<1> QED BY <1>1, <1>2, <1>3

\* The values that operations add.
ValuesOf(t) == [i \in DOMAIN t |-> t[i].value]
LEMMA ValuesType ==
    ASSUME NEW Y, NEW X, \A y \in Y : y.value \in X, NEW t \in Seq(Y)
    PROVE  ValuesOf(t) \in Seq(X) /\ Len(ValuesOf(t)) = Len(t)
<1> DEFINE n == Len(t)
           old == ValuesOf(t)
<1>1. n \in Nat /\ DOMAIN t = 1..n /\ \A i \in 1..n : t[i] \in Y
  OBVIOUS
<1> HIDE DEF n
<1>2. old = [i \in 1..n |-> old[i]] /\ \A i \in 1..n : old[i] \in X
  BY <1>1 DEF ValuesOf
<1> HIDE DEF old
<1> QED BY <1>1, <1>2, SequenceFrom DEF old, n
LEMMA ValuesAppend ==
    ASSUME NEW Y, NEW X, \A y \in Y : y.value \in X, NEW t \in Seq(Y), NEW y \in Y
    PROVE  ValuesOf(Append(t, y)) = Append(ValuesOf(t), y.value)
<1> DEFINE n == Len(t)
           old == ValuesOf(t)
           more == Append(t, y)
<1>1. n \in Nat /\ DOMAIN t = 1..n /\ \A i \in 1..n : t[i] \in Y
  OBVIOUS
<1> HIDE DEF n
<1>2. old \in Seq(X) /\ Len(old) = n
  BY ValuesType DEF n
<1>3. more = [i \in 1..n + 1 |-> IF i = n + 1 THEN y ELSE t[i]]
  BY LongerSequence DEF n
<1> DEFINE v == y.value
<1>4. v \in X
  OBVIOUS
<1>5. \A i \in 1..n : old[i] = t[i].value
  BY <1>1 DEF ValuesOf
<1> HIDE DEF old, v, more
<1>6. Append(old, v) = [i \in 1..n + 1 |-> IF i = n + 1 THEN v ELSE old[i]]
  <2>1. Append(old, v) = [i \in 1..Len(old) + 1 |-> IF i = Len(old) + 1 THEN v ELSE old[i]]
    BY <1>2, <1>4, LongerSequence
  <2> QED BY <1>2, <2>1
<1>7. ValuesOf(more) = [i \in 1..n + 1 |-> more[i].value]
  BY <1>3 DEF ValuesOf
<1>8. ASSUME NEW i \in 1..n + 1 PROVE more[i].value = IF i = n + 1 THEN v ELSE old[i]
  <2>1. CASE i = n + 1
    BY <1>3, <2>1 DEF v
  <2>2. CASE i # n + 1
    <3>1. i \in 1..n
      BY <1>1, <2>2
    <3> QED BY <1>3, <1>5, <2>2, <3>1
  <2> QED BY <2>1, <2>2
<1>9. ValuesOf(more) = Append(old, v)
  BY <1>6, <1>7, <1>8
<1> QED BY <1>2, <1>9 DEF old, more, v

\* An array that is only removed from and added to, after all operations.
LEMMA PatchIs ==
    ASSUME NEW doc, NEW ops, IsList(ops), \A op \in Range(ops) : op.path \in Seq(Segments),
           ~DuplicateRemove(ops), Patched(doc, ops) # Error,
           NEW path, NEW old, IsList(old), Leads(doc, path, old), OnlyListed(ops, path, Len(old))
    PROVE  Leads(Patched(doc, ops), path, Kept(old, Listed(ops, path)) \o Added(ops, path))
<1> DEFINE n == Len(ops)
           sorted == SortArrayRemovesDescending(ops)
           Index(op) == Last(op.path).index
           removals == {i \in 1..n : RemovesElement(ops[i]) /\ ArrayOf(ops[i].path) = path}
           additions == {i \in 1..n : ops[i].op # "remove" /\ Concerns(ops[i], path)}
           gone(k) == {Index(sorted[i]) + 1 : i \in {j \in removals : j <= k}}
           these(k) == ElementsAt(ops, {i \in additions : i <= k})
           kept(k) == ElementsAt(old, DOMAIN old \ gone(k))
           added(k) == ValuesOf(these(k))
           Y == Range(ops)
           X == Range(old) \cup {op.value : op \in Y}
<1>1. /\ n \in Nat /\ DOMAIN ops = 1..n /\ ops \in Seq(Y) /\ old \in Seq(X)
      /\ \A i \in 1..n : ops[i] \in Y /\ ops[i].path \in Seq(Segments)
      /\ \A op \in Y : op.value \in X
  BY DEF IsList, Range
<1>2. /\ DOMAIN sorted = 1..n
      /\ \A i \in 1..n : ~RemovesElement(ops[i]) => sorted[i] = ops[i]
      /\ \A i \in 1..n : RemovesElement(ops[i]) =>
           /\ \E j \in SameArray(ops, i) : sorted[i] = ops[j]
           /\ \E j \in SameArray(ops, i) : sorted[j] = ops[i]
           /\ \A j \in SameArray(ops, i) : i < j => Index(sorted[i]) > Index(sorted[j])
  <2> HIDE DEF n
  <2> QED BY <1>1, SortedIs
<1> HIDE DEF n, sorted, X, Y
<1>3. PICK g : /\ g[0] = doc
               /\ \A k \in 0..n - 1 : g[k + 1] = ApplyOperation(g[k], sorted[k + 1])
               /\ Applied(doc, sorted) = g[n]
  <2>1. n \in Nat /\ DOMAIN sorted = 1..n
    BY <1>1, <1>2
  <2>2. \E g : Documents(g, doc, sorted, n)
    BY <2>1, PatchedByPrefix
  <2> QED BY <2>2 DEF Documents
<1>4. Patched(doc, ops) = g[n]
  <2>1. Patched(doc, ops) = Applied(doc, sorted)
    BY DEF Patched, Applied, sorted
  <2> QED BY <1>3, <2>1
<1>5. \A k \in 0..n : g[k] # Error
  <2> DEFINE S == {m \in Nat : m <= n => g[n - m] # Error}
  <2>1. 0 \in S
    <3>1. n - 0 = n
      BY <1>1
    <3> QED BY <1>4, <3>1
  <2>2. ASSUME NEW m \in Nat, m \in S PROVE m + 1 \in S
    <3>1. SUFFICES ASSUME m + 1 <= n, g[n - (m + 1)] = Error PROVE FALSE
      OBVIOUS
    <3> DEFINE k == n - (m + 1)
    <3>2. k \in 0..n - 1 /\ k + 1 = n - m /\ m <= n
      BY <1>1, <3>1
    <3> HIDE DEF k
    <3>3. g[k + 1] = ApplyOperation(g[k], sorted[k + 1])
      BY <1>3, <3>2
    <3>4. g[k + 1] = Error
      BY <3>1, <3>3 DEF ApplyOperation, k
    <3> QED BY <2>2, <3>2, <3>4
  <2>3. \A m \in Nat : m \in S
    <3> HIDE DEF S
    <3> QED BY <2>1, <2>2, NatInd
  <2> TAKE k \in 0..n
  <2>4. n - k \in Nat /\ n - k <= n /\ n - (n - k) = k
    BY <1>1
  <2>5. n - k \in S
    BY <2>3, <2>4
  <2> QED BY <2>4, <2>5
<1>6. \A i \in removals : /\ RemovesElement(sorted[i]) /\ ArrayOf(sorted[i].path) = path
                          /\ \E j \in 1..n : sorted[i] = ops[j]
  BY <1>1, <1>2 DEF SameArray
<1>7. \A i \in additions : sorted[i] = ops[i]
  BY <1>2 DEF RemovesElement
<1>8. ASSUME NEW i \in 1..n PROVE \E j \in 1..n : sorted[i] = ops[j]
  <2>1. CASE RemovesElement(ops[i])
    BY <1>1, <1>2, <2>1 DEF SameArray
  <2>2. CASE ~RemovesElement(ops[i])
    BY <1>2, <2>2
  <2> QED BY <2>1, <2>2
<1>9. \A j \in 1..n : Concerns(ops[j], path) =>
         \/ /\ RemovesElement(ops[j]) /\ ArrayOf(ops[j].path) = path
            /\ Index(ops[j]) < Len(old)
         \/ /\ ops[j].op # "remove"
            /\ ops[j].path = Append(Front(path), End(Last(path).key))
  BY <1>1 DEF OnlyListed
<1>10. ASSUME NEW i \in 1..n, i \notin removals, i \notin additions PROVE ~Concerns(sorted[i], path)
  <2>1. SUFFICES ASSUME Concerns(sorted[i], path) PROVE FALSE
    OBVIOUS
  <2>2. CASE RemovesElement(ops[i])
    <3>1. PICK j \in SameArray(ops, i) : sorted[i] = ops[j]
      BY <1>2, <2>2
    <3>2. j \in 1..n /\ RemovesElement(ops[j]) /\ ArrayOf(ops[j].path) = ArrayOf(ops[i].path)
      BY <1>1, <3>1 DEF SameArray
    <3>3. ArrayOf(ops[j].path) = path
      BY <1>9, <2>1, <3>1, <3>2 DEF RemovesElement
    <3> QED BY <1>10, <2>2, <3>2, <3>3
  <2>3. CASE ~RemovesElement(ops[i])
    BY <1>2, <1>9, <1>10, <2>1, <2>3
  <2> QED BY <2>2, <2>3
<1> DEFINE P == {k \in Nat : k <= n => Leads(g[k], path, kept(k) \o added(k))}
<1>11. ASSUME NEW k \in Nat
       PROVE  kept(k) \in Seq(X) /\ these(k) \in Seq(Y) /\ added(k) \in Seq(X)

  <2>1. kept(k) \in Seq(X)
    BY <1>1, ElementsAtType
  <2>2. these(k) \in Seq(Y)
    BY <1>1, ElementsAtType
  <2>3. added(k) \in Seq(X)
    <3> DEFINE t == these(k)
    <3> HIDE DEF t
    <3>1. t \in Seq(Y)
      BY <2>2 DEF t
    <3>2. ValuesOf(t) \in Seq(X)
      BY <1>1, <3>1, ValuesType
    <3> QED BY <3>2 DEF t
  <2> QED BY <2>1, <2>2, <2>3
<1>12. 0 \in P
  <2>1. gone(0) = {} /\ {i \in additions : i <= 0} = {}
    BY <1>1
  <2> HIDE DEF gone, additions
  <2>2. kept(0) = old
    BY <1>1, <2>1, AllPlaces
  <2>3. these(0) = <<>>
    <3>1. ElementsAt(ops, {}) = <<>>
      BY <1>1, NoPlaces
    <3> QED BY <2>1, <3>1
  <2>4. added(0) = <<>>
    <3>1. ValuesOf(<<>>) = <<>>
      BY DEF ValuesOf
    <3> QED BY <2>3, <3>1
  <2>5. old \o <<>> = old
    BY <1>1
  <2> QED BY <1>3, <2>2, <2>4, <2>5
<1>13. ASSUME NEW k \in Nat, k \in P PROVE k + 1 \in P
  <2> DEFINE i == k + 1
             op == sorted[i]
  <2>1. SUFFICES ASSUME i <= n PROVE Leads(g[i], path, kept(i) \o added(i))
    OBVIOUS
  <2>2. i \in 1..n /\ k \in 0..n - 1 /\ k \in 0..n /\ i \in 0..n /\ i \in Nat
    BY <1>1, <2>1
  <2>3. Leads(g[k], path, kept(k) \o added(k))
    BY <1>13, <2>2
  <2>4. g[i] = ApplyOperation(g[k], op) /\ g[i] # Error
    BY <1>3, <1>5, <2>2
  <2>5. op.path \in Seq(Segments)
    BY <1>1, <1>8, <2>2
  <2> DEFINE s == kept(k) \o added(k)
  <2>6. /\ ~Concerns(op, path) => Leads(g[i], path, s)
        /\ RemovesElement(op) /\ ArrayOf(op.path) = path =>
             /\ Concerns(op, path) /\ Index(op) \in Nat /\ Index(op) < Len(s)
             /\ Leads(g[i], path, RemoveAt(s, Index(op) + 1))
        /\ op.op # "remove" /\ op.path = Append(Front(path), End(Last(path).key)) =>
             Concerns(op, path) /\ Leads(g[i], path, Append(s, op.value))
    <3> HIDE DEF s, op, i
    <3>1. Leads(g[k], path, s) /\ ApplyOperation(g[k], op) # Error
      BY <2>3, <2>4 DEF s
    <3> QED BY <2>4, <2>5, <3>1, OneOperation
  <2>7. i \notin removals => gone(i) = gone(k)
    <3> SUFFICES ASSUME i \notin removals PROVE \A j \in removals : j <= i <=> j <= k
      OBVIOUS
    <3> QED BY <1>1, <2>2
  <2>8. i \notin additions => these(i) = these(k)
    <3> SUFFICES ASSUME i \notin additions
                 PROVE  {j \in additions : j <= i} = {j \in additions : j <= k}
      OBVIOUS
    <3> QED BY <1>1, <2>2
  <2>9. kept(k) \in Seq(X) /\ these(k) \in Seq(Y) /\ added(k) \in Seq(X)
    BY <1>11
  <2>10. CASE i \in removals
    <3> DEFINE p == Index(op) + 1
               old0 == kept(k)
    <3>1. /\ RemovesElement(op) /\ ArrayOf(op.path) = path /\ i \notin additions
          /\ Index(op) \in Nat /\ Leads(g[i], path, RemoveAt(s, p))
      BY <1>6, <2>6, <2>10 DEF RemovesElement
    <3>2. Index(op) < Len(old)
      <4>1. PICK j \in 1..n : op = ops[j]
        BY <1>8, <2>2
      <4>2. Concerns(ops[j], path)
        BY <2>6, <3>1, <4>1
      <4> QED BY <1>9, <3>1, <4>1, <4>2 DEF RemovesElement
    <3>3. p \in 1..Len(old) /\ Len(old) \in Nat /\ DOMAIN old = 1..Len(old)
      BY <1>1, <3>1, <3>2
    <3>4. \A j \in removals : j <= k => Index(sorted[j]) > Index(op)
      <4> TAKE j \in removals
      <4>1. i \in SameArray(ops, j) /\ RemovesElement(ops[j])
        BY <1>1, <2>10 DEF SameArray
      <4>2. j \in 1..n /\ (j <= k => j < i)
        BY <1>1, <2>2
      <4> HIDE DEF i, Index
      <4> QED BY <1>2, <4>1, <4>2
    <3>5. \A x \in gone(k) : x > p
      <4> TAKE x \in gone(k)
      <4>1. PICK j \in removals : j <= k /\ x = Index(sorted[j]) + 1
        OBVIOUS
      <4> DEFINE m == Index(sorted[j])
      <4>2. m \in Int
        <5>1. sorted[j].path \in Seq(Segments) /\ sorted[j].path # <<>>
          BY <1>1, <1>6 DEF RemovesElement
        <5> DEFINE t == sorted[j].path
        <5>2. t \in Seq(Segments) /\ t # <<>>
          BY <5>1
        <5> HIDE DEF t
        <5>3. t[Len(t)] \in Segments
          BY <5>2
        <5> QED BY <5>3 DEF Last, t, Segments, NoIndex
      <4>3. m > Index(op)
        BY <3>4, <4>1
      <4> HIDE DEF m
      <4>4. m + 1 > p
        BY <3>1, <4>2, <4>3
      <4> QED BY <4>1, <4>4 DEF m
    <3>6. 1..p \subseteq DOMAIN old \ gone(k)
      <4> HIDE DEF gone, p
      <4> QED BY <3>3, <3>5
    <3>7. gone(i) = gone(k) \cup {p}
      <4>1. \A j \in removals : j <= i <=> (j <= k \/ j = i)
        BY <1>1, <2>2
      <4>2. {j \in removals : j <= i} = {j \in removals : j <= k} \cup {i}
        BY <2>10, <4>1
      <4> QED BY <4>2
    <3>8. p <= Len(old0) /\ kept(i) = RemoveAt(old0, p)
      <4> DEFINE places == DOMAIN old \ gone(k)
      <4>1. DOMAIN old \ gone(i) = places \ {p}
        <5> HIDE DEF gone, p
        <5> QED BY <3>7
      <4>2. 1..p \subseteq places
        BY <3>6
      <4> HIDE DEF places, p, gone
      <4>3. p <= Len(ElementsAt(old, places)) /\ ElementsAt(old, places \ {p}) = RemoveAt(ElementsAt(old, places), p)
        BY <1>1, <3>3, <4>2, OnePlaceLess
      <4> QED BY <4>1, <4>3 DEF places
    <3>9. RemoveAt(s, p) = kept(i) \o added(i)
      <4> DEFINE v == added(k)
      <4>1. added(i) = v
        BY <2>8, <3>1
      <4>2. old0 \in Seq(X) /\ v \in Seq(X) /\ s = old0 \o v
        BY <2>9
      <4> HIDE DEF old0, v, p, s
      <4>3. p \in 1..Len(old0)
        BY <3>3, <3>8, <4>2
      <4>4. RemoveAt(old0 \o v, p) = RemoveAt(old0, p) \o v
        BY <4>2, <4>3, RemovedFirst
      <4> QED BY <3>8, <4>1, <4>2, <4>4
    <3> QED BY <3>1, <3>9
  <2>11. CASE i \in additions
    <3>1. op = ops[i] /\ op.op # "remove" /\ i \notin removals /\ op \in Y
      BY <1>1, <1>7, <2>11 DEF RemovesElement
    <3>2. op.path = Append(Front(path), End(Last(path).key))
      BY <1>9, <2>2, <2>11, <3>1 DEF RemovesElement
    <3>3. Leads(g[i], path, Append(s, op.value))
      BY <2>6, <3>1, <3>2
    <3> DEFINE t == these(k)
               e == kept(k)
               v == ValuesOf(t)
    <3>4. these(i) = Append(t, op)
      <4> DEFINE places == {j \in additions : j <= k}
      <4>1. {j \in additions : j <= i} = places \cup {i}
        <5>1. \A j \in additions : j <= i <=> (j <= k \/ j = i)
          BY <1>1, <2>2
        <5> QED BY <2>11, <5>1
      <4>2. places \in SUBSET (1..i - 1)
        BY <1>1, <2>2
      <4> HIDE DEF places
      <4>3. i \in 1..Len(ops)
        BY <2>2 DEF n
      <4>4. ElementsAt(ops, places \cup {i}) = Append(ElementsAt(ops, places), ops[i])
        <5> HIDE DEF i
        <5> QED BY <1>1, <4>2, <4>3, OnePlaceMore
      <4> QED BY <3>1, <4>1, <4>4 DEF places
    <3>5. t \in Seq(Y) /\ v \in Seq(X) /\ e \in Seq(X) /\ s = e \o v /\ kept(i) = e
      BY <2>7, <2>9, <3>1
    <3>6. added(i) = ValuesOf(Append(t, op))
      BY <3>4
    <3> HIDE DEF s, e, t, v, op
    <3>7. added(i) = Append(v, op.value)
      <4>1. ValuesOf(Append(t, op)) = Append(ValuesOf(t), op.value)
        BY <1>1, <3>1, <3>5, ValuesAppend
      <4> QED BY <3>6, <4>1 DEF v
    <3>8. Append(e \o v, op.value) = e \o Append(v, op.value)
      <4> DEFINE x == op.value
      <4>1. x \in X
        BY <1>1, <3>1
      <4> HIDE DEF x
      <4>2. e \in Seq(X) /\ v \in Seq(X)
        BY <3>5
      <4>3. e \o Append(v, x) = Append(e \o v, x)
        BY <4>1, <4>2, JoinAppend, SMTT(30)
      <4> QED BY <4>3 DEF x
    <3> QED BY <3>3, <3>5, <3>7, <3>8
  <2>12. CASE i \notin removals /\ i \notin additions
    <3>1. ~Concerns(op, path)
      BY <1>10, <2>2, <2>12
    <3>2. kept(i) = kept(k) /\ added(i) = added(k)
      BY <2>7, <2>8, <2>12
    <3> QED BY <2>6, <3>1, <3>2
  <2> QED BY <2>10, <2>11, <2>12
<1>14. n \in P
  <2> HIDE DEF P
  <2> QED BY <1>1, <1>12, <1>13, NatInd
<1>15. gone(n) = Listed(ops, path)
  <2>1. gone(n) = {Index(sorted[i]) + 1 : i \in removals}
    BY <1>1
  <2>2. Listed(ops, path) = {Index(ops[i]) + 1 : i \in removals}
    BY <1>1 DEF Listed
  <2>3. \A i \in removals : \E j \in removals : sorted[i] = ops[j]
    BY <1>1, <1>2 DEF SameArray
  <2>4. \A i \in removals : \E j \in removals : sorted[j] = ops[i]
    BY <1>1, <1>2 DEF SameArray
  <2> HIDE DEF removals, Index
  <2>5. gone(n) \subseteq Listed(ops, path)
    <3> SUFFICES ASSUME NEW i \in removals PROVE Index(sorted[i]) + 1 \in Listed(ops, path)
      BY <2>1
    <3>1. PICK j \in removals : sorted[i] = ops[j] BY <2>3
    <3>2. Index(ops[j]) + 1 \in Listed(ops, path) BY <2>2
    <3> QED BY <3>1, <3>2
  <2>6. Listed(ops, path) \subseteq gone(n)
    <3> SUFFICES ASSUME NEW i \in removals PROVE Index(ops[i]) + 1 \in gone(n)
      BY <2>2
    <3>1. PICK j \in removals : sorted[j] = ops[i] BY <2>4
    <3>2. Index(sorted[j]) + 1 \in gone(n) BY <2>1
    <3> QED BY <3>1, <3>2
  <2> QED BY <2>5, <2>6
<1>16. kept(n) = Kept(old, Listed(ops, path))
  BY <1>15 DEF Kept
<1>17. added(n) = Added(ops, path)
  <2>1. {i \in additions : i <= n} = {i \in DOMAIN ops : ops[i].op # "remove" /\ Concerns(ops[i], path)}
    BY <1>1
  <2> QED BY <2>1 DEF Added, ValuesOf
<1> QED BY <1>4, <1>14, <1>16, <1>17

-----------------------------------------------------------------------------
(* The array at a path *)

LEMMA PathIs ==
    ASSUME NEW path, NEW key \in Keys, NEW inner \in Keys, NEW i \in Nat
    PROVE  /\ TopPath(path, key) =>
                /\ path \in Seq(Segments) /\ Len(path) = 1 /\ path[1] = Field(key)
                /\ Last(path).key = key
           /\ InnerPath(path, key, i, inner) =>
                /\ path \in Seq(Segments) /\ Len(path) = 2 /\ path[1] = Elem(key, i)
                /\ Last(path).key = inner
<1>1. \A k \in Keys : Field(k) \in Segments
  BY DEF Field, Seg, Segments, NoIndex
<1>2. Elem(key, i) \in Segments
  BY DEF Elem, Seg, Segments
<1> DEFINE a == Field(key)
           b == Elem(key, i)
           c == Field(inner)
<1>3. a \in Segments /\ b \in Segments /\ c \in Segments /\ a.key = key /\ c.key = inner
  BY <1>1, <1>2, FieldIs
<1> HIDE DEF a, b, c
<1>4. <<a>> \in Seq(Segments) /\ Len(<<a>>) = 1 /\ <<a>>[1] = a
  BY <1>3
<1>5. <<b, c>> \in Seq(Segments) /\ Len(<<b, c>>) = 2 /\ <<b, c>>[1] = b /\ <<b, c>>[2] = c
  BY <1>3
<1> QED BY <1>3, <1>4, <1>5 DEF TopPath, InnerPath, Last, a, b, c

LEMMA LastLevel ==
    ASSUME NEW doc, NEW path \in Seq(Segments), path # <<>>
    PROVE  Last(Levels(doc, path)) = Levels(doc, path)[Len(path)]
<1> DEFINE level == Levels(doc, path)
           n == Len(path)
           Y == {level[i] : i \in 1..n}
<1>1. level = [i \in 1..n |-> level[i]] /\ n \in Nat
  BY LevelsAre
<1>2. \A i \in 1..n : level[i] \in Y
  OBVIOUS
<1> HIDE DEF level, n, Y
<1>3. Len(level) = n
  BY <1>1, <1>2, SequenceFrom
<1> QED BY <1>3 DEF Last, level, n

LEMMA ValueAtTop ==
    ASSUME NEW doc, NEW key \in Keys, NEW path, TopPath(path, key)
    PROVE  ValueAt(doc, path) = IF doc # Error /\ key \in DOMAIN Of(doc) THEN Of(doc)[key] ELSE Error
<1>1. path \in Seq(Segments) /\ Len(path) = 1 /\ Last(path).key = key /\ path # <<>>
  <2>1. 0 \in Nat
    OBVIOUS
  <2> QED BY <2>1, PathIs
<1>2. Last(Levels(doc, path)) = Levels(doc, path)[1]
  BY <1>1, LastLevel
<1>3. Levels(doc, path)[1] = doc
  <2>1. 1 \in 1..Len(path)
    BY <1>1
  <2>2. Levels(doc, path)[1] = LevelOf(doc, path, 1, Levels(doc, path)[1 - 1])
    BY <1>1, <2>1, LevelsAre
  <2> QED BY <2>2 DEF LevelOf
<1> QED BY <1>1, <1>2, <1>3 DEF ValueAt

LEMMA ValueAtInner ==
    ASSUME NEW doc, doc # Error, NEW key \in Keys, NEW inner \in Keys, NEW i \in Nat,
           NEW path, InnerPath(path, key, i, inner)
    PROVE  ValueAt(doc, path) =
             LET obj == Navigate(doc, Elem(key, i)) IN
             IF obj # Error /\ inner \in DOMAIN Of(obj) THEN Of(obj)[inner] ELSE Error
<1> DEFINE level == Levels(doc, path)
<1>1. /\ path \in Seq(Segments) /\ Len(path) = 2 /\ Last(path).key = inner /\ path # <<>>
      /\ path[1] = Elem(key, i)
  <2>1. path \in Seq(Segments) /\ Len(path) = 2 /\ path[1] = Elem(key, i) /\ Last(path).key = inner
    BY PathIs, ZenonT(60)
  <2>2. path # <<>>
    BY <2>1
  <2> QED BY <2>1, <2>2
<1>2. Last(level) = level[2]
  BY <1>1, LastLevel
<1>3. \A k \in 1..2 : level[k] = LevelOf(doc, path, k, level[k - 1])
  BY <1>1, LevelsAre
<1> HIDE DEF level
<1>4. level[1] = doc
  <2>1. level[1] = LevelOf(doc, path, 1, level[1 - 1])
    BY <1>3
  <2> QED BY <2>1 DEF LevelOf
<1>5. level[2] = Navigate(doc, Elem(key, i))
  <2>1. level[2] = LevelOf(doc, path, 2, level[1])
    <3>1. 2 \in 1..2 /\ 2 - 1 = 1
      OBVIOUS
    <3> QED BY <1>3, <3>1
  <2> QED BY <1>1, <1>4, <2>1 DEF LevelOf
<1> QED BY <1>1, <1>2, <1>5 DEF ValueAt, level

\* The element of an array at the top.
LEMMA NavigateElement ==
    ASSUME NEW doc, NEW key, NEW i \in Nat
    PROVE  LET seg == Elem(key, i)
               obj == Navigate(doc, seg)
               el == Of(Of(doc)[key])[i + 1]
           IN /\ obj # Error => HasElem(doc, seg)
              /\ obj # Error \/ (HasElem(doc, seg) /\ Kind(el) = "object") => obj = el /\ Kind(el) = "object"
<1> DEFINE seg == Elem(key, i)
           obj == Navigate(doc, seg)
           el == Of(Of(doc)[key])[i + 1]
<1>1. ~seg.append /\ seg.index = i /\ seg.index # NoIndex /\ seg.key = key
  BY DEF Elem, Seg, NoIndex
<1> HIDE DEF seg, el
<1> DEFINE target == IF HasElem(doc, seg) THEN el ELSE Error
<1>2. obj = IF Kind(target) = "object" THEN target ELSE Error
  BY <1>1 DEF Navigate, el
<1>3. Kind(Error) # "object"
  BY DEF Kind, Error
<1>4. Kind(el) = "object" => el # Error
  BY <1>3
<1> HIDE DEF obj
<1> QED BY <1>2, <1>3, <1>4 DEF seg, obj, el

LEMMA LeadsToValue ==
    ASSUME NEW doc, doc # Error, NEW path, NEW s, Leads(doc, path, s)
    PROVE  ValueAt(doc, path) = Arr(s)
<1>1. CASE \E key \in Keys : TopPath(path, key) /\ HasList(doc, key, s)
  BY <1>1, ValueAtTop DEF HasList
<1>2. CASE \E key, inner \in Keys, i \in Nat :
             InnerPath(path, key, i, inner) /\ HasInner(doc, key, i, inner, s)
  <2>1. PICK key \in Keys, inner \in Keys, i \in Nat :
             InnerPath(path, key, i, inner) /\ HasInner(doc, key, i, inner, s)
    BY <1>2
  <2>2. PICK a : /\ IsList(a) /\ HasList(doc, key, a) /\ i + 1 \in DOMAIN a
                 /\ Kind(a[i + 1]) = "object" /\ HasList(a[i + 1], inner, s)
    BY <2>1 DEF HasInner
  <2> DEFINE seg == Elem(key, i)
             obj == Navigate(doc, seg)
  <2>3. Of(Of(doc)[key]) = a /\ HasArray(doc, key)
    BY <2>2 DEF HasList, HasArray, Of, Arr, Kind
  <2>4. HasElem(doc, seg)
    <3>1. seg.key = key /\ seg.index = i
      BY FieldIs
    <3>2. i < Len(a)
      <4>1. Len(a) \in Nat /\ DOMAIN a = 1..Len(a)
        BY <2>2 DEF IsList
      <4> QED BY <2>2, <4>1
    <3> QED BY <2>3, <3>1, <3>2 DEF HasElem
  <2>5. obj = a[i + 1]
    BY <2>2, <2>3, <2>4, NavigateElement
  <2>6. obj # Error
    <3>1. Kind(Error) # "object"
      BY DEF Kind, Error
    <3> QED BY <2>2, <2>5, <3>1
  <2>7. ValueAt(doc, path) = IF obj # Error /\ inner \in DOMAIN Of(obj) THEN Of(obj)[inner] ELSE Error
    BY <2>1, ValueAtInner
  <2> HIDE DEF obj
  <2> QED BY <2>2, <2>5, <2>6, <2>7 DEF HasList
<1> QED BY <1>1, <1>2 DEF Leads

LEMMA ValueIsArray ==
    ASSUME NEW doc, IsDocument(doc), NEW path \in ArrayPaths, Kind(ValueAt(doc, path)) = "array"
    PROVE  LET list == Of(ValueAt(doc, path)) IN IsList(list) /\ Leads(doc, path, list)
<1> DEFINE old == ValueAt(doc, path)
<1>1. old # Error /\ doc # Error
  BY DEF Kind, Error, IsDocument
<1>2. ASSUME NEW obj, HasLists(obj), NEW key \in DOMAIN Of(obj), Kind(Of(obj)[key]) = "array"
      PROVE  LET list == Of(Of(obj)[key]) IN IsList(list) /\ HasList(obj, key, list)
  BY <1>2 DEF HasLists, IsField, HasList
<1>3. ASSUME NEW key \in Keys, TopPath(path, key)
      PROVE  IsList(Of(old)) /\ Leads(doc, path, Of(old))
  <2>1. key \in DOMAIN Of(doc) /\ old = Of(doc)[key]
    BY <1>1, <1>3, ValueAtTop
  <2>2. IsList(Of(old)) /\ HasList(doc, key, Of(old))
    BY <1>2, <2>1 DEF IsDocument
  <2> QED BY <1>3, <2>2 DEF Leads
<1>4. ASSUME NEW key \in Keys, NEW inner \in Keys, NEW i \in Nat, InnerPath(path, key, i, inner)
      PROVE  IsList(Of(old)) /\ Leads(doc, path, Of(old))
  <2> DEFINE seg == Elem(key, i)
             obj == Navigate(doc, seg)
             a == Of(Of(doc)[key])
  <2>1. old = IF obj # Error /\ inner \in DOMAIN Of(obj) THEN Of(obj)[inner] ELSE Error
    BY <1>1, <1>4, ValueAtInner
  <2>2. obj # Error /\ inner \in DOMAIN Of(obj) /\ old = Of(obj)[inner]
    BY <1>1, <2>1
  <2>3. HasElem(doc, seg) /\ obj = a[i + 1] /\ Kind(a[i + 1]) = "object"
    BY <2>2, NavigateElement
  <2>4. seg.key = key /\ seg.index = i
    BY FieldIs
  <2> HIDE DEF obj, seg
  <2>5. key \in DOMAIN Of(doc) /\ Kind(Of(doc)[key]) = "array" /\ i < Len(a)
    BY <2>3, <2>4 DEF HasElem, HasArray
  <2>6. IsList(a) /\ HasList(doc, key, a)
    BY <1>2, <2>5 DEF IsDocument
  <2>7. i + 1 \in DOMAIN a
    <3>1. Len(a) \in Nat /\ DOMAIN a = 1..Len(a)
      BY <2>6 DEF IsList
    <3> QED BY <2>5, <3>1
  <2>8. HasLists(obj)
    <3>1. a[i + 1] \in Range(a)
      BY <2>7 DEF Range
    <3> QED BY <2>3, <2>5, <3>1 DEF IsDocument
  <2>9. IsList(Of(old)) /\ HasList(obj, inner, Of(old))
    BY <1>2, <2>2, <2>8
  <2>10. HasInner(doc, key, i, inner, Of(old))
    BY <2>3, <2>6, <2>7, <2>9 DEF HasInner
  <2> QED BY <1>4, <2>9, <2>10 DEF Leads
<1>5. \/ TopPath(path, "panels") \/ TopPath(path, "tags")
      \/ InnerPath(path, "panels", 0, "targets") \/ InnerPath(path, "panels", 1, "targets")
  BY DEF ArrayPaths, TopPath, InnerPath
<1>6. "panels" \in Keys /\ "tags" \in Keys /\ "targets" \in Keys
  BY DEF Keys
<1>7. 0 \in Nat /\ 1 \in Nat
  OBVIOUS
<1> HIDE DEF old
<1>8. CASE TopPath(path, "panels") \/ TopPath(path, "tags")
  BY <1>3, <1>6, <1>8 DEF old
<1>9. CASE InnerPath(path, "panels", 0, "targets") \/ InnerPath(path, "panels", 1, "targets")
  BY <1>4, <1>6, <1>7, <1>9 DEF old
<1> QED BY <1>5, <1>8, <1>9

-----------------------------------------------------------------------------
(* What update_dashboard saves *)

\* The inductive invariant: what is patched, and by what.
PatchInv ==
    call.tool = "update_dashboard" =>
        /\ pc \in {"called", "fetched", "done", "failed"}
        /\ IsList(call.ops)
        /\ \A op \in Range(call.ops) : op.path \in Seq(Segments)
        /\ pc \in {"called", "fetched"} => IsDocument(stored.doc)
        /\ pc = "fetched" => IsDocument(fetched.doc)

LEMMA PatchInit == Init => PatchInv
<1> SUFFICES ASSUME Init PROVE PatchInv
  OBVIOUS
<1>1. PICK kind \in Calls : \E start \in kind : call = start.call /\ stored = start.stored
  BY DEF Init
<1>2. PICK start \in kind : call = start.call /\ stored = start.stored
  BY <1>1
<1>3. pc = "called"
  BY DEF Init
<1> QED BY <1>1, <1>2, <1>3, CallsAssumption DEF PatchInv

LEMMA PatchNext == ASSUME PatchInv, [Next]_vars PROVE PatchInv'
<1>1. CASE \E new \in Others : OtherSaves(new)
  BY <1>1, OthersAssumption DEF OtherSaves, PatchInv
<1>2. CASE Fetch
  BY <1>2 DEF Fetch, PatchInv
<1>3. CASE Fail \/ Save \/ RunPanels \/ Preview
  BY <1>3 DEF Fail, Save, RunPanels, Preview, PatchInv
<1>4. CASE RunPanel \/ UNCHANGED vars
  BY <1>4 DEF RunPanel, vars, PatchInv
<1> QED BY <1>1, <1>2, <1>3, <1>4 DEF Next

LEMMA PatchFollows == PatchInv => SavesWhatWasAsked
<1> SUFFICES ASSUME PatchInv, Save PROVE SavesWhatWasAsked
  BY DEF SavesWhatWasAsked
<1> DEFINE doc == fetched.doc
           ops == call.ops
           new == Patched(doc, ops)
<1>1. /\ IsList(ops) /\ \A op \in Range(ops) : op.path \in Seq(Segments)
      /\ IsDocument(doc) /\ new # Error
  BY DEF Save, PatchInv
<1>2. stored'.doc = new
      /\ (call.folder = NoFolder => stored'.folder = fetched.folder)
  BY DEF Save
<1>3. ~DuplicateRemove(ops)
  BY <1>1 DEF Patched
<1> HIDE DEF doc, ops, new
<1>4. ASSUME NEW path \in ArrayPaths, Kind(ValueAt(doc, path)) = "array",
             OnlyListed(ops, path, Len(Of(ValueAt(doc, path))))
      PROVE  ValueAt(new, path)
               = Arr(Kept(Of(ValueAt(doc, path)), Listed(ops, path)) \o Added(ops, path))
  <2> DEFINE old == Of(ValueAt(doc, path))
  <2>1. IsList(old) /\ Leads(doc, path, old)
    BY <1>1, <1>4, ValueIsArray
  <2> HIDE DEF old
  <2>2. OnlyListed(ops, path, Len(old))
    BY <1>4 DEF old
  <2>3. Leads(new, path, Kept(old, Listed(ops, path)) \o Added(ops, path))
    BY <1>1, <1>3, <2>1, <2>2, PatchIs DEF new
  <2>4. ValueAt(new, path) = Arr(Kept(old, Listed(ops, path)) \o Added(ops, path))
    BY <1>1, <2>3, LeadsToValue
  <2> QED BY <2>4 DEF old
<1> QED BY <1>2, <1>4 DEF SavesWhatWasAsked, doc, ops
=============================================================================
