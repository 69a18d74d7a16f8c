------------------------------ MODULE Induction ------------------------------
(***************************************************************************)
(* Induction over the natural numbers, stated about sets of numbers rather *)
(* than about predicates, so that the provers can use it: to prove P of    *)
(* every number, take T to be the numbers it holds of.  Then what it shows *)
(* of lists that are made step by step.                                    *)
(***************************************************************************)
EXTENDS Lists, WellFoundedInduction, SequenceTheorems, FiniteSetTheorems, TLAPS

(* A set of numbers has a least one. *)
LEMMA LeastNumber ==
  ASSUME NEW T \in SUBSET Nat, T # {}
  PROVE  \E n \in T : \A m \in T : n <= m
<1> DEFINE R == OpToRel(<, Nat)
<1>1. IsWellFoundedOn(R, Nat)
  BY NatLessThanWellFounded
<1>2. \A n, m \in Nat : m < n => <<m, n>> \in R
  BY DEF OpToRel
<1> HIDE DEF R
<1>3. PICK n \in T : \A m \in T : ~(<<m, n>> \in R)
  BY <1>1, WFMin
<1>4. ASSUME NEW m \in T PROVE n <= m
  <2>1. n \in Nat /\ m \in Nat /\ ~(m < n)
    BY <1>2, <1>3
  <2>2. QED
    BY <2>1
<1>5. QED
  BY <1>4

(* Induction. *)
LEMMA AllNumbers ==
  ASSUME NEW T \in SUBSET Nat, 0 \in T, \A n \in T : n + 1 \in T
  PROVE  T = Nat
<1> SUFFICES ASSUME Nat \ T # {} PROVE FALSE
  OBVIOUS
<1>1. PICK n \in Nat \ T : \A m \in Nat \ T : n <= m
  BY LeastNumber
<1>2. n # 0 /\ n - 1 \in Nat /\ n - 1 \in T
  BY <1>1
<1>3. QED
  BY <1>1, <1>2

(* The first n steps G of a recursion on values in S, and f as it says.    *)
StepsOn(S, n, G) == n \in Nat /\ G \in [1 .. n -> [S -> S]]

Recursive(f, S, base, n, G) ==
  /\ f \in [0 .. n -> S]
  /\ f[0] = base
  /\ \A k \in 1 .. n : f[k] = G[k][f[k - 1]]

(* What a function may be defined to be, step by step from a first value:  *)
(* there is such a function, whatever the first value and the steps.       *)
LEMMA Recursion ==
  ASSUME NEW S, NEW base \in S, NEW n, NEW G, StepsOn(S, n, G)
  PROVE  \E f : Recursive(f, S, base, n, G)
<1> n \in Nat /\ G \in [1 .. n -> [S -> S]]
  BY DEF StepsOn
<1> DEFINE Fits(f, m) == f[0] = base /\ \A k \in 1 .. m : f[k] = G[k][f[k - 1]]
           T == {m \in Nat : m <= n => \E f \in [0 .. m -> S] : Fits(f, m)}
<1>1. 0 \in T
  <2> DEFINE g == [k \in 0 .. 0 |-> base]
  <2>1. g \in [0 .. 0 -> S] /\ Fits(g, 0)
    OBVIOUS
  <2>2. QED
    BY <2>1
<1>2. ASSUME NEW m \in T PROVE m + 1 \in T
  <2> m + 1 \in Nat
    OBVIOUS
  <2> SUFFICES m + 1 <= n => \E f \in [0 .. m + 1 -> S] : Fits(f, m + 1)
    BY Zenon
  <2>1. SUFFICES ASSUME m + 1 <= n PROVE \E f \in [0 .. m + 1 -> S] : Fits(f, m + 1)
    BY Zenon
  <2>2. m \in Nat /\ m <= n /\ m + 1 \in 1 .. n
    BY <2>1
  <2>3. PICK f \in [0 .. m -> S] : Fits(f, m)
    BY <2>2
  <2> DEFINE g == [k \in 0 .. m + 1 |-> IF k = m + 1 THEN G[m + 1][f[m]] ELSE f[k]]
  <2>4. G[m + 1][f[m]] \in S
    BY <2>2
  <2>5. g \in [0 .. m + 1 -> S]
    BY <2>2, <2>4
  <2>6. g[0] = base
    BY <2>2, <2>3
  <2>7. ASSUME NEW k \in 1 .. m + 1 PROVE g[k] = G[k][g[k - 1]]
    <3>1. CASE k = m + 1
      <4>1. g[k - 1] = f[m] /\ g[k] = G[m + 1][f[m]]
        BY <3>1, <2>2
      <4>2. QED
        BY <4>1, <3>1
    <3>2. CASE k # m + 1
      <4>1. k \in 1 .. m /\ g[k - 1] = f[k - 1] /\ g[k] = f[k]
        BY <3>2, <2>2
      <4>2. QED
        BY <4>1, <2>3
    <3>3. QED
      BY <3>1, <3>2
  <2>8. QED
    BY <2>5, <2>6, <2>7
<1> HIDE DEF T
<1>3. T = Nat
  <2>1. T \in SUBSET Nat
    BY DEF T
  <2>2. QED
    BY <1>1, <1>2, <2>1, AllNumbers
<1>4. PICK f \in [0 .. n -> S] : Fits(f, n)
  <2>1. n \in T
    BY <1>3
  <2>2. n <= n
    OBVIOUS
  <2> HIDE DEF Fits
  <2>3. QED
    BY <2>1, <2>2, Zenon DEF T
<1>5. Recursive(f, S, base, n, G)
  BY <1>4 DEF Recursive
<1>6. QED
  BY <1>5
-----------------------------------------------------------------------------
(* Sublists. *)

(* Lists made step by step from the empty one.                             *)
LEMMA ListRecursion ==
  ASSUME NEW S, NEW n, NEW G, StepsOn(Seq(S), n, G)
  PROVE  \E f : Recursive(f, Seq(S), <<>>, n, G)
<1>1. <<>> \in Seq(S)
  OBVIOUS
<1>2. QED
  BY <1>1, Recursion, Zenon

(* The definition of Sublist is one: there is a function as it says.       *)
LEMMA SublistByStep ==
  ASSUME NEW S, NEW s \in Seq(S), NEW I
  PROVE  \E taken \in [0 .. Len(s) -> Seq(S)] :
           /\ Sublist(s, I) = taken[Len(s)]
           /\ taken[0] = <<>>
           /\ \A k \in 1 .. Len(s) :
                taken[k] = IF k \in I THEN Append(taken[k - 1], s[k]) ELSE taken[k - 1]
<1> DEFINE n == Len(s)
           G == [k \in 1 .. n |->
                   [l \in Seq(S) |-> IF k \in I THEN Append(l, s[k]) ELSE l]]
           Eq(f) == f = [k \in 0 .. n |-> IF k = 0 THEN <<>>
                           ELSE IF k \in I THEN Append(f[k - 1], s[k]) ELSE f[k - 1]]
<1>1. n \in Nat /\ <<>> \in Seq(S)
  OBVIOUS
<1>2. G \in [1 .. n -> [Seq(S) -> Seq(S)]]
  OBVIOUS
<1>3. PICK f \in [0 .. n -> Seq(S)] : /\ f[0] = <<>>
                                      /\ \A k \in 1 .. n : f[k] = G[k][f[k - 1]]
  <2> HIDE DEF G, n
  <2>1. StepsOn(Seq(S), n, G)
    BY <1>1, <1>2 DEF StepsOn
  <2>2. PICK f : Recursive(f, Seq(S), <<>>, n, G)
    BY <2>1, ListRecursion, Zenon
  <2>3. QED
    BY <2>2 DEF Recursive
<1>4. \A k \in 1 .. n : f[k] = IF k \in I THEN Append(f[k - 1], s[k]) ELSE f[k - 1]
  <2>1. SUFFICES ASSUME NEW k \in 1 .. n
                 PROVE  f[k] = IF k \in I THEN Append(f[k - 1], s[k]) ELSE f[k - 1]
    OBVIOUS
  <2>2. f[k - 1] \in Seq(S)
    BY <1>1
  <2>3. QED
    BY <1>3, <2>2
<1>5. Eq(f)
  <2> DEFINE g == [k \in 0 .. n |-> IF k = 0 THEN <<>>
                     ELSE IF k \in I THEN Append(f[k - 1], s[k]) ELSE f[k - 1]]
  <2>1. ASSUME NEW k \in 0 .. n PROVE f[k] = g[k]
    <3>1. CASE k = 0
      BY <3>1, <1>3
    <3>2. CASE k # 0
      <4>1. k \in 1 .. n
        BY <3>2, <1>1
      <4>2. QED
        BY <4>1, <3>2, <1>4, Zenon
    <3>3. QED
      BY <3>1, <3>2
  <2>2. DOMAIN f = 0 .. n /\ f = [k \in 0 .. n |-> f[k]]
    OBVIOUS
  <2>3. QED
    BY <2>1, <2>2
<1> DEFINE taken == CHOOSE g : Eq(g)
<1>6. Eq(taken) /\ Sublist(s, I) = taken[n]
  <2>1. Eq(taken)
    <3> HIDE DEF Eq
    <3>1. QED
      BY <1>5
  <2>2. QED
    BY <2>1, Zenon DEF Sublist
<1> HIDE DEF taken
<1>7. /\ taken[0] = <<>>
      /\ \A k \in 1 .. n : taken[k] = IF k \in I THEN Append(taken[k - 1], s[k]) ELSE taken[k - 1]
  <2>1. 0 \in 0 .. n /\ \A k \in 1 .. n : k \in 0 .. n /\ k # 0
    BY <1>1
  <2> HIDE DEF n
  <2>2. QED
    BY <1>6, <2>1, Zenon
<1>8. taken \in [0 .. n -> Seq(S)]
  <2> DEFINE T == {k \in Nat : k <= n => taken[k] \in Seq(S)}
  <2>1. 0 \in T
    BY <1>1, <1>7
  <2>2. ASSUME NEW k \in T PROVE k + 1 \in T
    <3>1. k \in Nat /\ (k <= n => taken[k] \in Seq(S))
      OBVIOUS
    <3>2. ASSUME k + 1 <= n PROVE taken[k + 1] \in Seq(S)
      <4>1. k + 1 \in 1 .. n /\ (k + 1) - 1 = k /\ s[k + 1] \in S /\ taken[k] \in Seq(S)
        BY <3>1, <3>2, <1>1
      <4>2. taken[k + 1] = IF k + 1 \in I THEN Append(taken[k], s[k + 1]) ELSE taken[k]
        BY <4>1, <1>7
      <4>3. QED
        BY <4>1, <4>2
    <3>3. QED
      BY <3>1, <3>2
  <2>3. T = Nat
    <3>1. T \in SUBSET Nat
      OBVIOUS
    <3> HIDE DEF T
    <3>2. QED
      BY <2>1, <2>2, <3>1, AllNumbers
  <2>4. ASSUME NEW k \in 0 .. n PROVE taken[k] \in Seq(S)
    BY <2>3, <1>1
  <2>5. taken = [k \in 0 .. n |-> taken[k]]
    BY <1>6
  <2>6. QED
    BY <2>4, <2>5
<1>9. QED
  BY <1>6, <1>7, <1>8

(* at says for each place of t which of the first k items of s it holds:   *)
(* those at the places I, each one once and in their order.                *)
Taken(t, s, I, k, at) ==
  /\ at \in [1 .. Len(t) -> 1 .. k]
  /\ \A j \in 1 .. Len(t) : at[j] \in I /\ t[j] = s[at[j]]
  /\ \A i, j \in 1 .. Len(t) : i < j => at[i] < at[j]
  /\ \A p \in 1 .. k : p \in I => \E j \in 1 .. Len(t) : at[j] = p

LEMMA OneMoreTaken ==
  ASSUME NEW S, NEW s \in Seq(S), NEW I, NEW t \in Seq(S), NEW k \in Nat, NEW at,
         k + 1 \in 1 .. Len(s), Taken(t, s, I, k, at)
  PROVE  LET u == IF k + 1 \in I THEN Append(t, s[k + 1]) ELSE t
         IN \E bt : Taken(u, s, I, k + 1, bt)
<1>1. CASE k + 1 \in I
  <2> DEFINE n == Len(t)
             u == Append(t, s[k + 1])
             bt == [j \in 1 .. n + 1 |-> IF j = n + 1 THEN k + 1 ELSE at[j]]
  <2>1. /\ n \in Nat /\ Len(u) = n + 1 /\ u[n + 1] = s[k + 1]
        /\ \A j \in 1 .. n : u[j] = t[j]
    OBVIOUS
  <2>2. /\ at \in [1 .. n -> 1 .. k]
        /\ \A j \in 1 .. n : at[j] \in I /\ t[j] = s[at[j]]
        /\ \A i, j \in 1 .. n : i < j => at[i] < at[j]
        /\ \A p \in 1 .. k : p \in I => \E j \in 1 .. n : at[j] = p
    BY DEF Taken
  <2> HIDE DEF n, u
  <2>3. bt \in [1 .. n + 1 -> 1 .. k + 1]
    BY <2>1, <2>2
  <2>4. \A j \in 1 .. n + 1 : bt[j] \in I /\ u[j] = s[bt[j]]
    BY <2>1, <2>2, <1>1
  <2>5. \A i, j \in 1 .. n + 1 : i < j => bt[i] < bt[j]
    <3>1. SUFFICES ASSUME NEW i \in 1 .. n + 1, NEW j \in 1 .. n + 1, i < j
                   PROVE  bt[i] < bt[j]
      OBVIOUS
    <3>2. i \in 1 .. n /\ at[i] \in 1 .. k /\ bt[i] = at[i]
      BY <3>1, <2>1, <2>2
    <3>3. CASE j = n + 1
      BY <3>2, <3>3
    <3>4. CASE j # n + 1
      <4>1. j \in 1 .. n /\ bt[j] = at[j]
        BY <3>4, <2>1
      <4>2. QED
        BY <4>1, <3>2, <3>1, <2>2
    <3>5. QED
      BY <3>3, <3>4
  <2>6. \A p \in 1 .. k + 1 : p \in I => \E j \in 1 .. n + 1 : bt[j] = p
    <3>1. SUFFICES ASSUME NEW p \in 1 .. k + 1, p \in I
                   PROVE  \E j \in 1 .. n + 1 : bt[j] = p
      OBVIOUS
    <3>2. CASE p = k + 1
      <4>1. n + 1 \in 1 .. n + 1 /\ bt[n + 1] = p
        BY <3>2, <2>1
      <4>2. QED
        BY <4>1
    <3>3. CASE p # k + 1
      <4>1. p \in 1 .. k
        BY <3>3
      <4>2. PICK j \in 1 .. n : at[j] = p
        BY <4>1, <3>1, <2>2
      <4>3. j \in 1 .. n + 1 /\ bt[j] = p
        BY <4>2, <2>1
      <4>4. QED
        BY <4>3
    <3>4. QED
      BY <3>2, <3>3
  <2> HIDE DEF bt
  <2>7. Taken(u, s, I, k + 1, bt)
    BY <2>1, <2>3, <2>4, <2>5, <2>6 DEF Taken
  <2>8. QED
    BY <2>7, <1>1 DEF u
<1>2. CASE k + 1 \notin I
  <2>1. at \in [1 .. Len(t) -> 1 .. k + 1]
    BY DEF Taken
  <2>2. ASSUME NEW p \in 1 .. k + 1, p \in I PROVE \E j \in 1 .. Len(t) : at[j] = p
    <3>1. p \in 1 .. k
      BY <2>2, <1>2
    <3>2. QED
      BY <3>1, <2>2 DEF Taken
  <2>3. Taken(t, s, I, k + 1, at)
    BY <2>1, <2>2 DEF Taken
  <2>4. QED
    BY <2>3, <1>2
<1>3. QED
  BY <1>1, <1>2

(* Sublist takes the items at the places I, each once, and keeps their     *)
(* order.                                                                  *)
LEMMA SublistPlaces ==
  ASSUME NEW S, NEW s \in Seq(S), NEW I
  PROVE  /\ Sublist(s, I) \in Seq(S)
         /\ \E at : Taken(Sublist(s, I), s, I, Len(s), at)
<1>1. PICK taken \in [0 .. Len(s) -> Seq(S)] :
           /\ Sublist(s, I) = taken[Len(s)]
           /\ taken[0] = <<>>
           /\ \A k \in 1 .. Len(s) :
                taken[k] = IF k \in I THEN Append(taken[k - 1], s[k]) ELSE taken[k - 1]
  BY SublistByStep
<1> DEFINE n == Len(s)
           T == {k \in Nat : k <= n => \E at : Taken(taken[k], s, I, k, at)}
<1>2. n \in Nat
  OBVIOUS
<1>3. 0 \in T
  <2>1. Taken(<<>>, s, I, 0, [j \in 1 .. 0 |-> 1])
    BY DEF Taken
  <2>2. QED
    BY <2>1, <1>1
<1>4. ASSUME NEW k \in T PROVE k + 1 \in T
  <2>1. k \in Nat /\ (k <= n => \E at : Taken(taken[k], s, I, k, at))
    OBVIOUS
  <2>2. ASSUME k + 1 <= n PROVE \E at : Taken(taken[k + 1], s, I, k + 1, at)
    <3>1. k <= n /\ k + 1 \in 1 .. Len(s) /\ (k + 1) - 1 = k /\ taken[k] \in Seq(S)
      BY <2>1, <2>2, <1>2
    <3>2. PICK at : Taken(taken[k], s, I, k, at)
      BY <2>1, <3>1
    <3>3. taken[k + 1] = IF k + 1 \in I THEN Append(taken[k], s[k + 1]) ELSE taken[k]
      BY <3>1, <1>1
    <3> HIDE DEF n
    <3>4. QED
      BY <3>1, <3>2, <3>3, <2>1, OneMoreTaken
  <2>3. QED
    BY <2>1, <2>2
<1> HIDE DEF T
<1>5. T = Nat
  <2>1. T \in SUBSET Nat
    BY DEF T
  <2>2. QED
    BY <2>1, <1>3, <1>4, AllNumbers
<1>6. QED
  BY <1>1, <1>2, <1>5 DEF T

-----------------------------------------------------------------------------
(* Flattened lists of lists. *)

LEMMA FlattenByStep ==
  ASSUME NEW S, NEW ss \in Seq(Seq(S))
  PROVE  \E flat \in [0 .. Len(ss) -> Seq(S)] :
           /\ FlattenSeq(ss) = flat[Len(ss)]
           /\ flat[0] = <<>>
           /\ \A k \in 1 .. Len(ss) : flat[k] = flat[k - 1] \o ss[k]
<1> DEFINE n == Len(ss)
           G == [k \in 1 .. n |-> [l \in Seq(S) |-> l \o ss[k]]]
           Eq(f) == f = [k \in 1 .. n |-> IF k = 1 THEN ss[k] ELSE f[k - 1] \o ss[k]]
<1>1. n \in Nat /\ <<>> \in Seq(S) /\ \A k \in 1 .. n : ss[k] \in Seq(S)
  OBVIOUS
<1>2. G \in [1 .. n -> [Seq(S) -> Seq(S)]]
  <2> HIDE DEF n
  <2>1. ASSUME NEW k \in 1 .. n, NEW l \in Seq(S) PROVE l \o ss[k] \in Seq(S)
    BY <1>1
  <2>2. QED
    BY <2>1
<1>3. PICK f \in [0 .. n -> Seq(S)] : /\ f[0] = <<>>
                                      /\ \A k \in 1 .. n : f[k] = G[k][f[k - 1]]
  <2> HIDE DEF G, n
  <2>1. StepsOn(Seq(S), n, G)
    BY <1>1, <1>2 DEF StepsOn
  <2>2. PICK f : Recursive(f, Seq(S), <<>>, n, G)
    BY <2>1, ListRecursion, Zenon
  <2>3. QED
    BY <2>2 DEF Recursive
<1>4. \A k \in 1 .. n : f[k] = f[k - 1] \o ss[k]
  <2>1. SUFFICES ASSUME NEW k \in 1 .. n PROVE f[k] = f[k - 1] \o ss[k]
    OBVIOUS
  <2> HIDE DEF n, G
  <2>2. f[k - 1] \in Seq(S)
    <3>1. k - 1 \in 0 .. n
      BY <1>1
    <3>2. QED
      BY <3>1
  <2> USE DEF G
  <2>3. QED
    BY <1>3, <2>2
<1> HIDE DEF G
<1>5. CASE n = 0
  <2>1. ss = <<>> /\ FlattenSeq(ss) = ss
    BY <1>5 DEF FlattenSeq
  <2>2. QED
    BY <2>1, <1>3, <1>4, <1>5
<1>6. CASE n # 0
  <2> DEFINE g == [k \in 1 .. n |-> f[k]]
  <2>1. 1 \in 1 .. n /\ n \in 1 .. n /\ \A k \in 1 .. n : k # 1 => k - 1 \in 1 .. n
    BY <1>1, <1>6
  <2>2. f[1] = ss[1]
    <3> HIDE DEF n
    <3>0. 1 - 1 = 0
      OBVIOUS
    <3>1. f[1] = <<>> \o ss[1] /\ ss[1] \in Seq(S)
      BY <1>1, <1>3, <1>4, <2>1, <3>0, Zenon
    <3>2. \A t \in Seq(S) : <<>> \o t = t
      OBVIOUS
    <3>3. QED
      BY <3>1, <3>2
  <2>3. Eq(g)
    <3> DEFINE h == [k \in 1 .. n |-> IF k = 1 THEN ss[k] ELSE g[k - 1] \o ss[k]]
    <3>1. ASSUME NEW k \in 1 .. n PROVE g[k] = h[k]
      <4>1. CASE k = 1
        BY <4>1, <2>2
      <4>2. CASE k # 1
        <5>1. g[k - 1] = f[k - 1] /\ g[k] = f[k]
          BY <4>2, <2>1
        <5>2. QED
          BY <5>1, <4>2, <1>4
      <4>3. QED
        BY <4>1, <4>2
    <3>2. g = h
      BY <3>1
    <3>3. QED
      BY <3>2
  <2> DEFINE flatten == CHOOSE e : Eq(e)
  <2>4. Eq(flatten) /\ FlattenSeq(ss) = flatten[n]
    <3>1. Eq(flatten)
      <4> HIDE DEF Eq, g
      <4>1. QED
        BY <2>3
    <3>2. QED
      BY <3>1, <1>6, Zenon DEF FlattenSeq
  <2> HIDE DEF flatten, g
  <2>5. flatten[1] = ss[1] /\ \A k \in 1 .. n : k # 1 => flatten[k] = flatten[k - 1] \o ss[k]
    <3> HIDE DEF n
    <3>1. QED
      BY <2>1, <2>4, Zenon
  <2> DEFINE T == {k \in Nat : k + 1 <= n => flatten[k + 1] = f[k + 1]}
  <2>6. 0 \in T
    BY <2>2, <2>5
  <2>7. ASSUME NEW k \in T PROVE k + 1 \in T
    <3>1. k \in Nat /\ k + 1 \in Nat /\ (k + 1 <= n => flatten[k + 1] = f[k + 1])
      OBVIOUS
    <3>2. ASSUME (k + 1) + 1 <= n PROVE flatten[(k + 1) + 1] = f[(k + 1) + 1]
      <4>1. /\ k + 1 <= n /\ (k + 1) + 1 \in 1 .. n
            /\ (k + 1) + 1 # 1 /\ ((k + 1) + 1) - 1 = k + 1
        BY <3>1, <3>2, <1>1
      <4> HIDE DEF n
      <4>2. /\ flatten[(k + 1) + 1] = flatten[k + 1] \o ss[(k + 1) + 1]
            /\ f[(k + 1) + 1] = f[k + 1] \o ss[(k + 1) + 1]
        BY <4>1, <2>5, <1>4, Zenon
      <4>3. QED
        BY <4>1, <4>2, <3>1
    <3>3. QED
      BY <3>1, <3>2
  <2>8. T = Nat
    <3>1. T \in SUBSET Nat
      OBVIOUS
    <3> HIDE DEF T
    <3>2. QED
      BY <2>6, <2>7, <3>1, AllNumbers
  <2>9. n - 1 \in Nat /\ (n - 1) + 1 = n
    BY <1>1, <1>6
  <2>10. flatten[n] = f[n]
    <3>1. n - 1 \in T
      BY <2>8, <2>9
    <3>2. QED
      BY <3>1, <2>9, <1>1
  <2>11. QED
    BY <2>4, <2>10, <1>3, <1>4
<1>7. QED
  BY <1>5, <1>6

(* off says where in F the items of each of the first k lists of ss begin: *)
(* they are all there, each list's together, and the lists in their order. *)
Adjoined(F, ss, k, off) ==
  /\ off \in [0 .. k -> Nat] /\ off[0] = 0 /\ off[k] = Len(F)
  /\ \A i \in 1 .. k : off[i] = off[i - 1] + Len(ss[i])
  /\ \A h, i \in 0 .. k : h <= i => off[h] <= off[i]
  /\ \A i \in 1 .. k : \A j \in 1 .. Len(ss[i]) :
        off[i - 1] + j \in 1 .. Len(F) /\ F[off[i - 1] + j] = ss[i][j]
  /\ \A p \in 1 .. Len(F) : \E i \in 1 .. k : \E j \in 1 .. Len(ss[i]) : p = off[i - 1] + j

LEMMA OneMoreAdjoined ==
  ASSUME NEW S, NEW ss \in Seq(Seq(S)), NEW F \in Seq(S), NEW k \in Nat, NEW off,
         k + 1 \in 1 .. Len(ss), Adjoined(F, ss, k, off)
  PROVE  \E fo : Adjoined(F \o ss[k + 1], ss, k + 1, fo)
<1> DEFINE s == ss[k + 1]
           H == F \o s
           a == Len(F)
           b == Len(s)
           fo == [i \in 0 .. k + 1 |-> IF i = k + 1 THEN a + b ELSE off[i]]
<1>1. s \in Seq(S)
  OBVIOUS
<1>2. /\ a \in Nat /\ b \in Nat /\ Len(H) = a + b
      /\ \A p \in 1 .. a : H[p] = F[p]
      /\ \A j \in 1 .. b : H[a + j] = s[j]
  <2> HIDE DEF s
  <2>1. QED
    BY <1>1
<1>3. /\ off \in [0 .. k -> Nat] /\ off[0] = 0 /\ off[k] = a
      /\ \A i \in 1 .. k : off[i] = off[i - 1] + Len(ss[i])
      /\ \A h, i \in 0 .. k : h <= i => off[h] <= off[i]
      /\ \A i \in 1 .. k : \A j \in 1 .. Len(ss[i]) :
            off[i - 1] + j \in 1 .. a /\ F[off[i - 1] + j] = ss[i][j]
      /\ \A p \in 1 .. a : \E i \in 1 .. k : \E j \in 1 .. Len(ss[i]) : p = off[i - 1] + j
  BY DEF Adjoined
<1>4. b = Len(ss[k + 1]) /\ \A j : s[j] = ss[k + 1][j]
  OBVIOUS
<1> HIDE DEF s, H, a, b
<1>5. fo \in [0 .. k + 1 -> Nat] /\ fo[0] = 0 /\ fo[k + 1] = a + b
  BY <1>2, <1>3
<1>6. \A i \in 0 .. k : fo[i] = off[i]
  OBVIOUS
<1> HIDE DEF fo
<1>7. ASSUME NEW i \in 1 .. k + 1 PROVE fo[i] = fo[i - 1] + Len(ss[i])
  <2>1. CASE i = k + 1
    BY <2>1, <1>2, <1>3, <1>4, <1>5, <1>6
  <2>2. CASE i # k + 1
    <3>1. i \in 1 .. k /\ i \in 0 .. k /\ i - 1 \in 0 .. k
      BY <2>2
    <3>2. QED
      BY <3>1, <1>3, <1>6
  <2>3. QED
    BY <2>1, <2>2
<1>8. ASSUME NEW h \in 0 .. k + 1, NEW i \in 0 .. k + 1, h <= i PROVE fo[h] <= fo[i]
  <2>1. CASE i = k + 1
    <3>1. CASE h = k + 1
      BY <2>1, <3>1, <1>5, <1>2
    <3>2. CASE h # k + 1
      <4>1. h \in 0 .. k /\ k \in 0 .. k /\ h <= k
        BY <3>2
      <4>2. off[h] <= a /\ off[h] \in Nat
        BY <4>1, <1>3
      <4>3. QED
        BY <4>1, <4>2, <2>1, <1>2, <1>5, <1>6
    <3>3. QED
      BY <3>1, <3>2
  <2>2. CASE i # k + 1
    <3>1. i \in 0 .. k /\ h \in 0 .. k
      BY <2>2, <1>8
    <3>2. QED
      BY <3>1, <1>8, <1>3, <1>6
  <2>3. QED
    BY <2>1, <2>2
<1>9. ASSUME NEW i \in 1 .. k + 1, NEW j \in 1 .. Len(ss[i])
      PROVE  fo[i - 1] + j \in 1 .. a + b /\ H[fo[i - 1] + j] = ss[i][j]
  <2>1. CASE i = k + 1
    <3>1. fo[i - 1] = a /\ j \in 1 .. b
      BY <2>1, <1>3, <1>4, <1>6
    <3>2. QED
      BY <3>1, <2>1, <1>2, <1>4
  <2>2. CASE i # k + 1
    <3>1. i \in 1 .. k /\ i - 1 \in 0 .. k
      BY <2>2
    <3>2. fo[i - 1] = off[i - 1] /\ off[i - 1] + j \in 1 .. a /\ F[off[i - 1] + j] = ss[i][j]
      BY <3>1, <1>3, <1>6
    <3>3. QED
      BY <3>2, <1>2, SMTT(30)
  <2>3. QED
    BY <2>1, <2>2
<1>10. ASSUME NEW p \in 1 .. a + b
       PROVE  \E i \in 1 .. k + 1 : \E j \in 1 .. Len(ss[i]) : p = fo[i - 1] + j
  <2>1. CASE p \in 1 .. a
    <3>1. PICK i \in 1 .. k : \E j \in 1 .. Len(ss[i]) : p = off[i - 1] + j
      BY <2>1, <1>3
    <3>2. i \in 1 .. k + 1 /\ fo[i - 1] = off[i - 1]
      BY <1>6
    <3>3. QED
      BY <3>1, <3>2
  <2>2. CASE p \notin 1 .. a
    <3>1. p - a \in 1 .. b /\ p = a + (p - a)
      BY <2>2, <1>2
    <3>2. k + 1 \in 1 .. k + 1 /\ fo[(k + 1) - 1] = a
      BY <1>3, <1>6
    <3>3. p - a \in 1 .. Len(ss[k + 1]) /\ p = fo[(k + 1) - 1] + (p - a)
      BY <3>1, <3>2, <1>4
    <3>4. QED
      BY <3>2, <3>3
  <2>3. QED
    BY <2>1, <2>2
<1>11. Adjoined(H, ss, k + 1, fo)
  BY <1>2, <1>5, <1>7, <1>8, <1>9, <1>10 DEF Adjoined
<1>12. QED
  BY <1>11 DEF H, s

(* FlattenSeq puts the lists one after the other.                          *)
LEMMA FlattenPlaces ==
  ASSUME NEW S, NEW ss \in Seq(Seq(S))
  PROVE  /\ FlattenSeq(ss) \in Seq(S)
         /\ \E off : Adjoined(FlattenSeq(ss), ss, Len(ss), off)
<1>1. PICK flat \in [0 .. Len(ss) -> Seq(S)] :
           /\ FlattenSeq(ss) = flat[Len(ss)]
           /\ flat[0] = <<>>
           /\ \A k \in 1 .. Len(ss) : flat[k] = flat[k - 1] \o ss[k]
  BY FlattenByStep
<1> DEFINE n == Len(ss)
           T == {k \in Nat : k <= n => \E off : Adjoined(flat[k], ss, k, off)}
<1>2. n \in Nat
  OBVIOUS
<1>3. 0 \in T
  <2> DEFINE off == [i \in 0 .. 0 |-> 0]
  <2>1. off \in [0 .. 0 -> Nat] /\ off[0] = 0
    OBVIOUS
  <2>2. \A h \in 0 .. 0 : off[h] = 0
    OBVIOUS
  <2> HIDE DEF off
  <2>3. Adjoined(<<>>, ss, 0, off)
    BY <2>1, <2>2 DEF Adjoined
  <2>4. QED
    BY <2>3, <1>1
<1>4. ASSUME NEW k \in T PROVE k + 1 \in T
  <2>1. k \in Nat /\ (k <= n => \E off : Adjoined(flat[k], ss, k, off))
    OBVIOUS
  <2>2. ASSUME k + 1 <= n PROVE \E off : Adjoined(flat[k + 1], ss, k + 1, off)
    <3>1. k <= n /\ k + 1 \in 1 .. Len(ss) /\ (k + 1) - 1 = k /\ flat[k] \in Seq(S)
      <4>1. k <= n /\ k + 1 \in 1 .. n /\ (k + 1) - 1 = k /\ k \in 0 .. n
        BY <2>1, <2>2, <1>2
      <4>2. QED
        BY <4>1, Zenon
    <3>2. PICK off : Adjoined(flat[k], ss, k, off)
      BY <2>1, <3>1
    <3>3. flat[k + 1] = flat[k] \o ss[k + 1]
      BY <3>1, <1>1
    <3> HIDE DEF n
    <3>4. QED
      BY <3>1, <3>2, <3>3, <2>1, OneMoreAdjoined
  <2>3. QED
    BY <2>1, <2>2
<1> HIDE DEF T
<1>5. T = Nat
  <2>1. T \in SUBSET Nat
    BY DEF T
  <2>2. QED
    BY <2>1, <1>3, <1>4, AllNumbers
<1>6. QED
  BY <1>1, <1>2, <1>5 DEF T
=============================================================================
