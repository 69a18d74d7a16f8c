-------------------------- MODULE Retrieval_proofs --------------------------
(***************************************************************************)
(* What the splitter, the cache of embeddings and the retrieval system     *)
(* keep, for texts of any length, any sizes, and any tasks.                *)
(***************************************************************************)
EXTENDS Retrieval, Induction

-----------------------------------------------------------------------------
(* Loops. *)

(* There are the values that a loop goes through.                          *)
LEMMA LoopExists ==
  ASSUME NEW S, NEW base \in S, NEW n, NEW G, StepsOn(S, n, G)
  PROVE  \E f : /\ f = [k \in 0 .. n |-> IF k = 0 THEN base ELSE G[k][f[k - 1]]]
                /\ \A k \in 0 .. n : f[k] \in S
<1>1. PICK f : Recursive(f, S, base, n, G)
  BY Recursion, Zenon
<1>2. /\ n \in Nat /\ f \in [0 .. n -> S] /\ f[0] = base
      /\ \A k \in 1 .. n : f[k] = G[k][f[k - 1]]
  BY <1>1 DEF Recursive, StepsOn
<1>3. f = [k \in 0 .. n |-> f[k]]
  BY <1>2
<1>4. \A k \in 0 .. n : f[k] = IF k = 0 THEN base ELSE G[k][f[k - 1]]
  <2>1. \A k \in 0 .. n : k # 0 => k \in 1 .. n
    BY <1>2
  <2>2. QED
    BY <1>2, <2>1
<1>5. f = [k \in 0 .. n |-> IF k = 0 THEN base ELSE G[k][f[k - 1]]]
  BY <1>3, <1>4
<1>6. QED
  BY <1>2, <1>5

(* What holds at first and is kept by each turn holds at the end: T are    *)
(* the numbers of turns after which it holds.                              *)
LEMMA AllTurns ==
  ASSUME NEW n \in Nat, NEW T, 0 \in T, \A k \in 1 .. n : k - 1 \in T => k \in T
  PROVE  \A k \in 0 .. n : k \in T
<1> DEFINE U == {k \in Nat : k <= n => k \in T}
<1>1. 0 \in U
  OBVIOUS
<1>2. ASSUME NEW k \in U PROVE k + 1 \in U
  <2>1. k \in Nat /\ k + 1 \in Nat /\ (k + 1) - 1 = k /\ (k <= n => k \in T)
    OBVIOUS
  <2>2. ASSUME k + 1 <= n PROVE k + 1 \in T
    <3>1. k + 1 \in 1 .. n /\ k <= n
      BY <2>1, <2>2
    <3>2. QED
      BY <2>1, <3>1
  <2>3. QED
    BY <2>1, <2>2
<1>3. U = Nat
  <2>1. U \in SUBSET Nat
    OBVIOUS
  <2> HIDE DEF U
  <2>2. QED
    BY <1>1, <1>2, <2>1, AllNumbers
<1>4. QED
  BY <1>3

-----------------------------------------------------------------------------
(* Parts of a text. *)

Rises(text) ==
  \A i, j \in 1 .. Len(text) :
    i < j /\ text[i] > Space /\ text[j] > Space => text[i] < text[j]

Has(text, c) == \E i \in 1 .. Len(text) : text[i] = c

(* s is the part of text after its place at.                               *)
PartOf(s, text, at) ==
  /\ at \in Nat /\ s \in Text /\ at + Len(s) <= Len(text)
  /\ \A i \in 1 .. Len(s) : s[i] = text[at + i]

LEMMA SubSeqIsPart ==
  ASSUME NEW text \in Text, NEW a \in Nat, NEW b \in Nat, a <= b, b <= Len(text)
  PROVE  /\ PartOf(SubSeq(text, a + 1, b), text, a)
         /\ Len(SubSeq(text, a + 1, b)) = b - a
<1> DEFINE s == SubSeq(text, a + 1, b)
           m == a + 1
<1>1. m \in Int /\ b \in Int /\ \A i \in m .. b : text[i] \in Nat
  BY DEF Text
<1>2. /\ s \in Seq(Nat) /\ Len(s) = (IF m <= b THEN b - m + 1 ELSE 0)
      /\ \A i \in 1 .. b - m + 1 : s[i] = text[m + i - 1]
  <2>1. m \in Int /\ \A i \in m .. b : text[i] \in Nat
    BY <1>1
  <2> HIDE DEF m
  <2>2. QED
    BY <2>1, <1>1, SubSeqProperties DEF s, m
<1> HIDE DEF s
<1>3. Len(s) = b - a
  BY <1>2
<1>4. \A i \in 1 .. Len(s) : s[i] = text[a + i]
  <2> SUFFICES ASSUME NEW i \in 1 .. Len(s) PROVE s[i] = text[a + i]
    OBVIOUS
  <2>1. i \in 1 .. b - m + 1 /\ m + i - 1 = a + i
    BY <1>3
  <2> HIDE DEF m
  <2>2. QED
    BY <1>2, <2>1
<1>5. QED
  BY <1>2, <1>3, <1>4 DEF PartOf, s, Text

LEMMA PartRises ==
  ASSUME NEW s, NEW text \in Text, NEW at, Rises(text), PartOf(s, text, at)
  PROVE  Rises(s)
<1>1. Len(text) \in Nat /\ Len(s) \in Nat
  BY DEF PartOf, Text
<1>2. \A i, j \in 1 .. Len(s) : i < j => at + i \in 1 .. Len(text) /\ at + j \in 1 .. Len(text) /\ at + i < at + j
  BY <1>1 DEF PartOf
<1>3. QED
  BY <1>2 DEF Rises, PartOf

-----------------------------------------------------------------------------
(* Letters of several bytes. *)

(* Each byte of a letter but the first comes after the one before it.      *)
Formed(text) ==
  \A k \in 1 .. Len(text) :
    Inner(text[k]) => k > 1 /\ text[k - 1] > Space /\ text[k - 1] = text[k] - 1

(* No letter has more than width bytes.                                    *)
Thin(text, width) == \A k \in 1 .. Len(text) : text[k] > Space => text[k] % 4 < width

LEMMA FormedIs ==
  ASSUME NEW text \in Text
  PROVE  WellFormed(text) <=> Formed(text)
<1>1. text \in Seq(Nat)
  BY DEF Text
<1>2. DOMAIN text = 1 .. Len(text)
  BY <1>1
<1>3. QED
  BY <1>2, Zenon DEF WellFormed, Formed

LEMMA ThinIs ==
  ASSUME NEW text \in Text, NEW width
  PROVE  Narrow(text, width) <=> Thin(text, width)
<1>1. text \in Seq(Nat)
  BY DEF Text
<1>2. ToSet(text) = {text[k] : k \in 1 .. Len(text)}
  BY <1>1 DEF ToSet
<1>3. QED
  BY <1>2 DEF Narrow, Thin

(* A text may be cut where a letter begins. *)
LEMMA PartFormed ==
  ASSUME NEW s, NEW text \in Text, NEW at, PartOf(s, text, at), Formed(text),
         IsCharBoundary(text, at)
  PROVE  Formed(s)
<1>1. /\ Len(text) \in Nat /\ Len(s) \in Nat /\ at \in Nat /\ at + Len(s) <= Len(text)
      /\ \A i \in 1 .. Len(s) : s[i] = text[at + i]
  BY DEF PartOf, Text
<1>2. SUFFICES ASSUME NEW k \in 1 .. Len(s), Inner(s[k])
               PROVE  k > 1 /\ s[k - 1] > Space /\ s[k - 1] = s[k] - 1
  BY DEF Formed
<1>3. /\ at + k \in 1 .. Len(text) /\ s[k] = text[at + k] /\ at + k > 1
      /\ text[(at + k) - 1] > Space /\ text[(at + k) - 1] = s[k] - 1
  <2>1. at + k \in 1 .. Len(text) /\ s[k] = text[at + k]
    BY <1>1
  <2>2. QED
    BY <2>1, <1>2 DEF Formed
<1>4. k # 1
  <2> SUFFICES ASSUME k = 1 PROVE FALSE
    OBVIOUS
  <2>1. at # 0 /\ at # Len(text)
    BY <1>1, <1>3
  <2>2. ~Inner(text[at + 1])
    BY <2>1 DEF IsCharBoundary
  <2>3. QED
    BY <2>2, <1>2, <1>3
<1>5. k - 1 \in 1 .. Len(s) /\ at + (k - 1) = (at + k) - 1
  BY <1>1, <1>4
<1>6. s[k - 1] = text[(at + k) - 1]
  BY <1>1, <1>5
<1>7. QED
  BY <1>3, <1>5, <1>6

LEMMA PartThin ==
  ASSUME NEW s, NEW text \in Text, NEW at, NEW width, PartOf(s, text, at), Thin(text, width)
  PROVE  Thin(s, width)
<1>1. \A i \in 1 .. Len(s) : s[i] = text[at + i] /\ at + i \in 1 .. Len(text)
  BY DEF PartOf, Text
<1>2. QED
  BY <1>1 DEF Thin

(* Of some numbers up to b there is a largest one. *)
LEMMA LargestIs ==
  ASSUME NEW a \in Nat, NEW b \in Nat, NEW S \in SUBSET (a .. b), S # {}
  PROVE  Max(S) \in S /\ \A x \in S : x <= Max(S)
<1> DEFINE T == {b - x : x \in S}
<1>1. T \in SUBSET Nat /\ T # {}
  <2>1. \A x \in S : b - x \in Nat
    OBVIOUS
  <2>2. PICK x \in S : TRUE
    OBVIOUS
  <2>3. b - x \in T
    BY <2>2
  <2>4. QED
    BY <2>1, <2>3
<1>2. PICK n \in T : \A m \in T : n <= m
  BY <1>1, LeastNumber
<1>3. PICK x \in S : n = b - x
  OBVIOUS
<1>4. \A y \in S : b - y \in T
  OBVIOUS
<1> HIDE DEF T
<1>5. ASSUME NEW y \in S PROVE x >= y
  <2>1. n <= b - y /\ x \in Nat /\ y \in Nat
    BY <1>2, <1>4
  <2>2. QED
    BY <2>1, <1>3
<1>6. Max(S) \in S /\ \A y \in S : Max(S) >= y
  BY <1>5, Zenon DEF Max
<1>7. QED
  BY <1>6

LEMMA OfTwo ==
  ASSUME NEW a \in Nat, NEW b \in Int
  PROVE  /\ Max({a, b}) = IF a >= b THEN a ELSE b
         /\ Min({a, b}) = IF a <= b THEN a ELSE b
<1>1. PICK m \in {a, b} : \A y \in {a, b} : m >= y
  OBVIOUS
<1>2. Max({a, b}) \in {a, b} /\ \A y \in {a, b} : Max({a, b}) >= y
  BY <1>1, Zenon DEF Max
<1>3. PICK l \in {a, b} : \A y \in {a, b} : l <= y
  OBVIOUS
<1>4. Min({a, b}) \in {a, b} /\ \A y \in {a, b} : Min({a, b}) <= y
  BY <1>3, Zenon DEF Min
<1>5. QED
  BY <1>2, <1>4

LEMMA ToBoundaryIs ==
  ASSUME NEW text, NEW floor \in Nat, NEW p \in Nat, floor <= p
  PROVE  LET q == ToBoundary(text, floor, p)
         IN /\ q \in floor .. p
            /\ q = floor \/ IsCharBoundary(text, q)
            /\ \A r \in floor .. p : IsCharBoundary(text, r) => r <= q
<1> DEFINE S == {q \in floor .. p : q = floor \/ IsCharBoundary(text, q)}
<1>1. S \in SUBSET (floor .. p) /\ floor \in S
  OBVIOUS
<1>2. \A r \in floor .. p : IsCharBoundary(text, r) => r \in S
  OBVIOUS
<1>3. \A q \in S : q \in floor .. p /\ (q = floor \/ IsCharBoundary(text, q))
  OBVIOUS
<1>4. ToBoundary(text, floor, p) = Max(S)
  BY DEF ToBoundary
<1> HIDE DEF S
<1>5. Max(S) \in S /\ \A x \in S : x <= Max(S)
  BY <1>1, LargestIs
<1>6. QED
  BY <1>2, <1>3, <1>4, <1>5

(* One byte back within a letter. *)
LEMMA OneBack ==
  ASSUME NEW text \in Text, Formed(text), NEW p \in 0 .. Len(text), ~IsCharBoundary(text, p)
  PROVE  /\ p \in 1 .. Len(text) - 1 /\ p + 1 \in 1 .. Len(text)
         /\ text[p + 1] \in Nat /\ text[p + 1] > Space /\ text[p + 1] % 4 \in 1 .. 3
         /\ text[p] > Space /\ text[p] % 4 = (text[p + 1] % 4) - 1
<1>1. p \in 1 .. Len(text) - 1 /\ p + 1 \in 1 .. Len(text) /\ Inner(text[p + 1])
  BY DEF IsCharBoundary, Text
<1>2. text[p + 1] \in Nat /\ text[p] \in Nat
  BY <1>1 DEF Text
<1>3. text[(p + 1) - 1] > Space /\ text[(p + 1) - 1] = text[p + 1] - 1 /\ (p + 1) - 1 = p
  BY <1>1 DEF Formed
<1>4. text[p + 1] > Space /\ text[p + 1] % 4 # 0
  BY <1>1 DEF Inner
<1> DEFINE c == text[p + 1]
<1>5. c \in Nat /\ c % 4 # 0
  BY <1>2, <1>4
<1> HIDE DEF c
<1>6. c % 4 \in 1 .. 3 /\ (c - 1) % 4 = (c % 4) - 1
  BY <1>5
<1>7. QED
  BY <1>1, <1>2, <1>3, <1>4, <1>6 DEF c

(* A letter begins less than its width before any of its bytes.            *)
LEMMA Backs ==
  ASSUME NEW text \in Text, Formed(text), NEW width \in 1 .. 4, Thin(text, width),
         NEW p \in 0 .. Len(text)
  PROVE  \E q \in 0 .. p : IsCharBoundary(text, q) /\ q + width > p
<1>0. Len(text) \in Nat
  BY DEF Text
<1>1. CASE IsCharBoundary(text, p)
  <2>1. p \in 0 .. p /\ p + width > p
    BY <1>0
  <2>2. QED
    BY <1>1, <2>1
<1>2. CASE ~IsCharBoundary(text, p)
  <2> DEFINE r(i) == text[i] % 4
  <2>1. /\ p \in 1 .. Len(text) - 1 /\ r(p + 1) \in 1 .. 3 /\ r(p) = r(p + 1) - 1
        /\ r(p + 1) < width
    BY <1>2, OneBack DEF Thin
  <2>2. ASSUME NEW q \in 0 .. Len(text), ~IsCharBoundary(text, q)
        PROVE  q \in 1 .. Len(text) - 1 /\ r(q + 1) \in 1 .. 3 /\ r(q) = r(q + 1) - 1
    BY <2>2, OneBack
  <2> HIDE DEF r
  <2>3. /\ p - 1 \in 0 .. p /\ p - 1 \in 0 .. Len(text) /\ (p - 1) + 1 = p
        /\ (p - 1) + width > p
    BY <1>0, <2>1
  <2>4. CASE IsCharBoundary(text, p - 1)
    BY <2>3, <2>4
  <2>5. CASE ~IsCharBoundary(text, p - 1)
    <3>1. p - 1 \in 1 .. Len(text) - 1 /\ r(p) \in 1 .. 3 /\ r(p - 1) = r(p) - 1
      BY <2>2, <2>3, <2>5
    <3>2. /\ p - 2 \in 0 .. p /\ p - 2 \in 0 .. Len(text) /\ (p - 2) + 1 = p - 1
          /\ (p - 2) + width > p
      BY <1>0, <2>1, <3>1
    <3>3. CASE IsCharBoundary(text, p - 2)
      BY <3>2, <3>3
    <3>4. CASE ~IsCharBoundary(text, p - 2)
      <4>1. p - 2 \in 1 .. Len(text) - 1 /\ r(p - 1) \in 1 .. 3 /\ r(p - 2) = r(p - 1) - 1
        BY <2>2, <3>2, <3>4
      <4>2. /\ p - 3 \in 0 .. p /\ p - 3 \in 0 .. Len(text) /\ (p - 3) + 1 = p - 2
            /\ (p - 3) + width > p /\ r(p - 2) = 0
        <5>0. \A i, j, k \in 1 .. 3 : j = i - 1 /\ k = j - 1 => k = 1 /\ i = 3
          OBVIOUS
        <5>1. r(p - 1) = 1 /\ r(p + 1) = 3
          BY <2>1, <3>1, <4>1, <5>0
        <5>2. r(p - 2) = 0 /\ width > 3
          BY <2>1, <4>1, <5>1
        <5> HIDE DEF r
        <5>3. QED
          BY <1>0, <4>1, <5>2
      <4>3. IsCharBoundary(text, p - 3)
        BY <2>2, <4>2
      <4>4. QED
        BY <4>2, <4>3
    <3>5. QED
      BY <3>3, <3>4
  <2>6. QED
    BY <2>4, <2>5
<1>3. QED
  BY <1>1, <1>2

(* So the way back is short. *)
LEMMA ShortWayBack ==
  ASSUME NEW text \in Text, Formed(text), NEW width \in 1 .. 4, Thin(text, width),
         NEW floor \in Nat, NEW p \in Nat, floor <= p, p <= Len(text)
  PROVE  ToBoundary(text, floor, p) + width > p
<1> DEFINE q == ToBoundary(text, floor, p)
<1>1. q \in floor .. p /\ \A r \in floor .. p : IsCharBoundary(text, r) => r <= q
  BY ToBoundaryIs
<1> HIDE DEF q
<1>2. p \in 0 .. Len(text)
  OBVIOUS
<1>3. PICK r \in 0 .. p : IsCharBoundary(text, r) /\ r + width > p
  BY <1>2, Backs
<1>4. CASE floor <= r
  <2>1. r \in floor .. p
    BY <1>4
  <2>2. r <= q
    BY <2>1, <1>1, <1>3
  <2>3. QED
    BY <2>2, <1>1, <1>3 DEF q
<1>5. CASE r < floor
  BY <1>1, <1>3, <1>5 DEF q
<1>6. QED
  BY <1>4, <1>5

-----------------------------------------------------------------------------
(* The pieces between separators. *)

(* Not after a byte of a letter. *)
Begins(text, k) == k = 0 \/ text[k] <= Space

(* at says where in text the pieces begin: they are apart and in order,    *)
(* begin after what separates them, and hold every letter of the first     *)
(* upto places.                                                            *)
LaidOut(pieces, text, upto, at) ==
  /\ \A i \in 1 .. Len(pieces) : PartOf(pieces[i], text, at[i]) /\ at[i] + Len(pieces[i]) <= upto
                                 /\ Begins(text, at[i])
  /\ \A i, j \in 1 .. Len(pieces) : i < j => at[i] + Len(pieces[i]) <= at[j]
  /\ \A p \in 1 .. upto : text[p] > Space =>
       \E i \in 1 .. Len(pieces) : at[i] < p /\ p <= at[i] + Len(pieces[i])

LEMMA OneMorePiece ==
  ASSUME NEW text \in Text, NEW pieces \in Seq(Text), NEW at, NEW upto \in Nat,
         LaidOut(pieces, text, upto, at), Begins(text, upto),
         NEW b \in Nat, NEW e \in Nat, upto <= b, b <= e, e <= Len(text),
         \A p \in b + 1 .. e : text[p] <= Space
  PROVE  \E bt : LaidOut(Append(pieces, SubSeq(text, upto + 1, b)), text, e, bt)
<1> DEFINE s == SubSeq(text, upto + 1, b)
           n == Len(pieces)
           ps == Append(pieces, s)
           bt == [i \in 1 .. n + 1 |-> IF i = n + 1 THEN upto ELSE at[i]]
<1>1. Len(text) \in Nat /\ n \in Nat /\ \A p \in 1 .. Len(text) : text[p] \in Nat
  BY DEF Text
<1>2. PartOf(s, text, upto) /\ Len(s) = b - upto
  BY SubSeqIsPart, <1>1
<1> HIDE DEF s
<1>3. s \in Text
  BY <1>2 DEF PartOf
<1>4. /\ Len(ps) = n + 1 /\ ps[n + 1] = s
      /\ \A i \in 1 .. n : ps[i] = pieces[i]
  BY <1>3
<1>5. /\ bt[n + 1] = upto /\ \A i \in 1 .. n : bt[i] = at[i]
  BY <1>1
<1> HIDE DEF ps, bt
<1>6. \A i \in 1 .. n + 1 : i = n + 1 \/ i \in 1 .. n
  BY <1>1
<1>7. \A i \in 1 .. n : PartOf(pieces[i], text, at[i]) /\ at[i] + Len(pieces[i]) <= upto
                        /\ Begins(text, at[i]) /\ at[i] \in Nat /\ Len(pieces[i]) \in Nat
  BY DEF LaidOut, PartOf, Text
<1> HIDE DEF n
<1>8. \A i \in 1 .. n + 1 : PartOf(ps[i], text, bt[i]) /\ bt[i] + Len(ps[i]) <= e /\ Begins(text, bt[i])
  <2> SUFFICES ASSUME NEW i \in 1 .. n + 1
               PROVE  PartOf(ps[i], text, bt[i]) /\ bt[i] + Len(ps[i]) <= e /\ Begins(text, bt[i])
    OBVIOUS
  <2>1. CASE i = n + 1
    BY <2>1, <1>2, <1>4, <1>5
  <2>2. CASE i \in 1 .. n
    BY <2>2, <1>4, <1>5, <1>7
  <2>3. QED
    BY <2>1, <2>2, <1>6
<1>9. \A i, j \in 1 .. n + 1 : i < j => bt[i] + Len(ps[i]) <= bt[j]
  <2> SUFFICES ASSUME NEW i \in 1 .. n + 1, NEW j \in 1 .. n + 1, i < j
               PROVE  bt[i] + Len(ps[i]) <= bt[j]
    OBVIOUS
  <2>1. i \in 1 .. n
    BY <1>1, <1>6 DEF n
  <2>2. CASE j = n + 1
    BY <2>1, <2>2, <1>4, <1>5, <1>7
  <2>3. CASE j \in 1 .. n
    BY <2>1, <2>3, <1>4, <1>5 DEF LaidOut, n
  <2>4. QED
    BY <2>2, <2>3, <1>6
<1>10. ASSUME NEW p \in 1 .. e, text[p] > Space
       PROVE  \E i \in 1 .. n + 1 : bt[i] < p /\ p <= bt[i] + Len(ps[i])
  <2>1. CASE p <= upto
    <3>1. PICK i \in 1 .. n : at[i] < p /\ p <= at[i] + Len(pieces[i])
      BY <2>1, <1>10 DEF LaidOut, n
    <3>2. i \in 1 .. n + 1
      BY <1>1 DEF n
    <3>3. QED
      BY <3>1, <3>2, <1>4, <1>5
  <2>2. CASE upto < p /\ p <= b
    <3>1. n + 1 \in 1 .. n + 1
      BY <1>1 DEF n
    <3>2. bt[n + 1] < p /\ p <= bt[n + 1] + Len(ps[n + 1])
      BY <2>2, <1>2, <1>4, <1>5
    <3>3. QED
      BY <3>1, <3>2
  <2>3. CASE b < p
    <3>1. p \in b + 1 .. e /\ text[p] \in Nat
      BY <2>3, <1>1
    <3>2. QED
      BY <3>1, <1>10 DEF Space
  <2>4. QED
    BY <2>1, <2>2, <2>3
<1>11. LaidOut(ps, text, e, bt)
  BY SMTT(30), <1>4, <1>8, <1>9, <1>10 DEF LaidOut
<1>12. QED
  BY <1>11 DEF ps, s

Separations == [from : Nat \ {0}, pieces : Seq(Text)]

(* A separator has no letters. *)
IsSeparator(s) == s \in Text /\ s # <<>> /\ \A i \in 1 .. Len(s) : s[i] <= Space

LEMMA PiecesByStep ==
  ASSUME NEW text \in Text, NEW separator \in Text
  PROVE  \E acc :
           /\ Pieces(text, separator)
                = Append(acc[Len(text)].pieces, SubSeq(text, acc[Len(text)].from, Len(text)))
           /\ acc[0] = [from |-> 1, pieces |-> <<>>]
           /\ \A k \in 1 .. Len(text) : acc[k] = Separate(separator, text, acc[k - 1], k)
<1> DEFINE n == Len(text)
           none == [from |-> 1, pieces |-> <<>>]
           G == [k \in 1 .. n |-> [a \in Separations |-> Separate(separator, text, a, k)]]
           Eq(f) == f = [k \in 0 .. n |-> IF k = 0 THEN none ELSE Separate(separator, text, f[k - 1], k)]
<1>1. n \in Nat /\ Len(separator) \in Nat /\ none \in Separations
  BY DEF Text, Separations
<1>2. ASSUME NEW k \in 1 .. n, NEW a \in Separations PROVE Separate(separator, text, a, k) \in Separations
  <2>1. CASE StandsAt(separator, text, a, k)
    <3> DEFINE m == a.from - 1
    <3>1. m \in Nat /\ m + 1 = a.from /\ k - 1 \in Nat /\ m <= k - 1 /\ k - 1 <= Len(text)
      BY <2>1, <1>1 DEF StandsAt, Separations
    <3>2. SubSeq(text, a.from, k - 1) \in Text
      <4> HIDE DEF m
      <4>1. PartOf(SubSeq(text, m + 1, k - 1), text, m)
        BY <3>1, SubSeqIsPart
      <4>2. QED
        BY <4>1, <3>1 DEF PartOf
    <3>3. Append(a.pieces, SubSeq(text, a.from, k - 1)) \in Seq(Text)
      BY <3>2 DEF Separations
    <3>4. k + Len(separator) \in Nat \ {0}
      BY <1>1
    <3>5. QED
      BY <2>1, <3>3, <3>4 DEF Separate, Separations
  <2>2. CASE ~StandsAt(separator, text, a, k)
    BY <2>2 DEF Separate
  <2>3. QED
    BY <2>1, <2>2
<1> HIDE DEF n, none
<1>3. StepsOn(Separations, n, G)
  <2>1. G \in [1 .. n -> [Separations -> Separations]]
    BY <1>2
  <2>2. QED
    BY <1>1, <2>1 DEF StepsOn
<1>4. PICK f : /\ f = [k \in 0 .. n |-> IF k = 0 THEN none ELSE G[k][f[k - 1]]]
               /\ \A k \in 0 .. n : f[k] \in Separations
  <2> HIDE DEF G
  <2>1. QED
    BY <1>1, <1>3, LoopExists
<1>5. Eq(f)
  <2>1. ASSUME NEW k \in 0 .. n
        PROVE  (IF k = 0 THEN none ELSE G[k][f[k - 1]])
                 = (IF k = 0 THEN none ELSE Separate(separator, text, f[k - 1], k))
    <3>1. k # 0 => k \in 1 .. n /\ k - 1 \in 0 .. n
      BY <1>1
    <3>2. QED
      BY <3>1, <1>4
  <2> HIDE DEF G
  <2>2. QED
    BY <1>4, <2>1
<1> DEFINE acc == CHOOSE g : Eq(g)
<1>6. /\ Eq(acc)
      /\ Pieces(text, separator) = Append(acc[n].pieces, SubSeq(text, acc[n].from, n))
  <2>1. Eq(acc)
    <3> HIDE DEF Eq
    <3>1. QED
      BY <1>5
  <2>2. QED
    BY <2>1, Zenon DEF Pieces, n, none
<1> HIDE DEF acc
<1>7. /\ acc[0] = none
      /\ \A k \in 1 .. n : acc[k] = Separate(separator, text, acc[k - 1], k)
  <2>1. 0 \in 0 .. n /\ \A k \in 1 .. n : k \in 0 .. n /\ k # 0
    BY <1>1
  <2>2. QED
    BY <1>6, <2>1, Zenon
<1>8. QED
  BY Zenon, <1>6, <1>7 DEF n, none

(* The pieces of a text lie apart in it, in order, and hold its letters.   *)
LEMMA PiecesAre ==
  ASSUME NEW text \in Text, NEW separator, IsSeparator(separator)
  PROVE  /\ Pieces(text, separator) \in Seq(Text)
         /\ \E at : LaidOut(Pieces(text, separator), text, Len(text), at)
<1> DEFINE n == Len(text)
           d == Len(separator)
<1>1. separator \in Text /\ n \in Nat /\ d \in Nat \ {0}
  BY DEF IsSeparator, Text
<1>2. PICK acc :
           /\ Pieces(text, separator) = Append(acc[n].pieces, SubSeq(text, acc[n].from, n))
           /\ acc[0] = [from |-> 1, pieces |-> <<>>]
           /\ \A k \in 1 .. n : acc[k] = Separate(separator, text, acc[k - 1], k)
  BY <1>1, PiecesByStep
<1> DEFINE Ok(k) == /\ acc[k].from \in Nat \ {0} /\ acc[k].from <= n + 1
                    /\ acc[k].pieces \in Seq(Text) /\ Begins(text, acc[k].from - 1)
                    /\ \E at : LaidOut(acc[k].pieces, text, acc[k].from - 1, at)
           T == {k \in 0 .. n : Ok(k)}
<1>3. 0 \in T
  <2>1. LaidOut(<<>>, text, 0, <<>>)
    BY DEF LaidOut
  <2>2. acc[0].from = 1 /\ acc[0].pieces = <<>> /\ acc[0].from - 1 = 0 /\ <<>> \in Seq(Text)
    BY <1>2
  <2>3. LaidOut(acc[0].pieces, text, acc[0].from - 1, <<>>) /\ Begins(text, acc[0].from - 1)
    BY <2>1, <2>2 DEF Begins
  <2>4. Ok(0)
    BY <2>2, <2>3, <1>1
  <2>5. QED
    BY <2>4, <1>1
<1>4. ASSUME NEW k \in 1 .. n, k - 1 \in T PROVE k \in T
  <2> DEFINE a == acc[k - 1]
             upto == a.from - 1
  <2>1. acc[k] = Separate(separator, text, a, k) /\ Ok(k - 1)
    BY <1>2, <1>4
  <2>2. /\ a.from \in Nat \ {0} /\ a.from <= n + 1 /\ a.pieces \in Seq(Text)
        /\ upto \in Nat /\ upto + 1 = a.from /\ Begins(text, upto)
    BY <2>1
  <2>3. PICK at : LaidOut(a.pieces, text, upto, at)
    BY <2>1
  <2>4. CASE ~StandsAt(separator, text, a, k)
    <3>1. acc[k] = a
      BY <2>1, <2>4 DEF Separate
    <3>2. Ok(k)
      BY <3>1, <2>1
    <3>3. QED
      BY <3>2, <1>1
  <2>5. CASE StandsAt(separator, text, a, k)
    <3> DEFINE b == k - 1
               e == k + d - 1
               s == SubSeq(text, a.from, b)
    <3>1. acc[k] = [from |-> k + d, pieces |-> Append(a.pieces, s)]
      BY <2>1, <2>5 DEF Separate
    <3>2. /\ b \in Nat /\ e \in Nat /\ upto <= b /\ b <= e /\ e <= n /\ b + 1 = k
          /\ SubSeq(text, b + 1, e) = separator
      <4>1. a.from <= k /\ e <= n /\ SubSeq(text, k, e) = separator
        BY <2>5, Zenon DEF StandsAt
      <4>2. b + 1 = k
        BY <1>1
      <4> HIDE DEF a
      <4>3. b \in Nat /\ e \in Nat /\ upto <= b /\ b <= e
        BY <4>1, <2>2, <1>1
      <4>4. QED
        BY <4>1, <4>2, <4>3
    <3> HIDE DEF b, e, upto, a
    <3>3. PartOf(separator, text, b)
      BY <3>2, SubSeqIsPart
    <3>4. \A p \in b + 1 .. e : text[p] <= Space
      <4> SUFFICES ASSUME NEW p \in b + 1 .. e PROVE text[p] <= Space
        OBVIOUS
      <4>1. p - b \in 1 .. d /\ b + (p - b) = p
        BY <3>2, <1>1 DEF e, b
      <4>2. QED
        BY <4>1, <3>3 DEF PartOf, IsSeparator
    <3>5. PICK bt : LaidOut(Append(a.pieces, SubSeq(text, upto + 1, b)), text, e, bt)
      BY <2>2, <2>3, <3>2, <3>4, OneMorePiece
    <3>6. s \in Text
      <4>1. PartOf(SubSeq(text, upto + 1, b), text, upto)
        BY <2>2, <3>2, <1>1, SubSeqIsPart
      <4>2. QED
        BY <4>1, <2>2 DEF PartOf
    <3>7. /\ acc[k].from = k + d /\ acc[k].pieces = Append(a.pieces, s)
          /\ acc[k].from - 1 = e /\ acc[k].from \in Nat \ {0} /\ acc[k].from <= n + 1
      <4>1. acc[k].from = k + d /\ acc[k].pieces = Append(a.pieces, s)
        <5> HIDE DEF d, s
        <5>1. QED
          BY <3>1
      <4>2. k + d - 1 = e /\ k + d \in Nat \ {0} /\ k + d <= n + 1
        BY <3>2, <1>1 DEF e
      <4>3. QED
        BY <4>1, <4>2
    <3>8. acc[k].pieces \in Seq(Text)
      BY <3>6, <3>7, <2>2
    <3>9. LaidOut(acc[k].pieces, text, acc[k].from - 1, bt)
      BY <3>5, <3>7, <2>2
    <3>10. Begins(text, acc[k].from - 1)
      <4>1. e \in b + 1 .. e
        BY <3>2, <1>1 DEF e, b
      <4>2. QED
        BY <3>4, <3>7, <4>1 DEF Begins
    <3>11. Ok(k)
      BY <3>7, <3>8, <3>9, <3>10
    <3>12. QED
      BY <3>11, <1>1
  <2>6. QED
    BY <2>4, <2>5
<1>5. Ok(n)
  <2> HIDE DEF Ok
  <2>1. \A k \in 0 .. n : k \in T
    <3> HIDE DEF T, n
    <3>1. QED
      BY <1>1, <1>3, <1>4, AllTurns
  <2>2. QED
    BY <2>1, <1>1
<1> DEFINE upto == acc[n].from - 1
           s == SubSeq(text, upto + 1, n)
<1>6. /\ acc[n].pieces \in Seq(Text) /\ upto \in Nat /\ upto <= n /\ upto + 1 = acc[n].from
      /\ Begins(text, upto) /\ \E at : LaidOut(acc[n].pieces, text, upto, at)
  BY <1>5, <1>1
<1> HIDE DEF upto, Ok, T
<1>7. PICK at : LaidOut(acc[n].pieces, text, upto, at)
  BY <1>6
<1>8. \A p \in n + 1 .. n : text[p] <= Space
  BY <1>1
<1>9. \E bt : LaidOut(Append(acc[n].pieces, s), text, n, bt)
  BY <1>1, <1>6, <1>7, <1>8, OneMorePiece
<1>10. s \in Text
  <2>1. upto \in Nat /\ n \in Nat /\ upto <= n /\ n <= Len(text)
    BY <1>1, <1>6
  <2>2. PartOf(s, text, upto)
    BY <2>1, SubSeqIsPart
  <2>3. QED
    BY <2>2 DEF PartOf
<1>11. QED
  BY <1>2, <1>6, <1>9, <1>10

(* A piece has whole letters, none wider than those of the text.           *)
LEMMA PiecesInherit ==
  ASSUME NEW text \in Text, NEW separator, IsSeparator(separator),
         Formed(text), NEW width, Thin(text, width)
  PROVE  \A piece \in ToSet(Pieces(text, separator)) :
           piece \in Text /\ Formed(piece) /\ Thin(piece, width)
<1> DEFINE pieces == Pieces(text, separator)
<1>1. pieces \in Seq(Text)
  BY PiecesAre
<1>2. PICK at : LaidOut(pieces, text, Len(text), at)
  BY PiecesAre
<1> HIDE DEF pieces
<1>3. \A piece \in ToSet(pieces) : \E i \in 1 .. Len(pieces) : piece = pieces[i]
  BY <1>1 DEF ToSet
<1>4. ASSUME NEW i \in 1 .. Len(pieces)
      PROVE  pieces[i] \in Text /\ Formed(pieces[i]) /\ Thin(pieces[i], width)
  <2>1. PartOf(pieces[i], text, at[i]) /\ Begins(text, at[i])
    BY <1>2 DEF LaidOut
  <2> DEFINE a == at[i]
  <2>2. a \in 0 .. Len(text)
    BY <2>1 DEF PartOf, Text
  <2>3. IsCharBoundary(text, a)
    <3> HIDE DEF a
    <3>1. SUFFICES ASSUME a # 0, a # Len(text), Inner(text[a + 1]) PROVE FALSE
      BY DEF IsCharBoundary
    <3>2. Len(text) \in Nat
      BY DEF Text
    <3>3. a + 1 \in 1 .. Len(text) /\ (a + 1) - 1 = a /\ a \in 1 .. Len(text)
      BY <2>2, <3>1, <3>2
    <3>4. text[a] > Space /\ text[a] \in Nat
      BY <3>1, <3>3 DEF Formed, Text
    <3>5. text[a] <= Space
      BY <2>1, <3>1 DEF Begins, a
    <3>6. QED
      BY <3>4, <3>5 DEF Space
  <2>4. QED
    BY <2>1, <2>3, PartFormed, PartThin DEF PartOf
<1>5. QED
  BY <1>3, <1>4 DEF pieces

-----------------------------------------------------------------------------
(* Chunks. *)

(* A chunk is not longer than most, and no letter is cut or out of order.  *)
Fine(chunk, text, most) ==
  Len(chunk) <= most /\ (Rises(text) => Rises(chunk)) /\ Formed(chunk)

Within(c, chunks) == \E chunk \in ToSet(chunks) : Has(chunk, c)

(* Nor is a letter of text missing. *)
CutsText(chunks, text, most) ==
  /\ chunks \in Seq(Text)
  /\ \A chunk \in ToSet(chunks) : Fine(chunk, text, most)
  /\ \A p \in 1 .. Len(text) : text[p] > Space => Within(text[p], chunks)

LEMMA ItemsAre ==
  ASSUME NEW S, NEW s \in Seq(S)
  PROVE  /\ ToSet(s) \subseteq S
         /\ \A i \in 1 .. Len(s) : s[i] \in ToSet(s)
         /\ \A x \in ToSet(s) : \E i \in 1 .. Len(s) : x = s[i]
BY DEF ToSet

Sizes(size, overlap) == size \in Nat \ {0} /\ overlap \in Nat

(* A chunk has room for letters of this width, see HasRoom.                *)
Room(size, overlap, width) ==
  size >= overlap + 2 * width - 1 \/ (overlap = 0 /\ size >= width)

CutStates == [start : Nat, chunks : Seq(Text)]

(* A turn leaves the text as it is when used up, or cuts it at b, and goes *)
(* on at to.                                                               *)
CutAt(size, overlap, text, a, b, to) ==
  /\ a.start <= to /\ to <= b /\ b <= Len(text) /\ b <= a.start + size
  /\ to = a.start \/ IsCharBoundary(text, to)
  /\ Cut(size, overlap, text, a).chunks = Append(a.chunks, SubSeq(text, a.start + 1, b))
  /\ Cut(size, overlap, text, a).start = to
  /\ \A width \in 1 .. 4 :
       Formed(text) /\ Thin(text, width) /\ Room(size, overlap, width) => to > a.start

LEMMA CutIs ==
  ASSUME NEW size, NEW overlap, Sizes(size, overlap), NEW text \in Text, NEW a \in CutStates
  PROVE  /\ Cut(size, overlap, text, a) \in CutStates
         /\ a.start >= Len(text) => Cut(size, overlap, text, a) = a
         /\ a.start < Len(text) => \E b, to \in Nat : CutAt(size, overlap, text, a, b, to)
<1> DEFINE n == Len(text)
           m == Min({a.start + size, n})
           b == ToBoundary(text, a.start, m)
           l == Max({a.start, b - overlap})
           to == IF overlap > 0 /\ b < n THEN ToBoundary(text, a.start, l) ELSE b
           s == SubSeq(text, a.start + 1, b)
<1>1. n \in Nat /\ a.start \in Nat /\ a.chunks \in Seq(Text) /\ size \in Nat /\ size > 0
      /\ overlap \in Nat
  BY DEF CutStates, Sizes, Text
<1>2. CASE a.start >= n
  <2>1. Cut(size, overlap, text, a) = a
    BY <1>2 DEF Cut
  <2>2. QED
    BY <2>1, <1>1, <1>2
<1>3. CASE a.start < n
  <2>1. Cut(size, overlap, text, a) = [start |-> to, chunks |-> Append(a.chunks, s)]
    <3>1. ~(a.start >= n)
      BY <1>1, <1>3
    <3>2. QED
      BY <3>1, Zenon DEF Cut
  <2>2. m = IF a.start + size <= n THEN a.start + size ELSE n
    <3> HIDE DEF n
    <3>1. a.start + size \in Nat /\ n \in Int
      BY <1>1
    <3>2. \A x \in Nat, y \in Int : Min({x, y}) = IF x <= y THEN x ELSE y
      BY OfTwo
    <3>3. QED
      BY <3>1, <3>2
  <2>3. m \in Nat /\ a.start <= m /\ m <= n /\ m <= a.start + size
    <3> HIDE DEF n, m
    <3>1. QED
      BY <2>2, <1>1, <1>3
  <2>4. /\ b \in a.start .. m /\ (b = a.start \/ IsCharBoundary(text, b))
        /\ \A r \in a.start .. m : IsCharBoundary(text, r) => r <= b
    <3> HIDE DEF m
    <3>1. QED
      BY <1>1, <2>3, ToBoundaryIs
  <2>5. l = (IF a.start >= b - overlap THEN a.start ELSE b - overlap) /\ l \in Nat
        /\ a.start <= l /\ l <= b
    <3> HIDE DEF m, b
    <3>1. b - overlap \in Int /\ b \in Nat /\ a.start <= b
      BY <1>1, <2>3, <2>4
    <3>2. l = IF a.start >= b - overlap THEN a.start ELSE b - overlap
      BY <1>1, <3>1, OfTwo
    <3> HIDE DEF l
    <3>3. QED
      BY <1>1, <3>1, <3>2
  <2>6. to \in a.start .. b /\ (to = a.start \/ IsCharBoundary(text, to))
    <3> HIDE DEF l, b, m
    <3>1. CASE overlap > 0 /\ b < n
      <4>1. to = ToBoundary(text, a.start, l)
        BY <3>1
      <4> HIDE DEF to
      <4>2. to \in a.start .. l /\ (to = a.start \/ IsCharBoundary(text, to))
        BY <4>1, <1>1, <2>5, ToBoundaryIs
      <4>3. QED
        BY <4>2, <1>1, <2>3, <2>4, <2>5
    <3>2. CASE ~(overlap > 0 /\ b < n)
      BY <3>2, <1>1, <2>3, <2>4
    <3>3. QED
      BY <3>1, <3>2
  <2>7. ASSUME NEW width \in 1 .. 4, Formed(text), Thin(text, width), Room(size, overlap, width)
        PROVE  to > a.start
    <3> HIDE DEF m, b, l
    <3>1. b + width > m
      <4>1. m <= Len(text) /\ m \in Nat /\ a.start \in Nat /\ a.start <= m
        BY <2>3, <1>1
      <4>2. ToBoundary(text, a.start, m) + width > m
        BY <4>1, <2>7, ShortWayBack
      <4>3. QED
        BY <4>2 DEF b
    <3>2. n \in a.start .. m => b = n
      <4>1. IsCharBoundary(text, n)
        BY DEF IsCharBoundary
      <4> HIDE DEF n
      <4>2. QED
        BY <4>1, <1>1, <2>3, <2>4
    <3>3. CASE b = n
      BY <3>3, <1>1, <1>3
    <3>4. CASE b # n
      <4> HIDE DEF n
      <4>1. b < n /\ m = a.start + size /\ b \in Nat
        BY <3>2, <3>4, <1>1, <1>3, <2>2, <2>3, <2>4
      <4>2. CASE overlap = 0
        <5>1. size >= width
          BY <4>2, <2>7, <1>1 DEF Room
        <5>2. QED
          BY <5>1, <4>1, <4>2, <3>1, <1>1
      <4>3. CASE overlap > 0
        <5>1. size >= overlap + 2 * width - 1
          BY <4>3, <2>7 DEF Room
        <5>2. b - overlap >= a.start + width /\ l = b - overlap
          BY <5>1, <4>1, <3>1, <1>1, <2>5
        <5>3. to = ToBoundary(text, a.start, l)
          BY <4>1, <4>3
        <5> HIDE DEF to
        <5>4. l <= Len(text)
          BY <4>1, <5>2, <1>1 DEF n
        <5>5. to + width > l
          BY <5>3, <5>4, <2>5, <2>7, <1>1, ShortWayBack
        <5>6. QED
          BY <5>1, <5>2, <5>5, <4>1, <3>1, <1>1, <2>6
      <4>4. QED
        BY <4>2, <4>3, <1>1
    <3>5. QED
      BY <3>3, <3>4
  <2> HIDE DEF m, b, l, to
  <2>8. /\ b \in Nat /\ a.start <= b /\ b <= n /\ b <= a.start + size
        /\ to \in Nat /\ a.start <= to /\ to <= b
    <3> HIDE DEF n
    <3>1. QED
      BY <1>1, <2>3, <2>4, <2>6
  <2>9. PartOf(s, text, a.start)
    BY <1>1, <2>8, SubSeqIsPart
  <2>10. s \in Text
    BY <2>9 DEF PartOf
  <2> HIDE DEF s
  <2>11. [start |-> to, chunks |-> Append(a.chunks, s)] \in CutStates
    BY <1>1, <2>8, <2>10 DEF CutStates
  <2>12. /\ Cut(size, overlap, text, a).start = to
         /\ Cut(size, overlap, text, a).chunks = Append(a.chunks, SubSeq(text, a.start + 1, b))
    <3>1. Cut(size, overlap, text, a).start = to /\ Cut(size, overlap, text, a).chunks = Append(a.chunks, s)
      BY <2>1
    <3>2. QED
      BY <3>1, Zenon DEF s
  <2>13. ~(a.start >= n) /\ Cut(size, overlap, text, a) \in CutStates
    BY <1>1, <1>3, <2>1, <2>11
  <2>14. CutAt(size, overlap, text, a, b, to)
    BY <2>6, <2>7, <2>8, <2>12, Zenon DEF CutAt, n
  <2>15. QED
    BY <2>8, <2>13, <2>14, Zenon
<1>4. a.start >= n \/ a.start < n
  BY <1>1
<1>5. QED
  BY <1>2, <1>3, <1>4, Zenon

LEMMA SplitByStep ==
  ASSUME NEW size, NEW overlap, Sizes(size, overlap), NEW text \in Text
  PROVE  \E acc :
           /\ Turns(size, overlap, text) = acc[Len(text)]
           /\ acc[0] = [start |-> 0, chunks |-> <<>>]
           /\ \A k \in 1 .. Len(text) : acc[k] = Cut(size, overlap, text, acc[k - 1])
<1> DEFINE n == Len(text)
           none == [start |-> 0, chunks |-> <<>>]
           G == [k \in 1 .. n |-> [a \in CutStates |-> Cut(size, overlap, text, a)]]
           Eq(f) == f = [k \in 0 .. n |-> IF k = 0 THEN none ELSE Cut(size, overlap, text, f[k - 1])]
<1>1. n \in Nat /\ none \in CutStates
  BY DEF Text, CutStates
<1>2. \A a \in CutStates : Cut(size, overlap, text, a) \in CutStates
  BY CutIs
<1> HIDE DEF n, none
<1>3. StepsOn(CutStates, n, G)
  <2>1. G \in [1 .. n -> [CutStates -> CutStates]]
    BY <1>2
  <2>2. QED
    BY <1>1, <2>1 DEF StepsOn
<1>4. PICK f : /\ f = [k \in 0 .. n |-> IF k = 0 THEN none ELSE G[k][f[k - 1]]]
               /\ \A k \in 0 .. n : f[k] \in CutStates
  <2> HIDE DEF G
  <2>1. QED
    BY <1>1, <1>3, LoopExists
<1>5. Eq(f)
  <2>1. ASSUME NEW k \in 0 .. n
        PROVE  (IF k = 0 THEN none ELSE G[k][f[k - 1]])
                 = (IF k = 0 THEN none ELSE Cut(size, overlap, text, f[k - 1]))
    <3>1. k # 0 => k \in 1 .. n /\ k - 1 \in 0 .. n
      BY <1>1
    <3>2. QED
      BY <3>1, <1>4
  <2> HIDE DEF G
  <2>2. QED
    BY <1>4, <2>1
<1> DEFINE acc == CHOOSE g : Eq(g)
<1>6. Eq(acc) /\ Turns(size, overlap, text) = acc[n]
  <2>1. Eq(acc)
    <3> HIDE DEF Eq
    <3>1. QED
      BY <1>5
  <2>2. QED
    BY <2>1, Zenon DEF Turns, n, none
<1> HIDE DEF acc
<1>7. /\ acc[0] = none
      /\ \A k \in 1 .. n : acc[k] = Cut(size, overlap, text, acc[k - 1])
  <2>1. 0 \in 0 .. n /\ \A k \in 1 .. n : k \in 0 .. n /\ k # 0
    BY <1>1
  <2>2. QED
    BY <1>6, <2>1, Zenon
<1>8. QED
  BY <1>6, <1>7 DEF n, none

(* Where there is room split_by_length ends, and when it ends it has cut   *)
(* the text into chunks of the size or less.                               *)
LEMMA SplitByLengthCuts ==
  ASSUME NEW size, NEW overlap, Sizes(size, overlap), NEW text \in Text, Formed(text)
  PROVE  /\ SplitByLength(size, overlap, text) \in Seq(Text)
         /\ LengthEnds(size, overlap, text)
              => CutsText(SplitByLength(size, overlap, text), text, size)
         /\ \A width \in 1 .. 4 : Thin(text, width) /\ Room(size, overlap, width)
              => LengthEnds(size, overlap, text)
<1> DEFINE n == Len(text)
           Good(s) == s \in Text /\ Fine(s, text, size)
           Roomy == \E width \in 1 .. 4 : Thin(text, width) /\ Room(size, overlap, width)
<1>1. n \in Nat /\ size \in Nat /\ \A p \in 1 .. n : text[p] \in Nat
  BY DEF Sizes, Text
<1>2. PICK acc :
           /\ Turns(size, overlap, text) = acc[n]
           /\ acc[0] = [start |-> 0, chunks |-> <<>>]
           /\ \A k \in 1 .. n : acc[k] = Cut(size, overlap, text, acc[k - 1])
  BY SplitByStep
<1> HIDE DEF Roomy
<1> DEFINE Ok(k) ==
             /\ acc[k] \in CutStates /\ acc[k].start <= n /\ IsCharBoundary(text, acc[k].start)
             /\ Roomy => k <= acc[k].start
             /\ \A i \in 1 .. Len(acc[k].chunks) : Good(acc[k].chunks[i])
             /\ \A p \in 1 .. acc[k].start : \E i \in 1 .. Len(acc[k].chunks) : Has(acc[k].chunks[i], text[p])
           T == {k \in 0 .. n : Ok(k)}
<1>3. 0 \in T
  <2>1. /\ acc[0].start = 0 /\ acc[0].chunks = <<>> /\ Len(acc[0].chunks) = 0
        /\ acc[0] \in CutStates
    BY <1>2 DEF CutStates
  <2>2. IsCharBoundary(text, acc[0].start)
    BY <2>1 DEF IsCharBoundary
  <2> HIDE DEF Good
  <2>3. Ok(0)
    BY <2>1, <2>2, <1>1
  <2>4. QED
    BY SMTT(30), <2>3, <1>1
<1>4. ASSUME NEW k \in 1 .. n, k - 1 \in T PROVE k \in T
  <2> DEFINE a == acc[k - 1]
  <2>1. acc[k] = Cut(size, overlap, text, a) /\ Ok(k - 1)
    BY <1>2, <1>4
  <2>2. a \in CutStates /\ a.start \in Nat /\ a.chunks \in Seq(Text)
        /\ (Roomy => k - 1 <= a.start) /\ IsCharBoundary(text, a.start)
    BY <2>1 DEF CutStates
  <2>3. acc[k] \in CutStates
    BY <2>1, <2>2, CutIs
  <2>4. CASE a.start >= n
    <3>1. acc[k] = a
      BY <2>1, <2>2, <2>4, CutIs
    <3>2. a.start <= n
      BY <2>1
    <3>3. k <= a.start
      BY <3>2, <2>2, <2>4, <1>1
    <3> HIDE DEF Good
    <3>4. Ok(k)
      BY <3>1, <3>3, <2>1, Zenon
    <3>5. QED
      BY <3>4, <1>1
  <2>5. CASE a.start < n
    <3>1. PICK b \in Nat, to \in Nat : CutAt(size, overlap, text, a, b, to)
      <4> HIDE DEF a, Ok, T
      <4>1. QED
        BY <2>2, <2>5, CutIs
    <3>2. /\ a.start <= to /\ to <= b /\ b <= n /\ b <= a.start + size
          /\ acc[k].chunks = Append(a.chunks, SubSeq(text, a.start + 1, b))
          /\ acc[k].start = to
      <4> HIDE DEF a, Ok, T
      <4>1. QED
        BY <2>1, <3>1 DEF CutAt
    <3>3. IsCharBoundary(text, acc[k].start)
      <4> HIDE DEF a, Ok, T
      <4>1. to = a.start \/ IsCharBoundary(text, to)
        BY <3>1 DEF CutAt
      <4>2. QED
        BY <4>1, <3>2, <2>2
    <3>4. Roomy => k <= acc[k].start
      <4>1. SUFFICES ASSUME Roomy PROVE k <= acc[k].start
        OBVIOUS
      <4>2. to > a.start
        <5> HIDE DEF a, Ok, T
        <5>1. QED
          BY <3>1, <4>1 DEF CutAt, Roomy
      <4>3. k - 1 <= a.start
        BY <2>2, <4>1
      <4> HIDE DEF a, Ok, T, n
      <4>4. QED
        BY <4>2, <4>3, <3>2, <2>2, <1>1
    <3> DEFINE s == SubSeq(text, a.start + 1, b)
               m == Len(a.chunks)
    <3>5. PartOf(s, text, a.start) /\ Len(s) = b - a.start
      <4>1. a.start \in Nat /\ a.start <= b /\ b <= Len(text)
        BY <3>2, <2>2
      <4> HIDE DEF a
      <4>2. QED
        BY <4>1, SubSeqIsPart
    <3> HIDE DEF s, a
    <3>6. Good(s)
      <4>1. Rises(text) => Rises(s)
        BY <3>5, PartRises
      <4>2. Formed(s)
        BY <3>5, <2>2, PartFormed
      <4>3. QED
        BY SMTT(30), <3>2, <3>5, <4>1, <4>2, <2>2, <1>1 DEF PartOf, Fine
    <3>7. /\ m \in Nat /\ Len(acc[k].chunks) = m + 1 /\ acc[k].chunks[m + 1] = s
          /\ \A i \in 1 .. m : acc[k].chunks[i] = a.chunks[i]
      <4>1. s \in Text
        BY <3>6
      <4> HIDE DEF Good, Ok, T
      <4>2. acc[k].chunks = Append(a.chunks, s)
        BY <3>2 DEF s
      <4>3. QED
        BY <4>1, <4>2, <2>2
    <3>8. /\ \A i \in 1 .. m : Good(a.chunks[i])
          /\ \A p \in 1 .. a.start : \E i \in 1 .. m : Has(a.chunks[i], text[p])
      BY <2>1 DEF a
    <3> HIDE DEF Good, m
    <3>9. \A i \in 1 .. m + 1 : Good(acc[k].chunks[i])
      <4>1. \A i \in 1 .. m + 1 : i = m + 1 \/ i \in 1 .. m
        BY <3>7
      <4>2. QED
        BY <3>6, <3>7, <3>8, <4>1
    <3>10. ASSUME NEW p \in 1 .. acc[k].start
           PROVE  \E i \in 1 .. m + 1 : Has(acc[k].chunks[i], text[p])
      <4>1. acc[k].start \in Nat /\ p \in Nat /\ p <= b
        BY <3>2
      <4>2. CASE p <= a.start
        <5>1. p \in 1 .. a.start
          BY <4>1, <4>2, <2>2
        <5>2. PICK i \in 1 .. m : Has(a.chunks[i], text[p])
          BY <5>1, <3>8
        <5>3. i \in 1 .. m + 1
          BY <3>7
        <5>4. QED
          BY <5>2, <5>3, <3>7
      <4>3. CASE a.start < p
        <5>1. p - a.start \in 1 .. Len(s) /\ a.start + (p - a.start) = p
          BY <4>1, <4>3, <3>5, <2>2
        <5>2. s[p - a.start] = text[p]
          BY <5>1, <3>5 DEF PartOf
        <5>3. Has(s, text[p])
          BY <5>1, <5>2 DEF Has
        <5>4. m + 1 \in 1 .. m + 1
          BY <3>7
        <5>5. QED
          BY <5>3, <5>4, <3>7
      <4>4. QED
        BY <4>1, <4>2, <4>3, <2>2
    <3>11. acc[k].start <= n
      <4> HIDE DEF n, Ok, T
      <4>1. QED
        BY <3>2, <2>2, <1>1
    <3>12. Ok(k)
      BY <2>3, <3>3, <3>4, <3>7, <3>9, <3>10, <3>11
    <3>13. QED
      BY <3>12, <1>1
  <2>6. QED
    BY <2>2, <1>1, <2>4, <2>5
<1>5. Ok(n)
  <2> HIDE DEF Ok
  <2>1. \A k \in 0 .. n : k \in T
    <3> HIDE DEF T, n
    <3>1. QED
      BY <1>1, <1>3, <1>4, AllTurns
  <2>2. QED
    BY <2>1, <1>1
<1>6. /\ acc[n].start \in Nat /\ acc[n].start <= n /\ acc[n].chunks \in Seq(Text)
      /\ (Roomy => acc[n].start >= n)
  BY <1>5, <1>1 DEF CutStates
<1> HIDE DEF T
<1>7. \A i \in 1 .. Len(acc[n].chunks) : Fine(acc[n].chunks[i], text, size)
  BY <1>5
<1>8. acc[n].start >= n =>
        \A p \in 1 .. n : \E i \in 1 .. Len(acc[n].chunks) : Has(acc[n].chunks[i], text[p])
  <2>1. acc[n].start >= n => acc[n].start = n
    BY <1>6, <1>1
  <2>2. QED
    BY <1>5, <2>1
<1> HIDE DEF Ok
<1> DEFINE chunks == acc[n].chunks
<1>9. /\ chunks \in Seq(Text) /\ SplitByLength(size, overlap, text) = chunks
      /\ (LengthEnds(size, overlap, text) <=> acc[n].start >= n)
  BY <1>2, <1>6 DEF SplitByLength, LengthEnds
<1> HIDE DEF chunks
<1>10. \A chunk \in ToSet(chunks) : Fine(chunk, text, size)
  BY <1>7, <1>9, ItemsAre DEF chunks
<1>11. LengthEnds(size, overlap, text) => \A p \in 1 .. Len(text) : Within(text[p], chunks)
  BY <1>8, <1>9, ItemsAre DEF chunks, Within, n
<1>12. LengthEnds(size, overlap, text) => CutsText(chunks, text, size)
  BY <1>9, <1>10, <1>11 DEF CutsText
<1>13. QED
  BY <1>6, <1>9, <1>12 DEF Roomy

LEMMA BothItems ==
  ASSUME NEW S, NEW s \in Seq(S), NEW t \in Seq(S)
  PROVE  s \o t \in Seq(S) /\ ToSet(s \o t) = ToSet(s) \cup ToSet(t)
<1> DEFINE u == s \o t
<1>1. /\ u \in Seq(S) /\ Len(s) \in Nat /\ Len(t) \in Nat /\ Len(u) = Len(s) + Len(t)
      /\ \A i \in 1 .. Len(s) : u[i] = s[i]
      /\ \A i \in 1 .. Len(t) : u[Len(s) + i] = t[i]
  OBVIOUS
<1> HIDE DEF u
<1>2. \A x \in ToSet(u) : x \in ToSet(s) \cup ToSet(t)
  <2> SUFFICES ASSUME NEW i \in 1 .. Len(u) PROVE u[i] \in ToSet(s) \cup ToSet(t)
    BY <1>1, ItemsAre
  <2>1. CASE i <= Len(s)
    <3>1. i \in 1 .. Len(s)
      BY <2>1, <1>1
    <3>2. QED
      BY <3>1, <1>1, ItemsAre
  <2>2. CASE ~(i <= Len(s))
    <3>1. i - Len(s) \in 1 .. Len(t) /\ Len(s) + (i - Len(s)) = i
      BY <2>2, <1>1
    <3>2. t[i - Len(s)] \in ToSet(t) /\ u[i] = t[i - Len(s)]
      BY <3>1, <1>1, ItemsAre
    <3>3. QED
      BY <3>2
  <2>3. QED
    BY <2>1, <2>2
<1>3. \A x \in ToSet(s) : x \in ToSet(u)
  <2> SUFFICES ASSUME NEW i \in 1 .. Len(s) PROVE s[i] \in ToSet(u)
    BY <1>1, ItemsAre
  <2>1. i \in 1 .. Len(u)
    BY <1>1
  <2>2. QED
    BY <2>1, <1>1, ItemsAre
<1>4. \A x \in ToSet(t) : x \in ToSet(u)
  <2>0. \A x \in ToSet(t) : \E i \in 1 .. Len(t) : x = t[i]
    BY ItemsAre
  <2> SUFFICES ASSUME NEW i \in 1 .. Len(t) PROVE t[i] \in ToSet(u)
    BY <2>0
  <2>1. Len(s) + i \in 1 .. Len(u)
    BY <1>1
  <2>2. u[Len(s) + i] \in ToSet(u)
    BY <2>1, <1>1, ItemsAre
  <2>3. QED
    BY <2>2, <1>1
<1>5. QED
  BY <1>1, <1>2, <1>3, <1>4 DEF u

LEMMA WithChunk ==
  ASSUME NEW chunks \in Seq(Text), NEW chunk \in Text
  PROVE  /\ chunks \o NonEmpty(chunk) \in Seq(Text)
         /\ ToSet(chunks \o NonEmpty(chunk))
              = ToSet(chunks) \cup (IF chunk = <<>> THEN {} ELSE {chunk})
<1>1. NonEmpty(chunk) \in Seq(Text) /\ ToSet(NonEmpty(chunk)) = IF chunk = <<>> THEN {} ELSE {chunk}
  BY DEF NonEmpty, ToSet
<1>2. QED
  BY <1>1, BothItems

(* Every letter of s is one of the first b characters of text.             *)
Behind(s, text, b) ==
  \A i \in 1 .. Len(s) : s[i] > Space => \E p \in 1 .. b : text[p] = s[i]

(* The end of a chunk from where a letter begins, longer than the overlap  *)
(* by less than a letter.                                                  *)
LEMMA OverlapIs ==
  ASSUME NEW chunk \in Text, NEW overlap \in Nat
  PROVE  LET tail == Overlap(chunk, overlap)
         IN \/ tail = <<>>
            \/ /\ overlap > 0 /\ \E at : PartOf(tail, chunk, at) /\ IsCharBoundary(chunk, at)
               /\ \A width \in 1 .. 4 : Formed(chunk) /\ Thin(chunk, width) => Len(tail) < overlap + width
<1> DEFINE n == Len(chunk)
           tail == Overlap(chunk, overlap)
<1>1. n \in Nat
  BY DEF Text
<1>2. CASE overlap > 0 /\ n > overlap
  <2> DEFINE a == ToBoundary(chunk, 0, n - overlap)
  <2>1. tail = SubSeq(chunk, a + 1, n)
    BY <1>2 DEF Overlap
  <2>2. n - overlap \in Nat /\ 0 <= n - overlap /\ n - overlap <= n
    BY <1>1, <1>2
  <2>3. a \in 0 .. n - overlap /\ IsCharBoundary(chunk, a)
    <3>1. a \in 0 .. n - overlap /\ (a = 0 \/ IsCharBoundary(chunk, a))
      <4> HIDE DEF n
      <4>1. QED
        BY <2>2, ToBoundaryIs
    <3> HIDE DEF a
    <3>2. QED
      BY <3>1 DEF IsCharBoundary
  <2>4. ASSUME NEW width \in 1 .. 4, Formed(chunk), Thin(chunk, width)
        PROVE  a + width > n - overlap
    BY <2>2, <2>4, ShortWayBack
  <2> HIDE DEF a
  <2>5. a \in Nat /\ a <= n
    BY <2>2, <2>3
  <2>6. PartOf(tail, chunk, a) /\ Len(tail) = n - a
    <3> HIDE DEF tail
    <3>1. PartOf(SubSeq(chunk, a + 1, n), chunk, a) /\ Len(SubSeq(chunk, a + 1, n)) = n - a
      BY <1>1, <2>5, SubSeqIsPart
    <3>2. QED
      BY <2>1, <3>1
  <2> HIDE DEF tail, n
  <2>7. ASSUME NEW width \in 1 .. 4, Formed(chunk), Thin(chunk, width)
        PROVE  Len(tail) < overlap + width
    BY <2>4, <2>5, <2>6, <2>7, <1>1
  <2>8. QED
    BY <1>2, <2>3, <2>6, <2>7 DEF tail
<1>3. CASE ~(overlap > 0 /\ n > overlap)
  BY <1>3 DEF Overlap
<1>4. QED
  BY <1>2, <1>3

LEMMA OverlapKeeps ==
  ASSUME NEW chunk \in Text, NEW overlap \in Nat, NEW text \in Text, NEW b \in 0 .. Len(text),
         Behind(chunk, text, b), Rises(text) => Rises(chunk), Formed(chunk),
         NEW width \in 1 .. 4, Thin(text, width)
  PROVE  LET tail == Overlap(chunk, overlap)
         IN /\ tail \in Text /\ (tail = <<>> \/ (overlap > 0 /\ Len(tail) < overlap + width))
            /\ Behind(tail, text, b) /\ (Rises(text) => Rises(tail)) /\ Formed(tail)
<1> DEFINE tail == Overlap(chunk, overlap)
<1>1. CASE tail = <<>>
  <2>1. tail \in Text /\ Len(tail) = 0
    BY <1>1 DEF Text
  <2> HIDE DEF tail
  <2>2. QED
    BY <2>1, <1>1 DEF Behind, Rises, Formed, tail
<1>2. Thin(chunk, width)
  <2> SUFFICES ASSUME NEW k \in 1 .. Len(chunk), chunk[k] > Space PROVE chunk[k] % 4 < width
    BY DEF Thin
  <2>1. PICK q \in 1 .. b : text[q] = chunk[k]
    BY DEF Behind
  <2>2. q \in 1 .. Len(text)
    BY DEF Text
  <2>3. QED
    BY <2>1, <2>2 DEF Thin
<1>3. CASE /\ overlap > 0 /\ \E at : PartOf(tail, chunk, at) /\ IsCharBoundary(chunk, at)
           /\ \A v \in 1 .. 4 : Formed(chunk) /\ Thin(chunk, v) => Len(tail) < overlap + v
  <2> HIDE DEF tail
  <2>1. PICK at : PartOf(tail, chunk, at) /\ IsCharBoundary(chunk, at)
    BY <1>3
  <2>2. tail \in Text /\ at \in Nat /\ Len(tail) \in Nat /\ Len(chunk) \in Nat
        /\ \A i \in 1 .. Len(tail) : at + i \in 1 .. Len(chunk) /\ tail[i] = chunk[at + i]
    <3>1. /\ tail \in Text /\ at \in Nat /\ at + Len(tail) <= Len(chunk)
          /\ \A i \in 1 .. Len(tail) : tail[i] = chunk[at + i]
      BY <2>1 DEF PartOf
    <3>2. Len(tail) \in Nat /\ Len(chunk) \in Nat
      BY <3>1 DEF Text
    <3>3. QED
      BY <3>1, <3>2
  <2>3. Behind(tail, text, b)
    BY <2>2 DEF Behind
  <2>4. (Rises(text) => Rises(tail)) /\ Formed(tail)
    BY <2>1, PartRises, PartFormed
  <2>5. Len(tail) < overlap + width
    BY <1>2, <1>3
  <2>6. QED
    BY <1>3, <2>2, <2>3, <2>4, <2>5 DEF tail
<1>4. QED
  BY <1>1, <1>3, OverlapIs

(* u is c, perhaps a separator as long as s, and from off on p.            *)
MadeOf(u, c, s, p, off) ==
  /\ Len(c) <= off /\ off <= Len(c) + Len(s) /\ Len(u) = off + Len(p)
  /\ \A i \in 1 .. Len(c) : u[i] = c[i]
  /\ \A i \in Len(c) + 1 .. off : u[i] <= Space
  /\ \A i \in 1 .. Len(p) : u[off + i] = p[i]

LEMMA JoinedIs ==
  ASSUME NEW c \in Text, NEW s, IsSeparator(s), NEW p \in Text
  PROVE  Joined(c, s, p) \in Text /\ \E off \in Nat : MadeOf(Joined(c, s, p), c, s, p, off)
<1> DEFINE u == Joined(c, s, p)
<1>1. s \in Text /\ Len(c) \in Nat /\ Len(s) \in Nat /\ Len(p) \in Nat
      /\ \A i \in 1 .. Len(s) : s[i] <= Space
  BY DEF IsSeparator, Text
<1>2. CASE c = <<>>
  <2>1. u = p /\ Len(c) = 0
    BY <1>2 DEF Joined
  <2> HIDE DEF u
  <2>2. MadeOf(u, c, s, p, 0)
    BY <2>1, <1>1 DEF MadeOf
  <2>3. QED
    BY <2>1, <2>2 DEF u
<1>3. CASE c # <<>>
  <2> DEFINE v == c \o s
  <2>1. u = v \o p
    BY <1>3 DEF Joined
  <2>2. /\ v \in Text /\ Len(v) = Len(c) + Len(s)
        /\ \A i \in 1 .. Len(c) : v[i] = c[i]
        /\ \A i \in Len(c) + 1 .. Len(v) : v[i] = s[i - Len(c)]
    BY <1>1 DEF Text
  <2> HIDE DEF v
  <2>3. /\ u \in Text /\ Len(u) = Len(v) + Len(p) /\ Len(v) \in Nat
        /\ \A i \in 1 .. Len(v) : u[i] = v[i]
        /\ \A i \in 1 .. Len(p) : u[Len(v) + i] = p[i]
    <3> HIDE DEF u
    <3>1. v \in Seq(Nat) /\ p \in Seq(Nat)
      BY <2>2 DEF Text
    <3>2. QED
      BY <2>1, <3>1 DEF Text
  <2> HIDE DEF u
  <2>4. \A i \in 1 .. Len(c) : i \in 1 .. Len(v)
    BY <2>2, <1>1
  <2>5. \A i \in Len(c) + 1 .. Len(v) : i \in 1 .. Len(v) /\ i - Len(c) \in 1 .. Len(s)
    BY <2>2, <1>1
  <2>6. /\ Len(c) <= Len(v) /\ Len(v) <= Len(c) + Len(s)
        /\ \A i \in 1 .. Len(c) : u[i] = c[i]
        /\ \A i \in Len(c) + 1 .. Len(v) : u[i] <= Space
    BY <1>1, <2>2, <2>3, <2>4, <2>5
  <2>7. MadeOf(u, c, s, p, Len(v))
    BY <2>3, <2>6 DEF MadeOf
  <2>8. QED
    BY <2>3, <2>7 DEF u
<1>4. QED
  BY <1>2, <1>3

LEMMA JoinedKeeps ==
  ASSUME NEW c \in Text, NEW s, IsSeparator(s), NEW text \in Text, NEW p, NEW at, NEW b \in Nat,
         Behind(c, text, b), Rises(text) => Rises(c), PartOf(p, text, at), b <= at,
         Formed(c), Formed(p)
  PROVE  LET u == Joined(c, s, p)
         IN /\ u \in Text /\ Len(u) <= Len(c) + Len(s) + Len(p) /\ (c = <<>> => u = p)
            /\ Behind(u, text, at + Len(p)) /\ (Rises(text) => Rises(u)) /\ Formed(u)
            /\ \A x : Has(c, x) \/ Has(p, x) => Has(u, x)
<1> DEFINE u == Joined(c, s, p)
<1>1. /\ at \in Nat /\ p \in Text /\ at + Len(p) <= Len(text) /\ Len(p) \in Nat /\ Len(c) \in Nat
      /\ Len(s) \in Nat /\ Len(text) \in Nat
      /\ \A i \in 1 .. Len(p) : p[i] = text[at + i] /\ at + i \in 1 .. at + Len(p)
  <2>1. at \in Nat /\ p \in Text /\ at + Len(p) <= Len(text) /\ \A i \in 1 .. Len(p) : p[i] = text[at + i]
    BY DEF PartOf
  <2>2. Len(p) \in Nat /\ Len(c) \in Nat /\ Len(s) \in Nat /\ Len(text) \in Nat
    BY <2>1 DEF Text, IsSeparator
  <2>3. QED
    BY <2>1, <2>2
<1>2. u \in Text /\ Len(u) \in Nat /\ (\A i \in 1 .. Len(u) : u[i] \in Nat) /\ (c = <<>> => u = p)
  <2>1. u \in Text
    BY <1>1, JoinedIs
  <2>2. c = <<>> => u = p
    BY DEF Joined
  <2> HIDE DEF u
  <2>3. QED
    BY <2>1, <2>2 DEF Text
<1>3. PICK off \in Nat :
        /\ Len(c) <= off /\ off <= Len(c) + Len(s) /\ Len(u) = off + Len(p)
        /\ \A i \in 1 .. Len(c) : u[i] = c[i]
        /\ \A i \in Len(c) + 1 .. off : u[i] <= Space
        /\ \A i \in 1 .. Len(p) : u[off + i] = p[i]
  <2>1. p \in Text /\ IsSeparator(s)
    BY <1>1
  <2>2. \E off \in Nat : MadeOf(u, c, s, p, off)
    BY <2>1, JoinedIs
  <2> HIDE DEF u
  <2>3. QED
    BY <2>2 DEF MadeOf
<1> HIDE DEF u
<1>4. \A i \in 1 .. Len(u) : u[i] > Space =>
        \/ i \in 1 .. Len(c) /\ u[i] = c[i]
        \/ i > off /\ i - off \in 1 .. Len(p) /\ u[i] = p[i - off]
  <2> SUFFICES ASSUME NEW i \in 1 .. Len(u), u[i] > Space, ~(i \in 1 .. Len(c))
               PROVE  i > off /\ i - off \in 1 .. Len(p) /\ u[i] = p[i - off]
    BY <1>3
  <2>1. ~(i \in Len(c) + 1 .. off)
    BY <1>2, <1>3 DEF Space
  <2>2. i > off /\ i - off \in 1 .. Len(p) /\ off + (i - off) = i
    BY <2>1, <1>1, <1>3
  <2>3. QED
    BY <2>2, <1>3
<1>5. Behind(u, text, at + Len(p))
  <2> SUFFICES ASSUME NEW i \in 1 .. Len(u), u[i] > Space
               PROVE  \E q \in 1 .. at + Len(p) : text[q] = u[i]
    BY DEF Behind
  <2>1. CASE i \in 1 .. Len(c) /\ u[i] = c[i]
    <3>1. PICK q \in 1 .. b : text[q] = u[i]
      BY <2>1 DEF Behind
    <3>2. q \in 1 .. at + Len(p)
      BY <1>1
    <3>3. QED
      BY <3>1, <3>2
  <2>2. CASE i - off \in 1 .. Len(p) /\ u[i] = p[i - off]
    BY <2>2, <1>1
  <2>3. QED
    BY <2>1, <2>2, <1>4
<1>6. ASSUME Rises(text) PROVE Rises(u)
  <2> SUFFICES ASSUME NEW i \in 1 .. Len(u), NEW j \in 1 .. Len(u), i < j,
                      u[i] > Space, u[j] > Space
               PROVE  u[i] < u[j]
    BY DEF Rises
  <2>1. CASE j \in 1 .. Len(c) /\ u[j] = c[j]
    <3>1. i \in 1 .. Len(c) /\ u[i] = c[i]
      BY <2>1, <1>3
    <3>2. QED
      BY <2>1, <3>1, <1>6 DEF Rises
  <2>2. CASE j > off /\ j - off \in 1 .. Len(p) /\ u[j] = p[j - off]
    <3>1. /\ u[j] = text[at + (j - off)] /\ at + (j - off) \in 1 .. Len(text)
          /\ at + (j - off) > at
      BY SMTT(30), <2>2, <1>1
    <3>2. CASE i \in 1 .. Len(c) /\ u[i] = c[i]
      <4>1. PICK q \in 1 .. b : text[q] = u[i]
        BY <3>2 DEF Behind
      <4>2. q \in 1 .. Len(text) /\ q < at + (j - off)
        BY SMTT(30), <1>1, <3>1
      <4>3. QED
        BY <4>1, <4>2, <3>1, <1>6 DEF Rises
    <3>3. CASE i - off \in 1 .. Len(p) /\ u[i] = p[i - off]
      <4>1. u[i] = text[at + (i - off)] /\ at + (i - off) \in 1 .. Len(text)
        BY SMTT(30), <3>3, <1>1
      <4>2. at + (i - off) < at + (j - off)
        BY <1>1
      <4>3. QED
        BY <4>1, <4>2, <3>1, <1>6 DEF Rises
    <3>4. QED
      BY <3>2, <3>3, <1>4
  <2>3. QED
    BY <2>1, <2>2, <1>4
<1>7. ASSUME NEW x, Has(c, x) \/ Has(p, x) PROVE Has(u, x)
  <2>1. CASE Has(c, x)
    <3>1. PICK i \in 1 .. Len(c) : c[i] = x
      BY <2>1 DEF Has
    <3>2. i \in 1 .. Len(u) /\ u[i] = x
      BY <3>1, <1>1, <1>3
    <3>3. QED
      BY <3>2 DEF Has
  <2>2. CASE Has(p, x)
    <3>1. PICK i \in 1 .. Len(p) : p[i] = x
      BY <2>2 DEF Has
    <3>2. off + i \in 1 .. Len(u) /\ u[off + i] = x
      BY <3>1, <1>1, <1>3
    <3>3. QED
      BY <3>2 DEF Has
  <2>3. QED
    BY <1>7, <2>1, <2>2
<1>8. Len(u) <= Len(c) + Len(s) + Len(p)
  BY <1>1, <1>3
<1>9. Formed(u)
  <2> SUFFICES ASSUME NEW i \in 1 .. Len(u), Inner(u[i])
               PROVE  i > 1 /\ u[i - 1] > Space /\ u[i - 1] = u[i] - 1
    BY DEF Formed
  <2>1. u[i] > Space
    BY DEF Inner
  <2>2. CASE i \in 1 .. Len(c) /\ u[i] = c[i]
    <3>1. i > 1 /\ c[i - 1] > Space /\ c[i - 1] = c[i] - 1
      BY <2>2 DEF Formed
    <3>2. i - 1 \in 1 .. Len(c)
      BY <2>2, <3>1, <1>1
    <3>3. QED
      BY <2>2, <3>1, <3>2, <1>3
  <2>3. CASE i > off /\ i - off \in 1 .. Len(p) /\ u[i] = p[i - off]
    <3> DEFINE j == i - off
    <3>1. j > 1 /\ p[j - 1] > Space /\ p[j - 1] = p[j] - 1
      BY <2>3 DEF Formed
    <3>2. j - 1 \in 1 .. Len(p) /\ off + (j - 1) = i - 1 /\ i > 1
      BY <2>3, <3>1, <1>1
    <3> HIDE DEF j
    <3>3. u[off + (j - 1)] = p[j - 1]
      BY <3>2, <1>3
    <3>4. QED
      BY <2>3, <3>1, <3>2, <3>3 DEF j
  <2>4. QED
    BY <2>1, <2>2, <2>3, <1>4
<1>10. QED
  BY <1>2, <1>5, <1>6, <1>7, <1>8, <1>9 DEF u

GatherStates == [chunks : Seq(Text), current : Text]

(* What a chunk may be as long as, see ChunksFit.                          *)
Most(size, overlap, width) == size + (IF overlap = 0 THEN 0 ELSE overlap + width + 1)

(* The chunks are fine, and the one at work holds letters of the first b   *)
(* places only.                                                            *)
Gathered(a, text, most, b) ==
  /\ a \in GatherStates
  /\ \A chunk \in ToSet(a.chunks) : Fine(chunk, text, most)
  /\ Fine(a.current, text, most) /\ Behind(a.current, text, b)

Collected(a, c) == Has(a.current, c) \/ Within(c, a.chunks)

LEMMA HasNone ==
  ASSUME NEW c
  PROVE  ~Has(<<>>, c)
BY DEF Has

(* What stays when the chunk at work is put to the others.                 *)
LEMMA KeptIs ==
  ASSUME NEW text \in Text, NEW most, NEW b, NEW a, Gathered(a, text, most, b)
  PROVE  LET kept == a.chunks \o NonEmpty(a.current)
         IN /\ kept \in Seq(Text)
            /\ \A chunk \in ToSet(kept) : Fine(chunk, text, most)
            /\ \A c : Collected(a, c) => Within(c, kept)
<1> DEFINE kept == a.chunks \o NonEmpty(a.current)
<1>1. a.chunks \in Seq(Text) /\ a.current \in Text
  BY DEF Gathered, GatherStates
<1>2. /\ kept \in Seq(Text)
      /\ ToSet(kept) = ToSet(a.chunks) \cup (IF a.current = <<>> THEN {} ELSE {a.current})
  BY <1>1, WithChunk
<1> HIDE DEF kept
<1>3. \A chunk \in ToSet(kept) : Fine(chunk, text, most)
  BY <1>2 DEF Gathered
<1>4. ASSUME NEW c, Collected(a, c) PROVE Within(c, kept)
  <2>1. CASE Has(a.current, c)
    <3>1. a.current # <<>>
      BY <2>1, HasNone
    <3>2. QED
      BY <2>1, <3>1, <1>2 DEF Within
  <2>2. CASE Within(c, a.chunks)
    BY <2>2, <1>2 DEF Within
  <2>3. QED
    BY <1>4, <2>1, <2>2 DEF Collected
<1>5. QED
  BY <1>2, <1>3, <1>4 DEF kept

LEMMA CollectKeeps ==
  ASSUME NEW size, NEW overlap, Sizes(size, overlap), NEW s, IsSeparator(s), Len(s) <= 2,
         NEW text \in Text, NEW width \in 1 .. 4, Thin(text, width),
         NEW most, most = Most(size, overlap, width),
         NEW piece, NEW at, PartOf(piece, text, at), Formed(piece),
         NEW cut, Len(piece) > size => CutsText(cut, piece, most),
         NEW b \in Nat, b <= at, NEW a, Gathered(a, text, most, b)
  PROVE  LET c == Collect(size, overlap, s, a, piece, cut)
         IN /\ Gathered(c, text, most, at + Len(piece))
            /\ \A x : Collected(a, x) => Collected(c, x)
            /\ \A q \in 1 .. Len(piece) : piece[q] > Space => Collected(c, piece[q])
<1> DEFINE c == Collect(size, overlap, s, a, piece, cut)
           kept == a.chunks \o NonEmpty(a.current)
           tail == Overlap(a.current, overlap)
           more == Joined(a.current, s, piece)
           e == at + Len(piece)
<1>1. /\ size \in Nat /\ overlap \in Nat /\ most \in Nat /\ Len(s) \in Nat
      /\ piece \in Text /\ at \in Nat /\ Len(piece) \in Nat /\ e \in Nat /\ b <= e
      /\ b \in 0 .. Len(text)
  <2>1. piece \in Text /\ at \in Nat /\ at + Len(piece) <= Len(text)
    BY DEF PartOf
  <2>2. Len(s) \in Nat /\ Len(piece) \in Nat /\ Len(text) \in Nat
    BY <2>1 DEF Text, IsSeparator
  <2>3. size \in Nat /\ overlap \in Nat
    BY DEF Sizes
  <2>4. most \in Nat
    BY <2>3 DEF Most
  <2>5. QED
    BY <2>1, <2>2, <2>3, <2>4
<1>2. size <= most /\ (overlap > 0 => most = size + overlap + width + 1)
  BY <1>1 DEF Most
<1>3. /\ a \in GatherStates /\ a.chunks \in Seq(Text) /\ a.current \in Text
      /\ (Rises(text) => Rises(a.current)) /\ Formed(a.current) /\ Behind(a.current, text, b)
  BY DEF Gathered, GatherStates, Fine
<1>4. /\ kept \in Seq(Text)
      /\ \A chunk \in ToSet(kept) : Fine(chunk, text, most)
      /\ \A x : Collected(a, x) => Within(x, kept)
  BY KeptIs
<1>5. /\ tail \in Text /\ (tail = <<>> \/ (overlap > 0 /\ Len(tail) < overlap + width))
      /\ Behind(tail, text, b) /\ (Rises(text) => Rises(tail)) /\ Formed(tail)
  BY <1>1, <1>3, OverlapKeeps
<1>6. /\ more \in Text /\ Behind(more, text, e) /\ (Rises(text) => Rises(more)) /\ Formed(more)
      /\ \A x : Has(a.current, x) \/ Has(piece, x) => Has(more, x)
  BY <1>3, JoinedKeeps
<1> HIDE DEF kept
<1>7. \A q \in 1 .. Len(piece) : Has(piece, piece[q])
  BY DEF Has
<1>8. CASE Len(more) <= size
  <2>1. c = [a EXCEPT !.current = more]
    <3>1. ~(Len(more) > size)
      <4>1. Len(more) \in Nat
        BY <1>6 DEF Text
      <4>2. QED
        BY <4>1, <1>1, <1>8
    <3>2. QED
      BY <3>1, <1>8 DEF Collect
  <2> HIDE DEF c, more
  <2>2. c \in GatherStates /\ c.chunks = a.chunks /\ c.current = more
    BY <2>1, <1>3, <1>6 DEF GatherStates
  <2>3. Len(more) <= most
    <3>1. Len(more) \in Nat
      BY <1>6 DEF Text
    <3>2. QED
      BY <3>1, <1>8, <1>2, <1>1
  <2>4. Gathered(c, text, most, e)
    BY <2>2, <2>3, <1>6 DEF Gathered, Fine
  <2>5. \A x : Collected(a, x) => Collected(c, x)
    BY <2>2, <1>6 DEF Collected
  <2>6. \A q \in 1 .. Len(piece) : Collected(c, piece[q])
    BY <2>2, <1>6, <1>7 DEF Collected
  <2>7. QED
    BY <2>4, <2>5, <2>6 DEF c
<1>9. CASE ~(Len(more) <= size) /\ Len(piece) > size
  <2>1. c = [chunks |-> kept \o cut, current |-> tail]
    <3>1. Len(more) > size
      <4>1. Len(more) \in Nat
        BY <1>6 DEF Text
      <4>2. QED
        BY <4>1, <1>1, <1>9
    <3>2. QED
      BY <3>1, <1>1, <1>9 DEF Collect, kept
  <2> HIDE DEF c, more, tail
  <2>2. /\ cut \in Seq(Text) /\ CutsText(cut, piece, most)
        /\ \A chunk \in ToSet(cut) :
             Len(chunk) <= most /\ (Rises(piece) => Rises(chunk)) /\ Formed(chunk)
    BY <1>9 DEF CutsText, Fine
  <2>3. kept \o cut \in Seq(Text) /\ ToSet(kept \o cut) = ToSet(kept) \cup ToSet(cut)
    BY <2>2, <1>4, BothItems
  <2> DEFINE all == kept \o cut
  <2>4. c.chunks = all /\ c.current = tail /\ c \in GatherStates
    BY <2>1, <2>3, <1>5 DEF GatherStates
  <2> HIDE DEF all
  <2>5. Rises(text) => Rises(piece)
    BY PartRises
  <2>6. \A chunk \in ToSet(cut) : Fine(chunk, text, most)
    BY <2>2, <2>5 DEF Fine
  <2>7. Fine(tail, text, most) /\ Behind(tail, text, e)
    <3>1. Len(tail) \in Nat
      BY <1>5 DEF Text
    <3>2. Len(tail) <= most
      <4>1. tail = <<>> => Len(tail) = 0
        OBVIOUS
      <4>2. QED
        BY <3>1, <4>1, <1>2, <1>1, <1>5
    <3>3. \A p \in 1 .. b : p \in 1 .. e
      BY <1>1
    <3>4. QED
      BY <3>2, <3>3, <1>5 DEF Fine, Behind
  <2>8. Gathered(c, text, most, e)
    BY <2>3, <2>4, <2>6, <2>7, <1>4 DEF Gathered, all
  <2>9. \A x : Within(x, kept) \/ Within(x, cut) => Collected(c, x)
    BY <2>3, <2>4 DEF Collected, Within, all
  <2>10. \A q \in 1 .. Len(piece) : piece[q] > Space => Within(piece[q], cut)
    BY <2>2 DEF CutsText
  <2>11. QED
    BY <2>8, <2>9, <2>10, <1>4 DEF c
<1>10. CASE ~(Len(more) <= size) /\ ~(Len(piece) > size)
  <2> DEFINE last == Joined(tail, s, piece)
  <2>1. c = [chunks |-> kept, current |-> last]
    BY <1>10 DEF Collect, kept
  <2>2. /\ last \in Text /\ Len(last) <= Len(tail) + Len(s) + Len(piece)
        /\ (tail = <<>> => last = piece)
        /\ Behind(last, text, e) /\ (Rises(text) => Rises(last)) /\ Formed(last)
        /\ \A x : Has(tail, x) \/ Has(piece, x) => Has(last, x)
    <3> HIDE DEF tail
    <3>1. QED
      BY <1>5, JoinedKeeps
  <2> HIDE DEF c, more, tail, last
  <2>3. c.chunks = kept /\ c.current = last /\ c \in GatherStates
    BY <2>1, <2>2, <1>4 DEF GatherStates
  <2>4. Len(last) <= most
    <3>1. Len(last) \in Nat /\ Len(tail) \in Nat
      BY <1>5, <2>2 DEF Text
    <3>2. QED
      BY <3>1, <2>2, <1>2, <1>1, <1>5, <1>10
  <2>5. Gathered(c, text, most, e)
    BY <2>2, <2>3, <2>4, <1>4 DEF Gathered, Fine
  <2>6. \A x : Within(x, kept) \/ Has(piece, x) => Collected(c, x)
    BY SMTT(30), <2>2, <2>3 DEF Collected
  <2>7. QED
    BY <2>5, <2>6, <1>4, <1>7 DEF c
<1>11. QED
  BY <1>8, <1>9, <1>10

(* The states that Gather goes through. *)
Gathering(acc, size, overlap, s, pieces, cuts) ==
  /\ Gather(size, overlap, s, pieces, cuts)
       = acc[Len(pieces)].chunks \o NonEmpty(acc[Len(pieces)].current)
  /\ acc[0] = [chunks |-> <<>>, current |-> <<>>]
  /\ \A k \in 1 .. Len(pieces) :
       acc[k] = Collect(size, overlap, s, acc[k - 1], pieces[k], cuts[k])

LEMMA GatherByStep ==
  ASSUME NEW size, NEW overlap, Sizes(size, overlap), NEW s, IsSeparator(s),
         NEW pieces \in Seq(Text), NEW cuts, \A k \in 1 .. Len(pieces) : cuts[k] \in Seq(Text)
  PROVE  \E acc : Gathering(acc, size, overlap, s, pieces, cuts)
<1> DEFINE n == Len(pieces)
           none == [chunks |-> <<>>, current |-> <<>>]
           Turn(a, k) == Collect(size, overlap, s, a, pieces[k], cuts[k])
           G == [k \in 1 .. n |-> [a \in GatherStates |-> Turn(a, k)]]
           Eq(f) == f = [k \in 0 .. n |-> IF k = 0 THEN none ELSE Turn(f[k - 1], k)]
<1>1. n \in Nat /\ none \in GatherStates
  BY DEF Text, GatherStates
<1>2. ASSUME NEW k \in 1 .. n, NEW a \in GatherStates PROVE Turn(a, k) \in GatherStates
  <2> DEFINE kept == a.chunks \o NonEmpty(a.current)
             tail == Overlap(a.current, overlap)
  <2>1. a.chunks \in Seq(Text) /\ a.current \in Text /\ pieces[k] \in Text /\ cuts[k] \in Seq(Text)
        /\ overlap \in Nat
    BY DEF GatherStates, Sizes
  <2>2. kept \in Seq(Text)
    BY <2>1, WithChunk
  <2>3. kept \o cuts[k] \in Seq(Text)
    BY <2>1, <2>2, BothItems
  <2>4. tail \in Text
    <3>1. <<>> \in Text
      BY DEF Text
    <3>2. QED
      BY <2>1, <3>1, OverlapIs DEF PartOf
  <2>5. Joined(a.current, s, pieces[k]) \in Text /\ Joined(tail, s, pieces[k]) \in Text
    BY <2>1, <2>4, JoinedIs
  <2>6. \/ Turn(a, k) = [a EXCEPT !.current = Joined(a.current, s, pieces[k])]
        \/ Turn(a, k) = [chunks |-> kept \o cuts[k], current |-> tail]
        \/ Turn(a, k) = [chunks |-> kept, current |-> Joined(tail, s, pieces[k])]
    BY DEF Collect
  <2> HIDE DEF kept, tail, Turn
  <2>7. [a EXCEPT !.current = Joined(a.current, s, pieces[k])] \in GatherStates
    BY <2>5 DEF GatherStates
  <2>8. /\ [chunks |-> kept \o cuts[k], current |-> tail] \in GatherStates
        /\ [chunks |-> kept, current |-> Joined(tail, s, pieces[k])] \in GatherStates
    BY <2>2, <2>3, <2>4, <2>5 DEF GatherStates
  <2>9. QED
    BY <2>6, <2>7, <2>8, Zenon
<1> HIDE DEF n, none, Turn
<1>3. StepsOn(GatherStates, n, G)
  <2>1. G \in [1 .. n -> [GatherStates -> GatherStates]]
    BY <1>2
  <2>2. QED
    BY <1>1, <2>1 DEF StepsOn
<1>4. PICK f : /\ f = [k \in 0 .. n |-> IF k = 0 THEN none ELSE G[k][f[k - 1]]]
               /\ \A k \in 0 .. n : f[k] \in GatherStates
  <2> HIDE DEF G
  <2>1. QED
    BY <1>1, <1>3, LoopExists
<1>5. Eq(f)
  <2>1. ASSUME NEW k \in 0 .. n
        PROVE  (IF k = 0 THEN none ELSE G[k][f[k - 1]]) = (IF k = 0 THEN none ELSE Turn(f[k - 1], k))
    <3>1. k # 0 => k \in 1 .. n /\ k - 1 \in 0 .. n
      BY <1>1
    <3>2. QED
      BY <3>1, <1>4
  <2> HIDE DEF G
  <2>2. QED
    BY <1>4, <2>1
<1> DEFINE acc == CHOOSE g : Eq(g)
<1>6. Eq(acc) /\ Gather(size, overlap, s, pieces, cuts) = acc[n].chunks \o NonEmpty(acc[n].current)
  <2>1. Eq(acc)
    <3> HIDE DEF Eq
    <3>1. QED
      BY <1>5
  <2>2. QED
    BY <2>1, Zenon DEF Gather, Turn, n, none
<1> HIDE DEF acc
<1>7. /\ acc[0] = none
      /\ \A k \in 1 .. n : acc[k] = Turn(acc[k - 1], k)
  <2>1. 0 \in 0 .. n /\ \A k \in 1 .. n : k \in 0 .. n /\ k # 0
    BY <1>1
  <2>2. QED
    BY <1>6, <2>1, Zenon
<1>8. QED
  BY Zenon, <1>6, <1>7 DEF n, none, Turn, Gathering

(* Gathering the pieces of a text, each with its finer cut, cuts the text. *)
LEMMA GatherCuts ==
  ASSUME NEW size, NEW overlap, Sizes(size, overlap), NEW s, IsSeparator(s), Len(s) <= 2,
         NEW text \in Text, Formed(text), NEW width \in 1 .. 4, Thin(text, width),
         NEW most, most = Most(size, overlap, width), NEW cuts,
         \A k \in 1 .. Len(Pieces(text, s)) :
           /\ cuts[k] \in Seq(Text)
           /\ Len(Pieces(text, s)[k]) > size => CutsText(cuts[k], Pieces(text, s)[k], most)
  PROVE  CutsText(Gather(size, overlap, s, Pieces(text, s), cuts), text, most)
<1> DEFINE pieces == Pieces(text, s)
           m == Len(pieces)
           n == Len(text)
<1>1. pieces \in Seq(Text) /\ m \in Nat /\ n \in Nat
  <2>1. pieces \in Seq(Text)
    BY PiecesAre
  <2> HIDE DEF pieces
  <2>2. QED
    BY <2>1 DEF Text
<1>2. PICK at : LaidOut(pieces, text, n, at)
  BY PiecesAre
<1>3. PICK acc :
           /\ Gather(size, overlap, s, pieces, cuts) = acc[m].chunks \o NonEmpty(acc[m].current)
           /\ acc[0] = [chunks |-> <<>>, current |-> <<>>]
           /\ \A k \in 1 .. m : acc[k] = Collect(size, overlap, s, acc[k - 1], pieces[k], cuts[k])
  <2>1. \A k \in 1 .. m : cuts[k] \in Seq(Text)
    OBVIOUS
  <2> HIDE DEF pieces
  <2>2. pieces \in Seq(Text) /\ \A k \in 1 .. Len(pieces) : cuts[k] \in Seq(Text)
    BY <1>1, <2>1
  <2>3. QED
    <3>1. \E acc : Gathering(acc, size, overlap, s, pieces, cuts)
      BY <2>2, GatherByStep
    <3>2. QED
      BY <3>1 DEF Gathering
<1>4. \A k \in 1 .. m :
        /\ PartOf(pieces[k], text, at[k]) /\ at[k] \in Nat /\ Len(pieces[k]) \in Nat
        /\ at[k] + Len(pieces[k]) \in Nat
        /\ (Len(pieces[k]) > size => CutsText(cuts[k], pieces[k], most)) /\ Formed(pieces[k])
        /\ \A j \in 1 .. m : k < j => at[k] + Len(pieces[k]) <= at[j]
  <2>1. \A k \in 1 .. m : pieces[k] \in ToSet(pieces)
    BY <1>1, ItemsAre
  <2>2. \A piece \in ToSet(pieces) : Formed(piece)
    BY PiecesInherit
  <2>3. \A k \in 1 .. m : Len(pieces[k]) > size => CutsText(cuts[k], pieces[k], most)
    OBVIOUS
  <2> HIDE DEF pieces
  <2>4. QED
    BY SMTT(30), <1>2, <2>1, <2>2, <2>3 DEF LaidOut, PartOf, Text
<1> HIDE DEF pieces, m, n
<1> DEFINE Ok(k) ==
             /\ \E b \in Nat : /\ Gathered(acc[k], text, most, b)
                               /\ \A j \in 1 .. m : k < j => b <= at[j]
             /\ \A i \in 1 .. m : i <= k =>
                  \A q \in 1 .. Len(pieces[i]) : pieces[i][q] > Space => Collected(acc[k], pieces[i][q])
           T == {k \in 0 .. m : Ok(k)}
<1>5. 0 \in T
  <2>1. most \in Nat
    BY DEF Sizes, Most
  <2>2. acc[0].chunks = <<>> /\ acc[0].current = <<>> /\ acc[0] \in GatherStates
    BY <1>3 DEF GatherStates, Text
  <2>3. ToSet(<<>>) = {} /\ Rises(<<>>) /\ Behind(<<>>, text, 0) /\ Len(<<>>) <= most /\ Formed(<<>>)
    BY <2>1 DEF ToSet, Rises, Behind, Formed
  <2>4. Gathered(acc[0], text, most, 0)
    BY <2>2, <2>3 DEF Gathered, Fine
  <2>5. \A j \in 1 .. m : 0 <= at[j] /\ ~(j <= 0)
    BY <1>1, <1>4
  <2>6. Ok(0)
    BY <2>4, <2>5
  <2>7. QED
    BY <2>6, <1>1
<1>6. ASSUME NEW k \in 1 .. m, k - 1 \in T PROVE k \in T
  <2> DEFINE a == acc[k - 1]
             e == at[k] + Len(pieces[k])
  <2>1. /\ acc[k] = Collect(size, overlap, s, a, pieces[k], cuts[k])
        /\ PartOf(pieces[k], text, at[k]) /\ e \in Nat /\ Formed(pieces[k])
        /\ (Len(pieces[k]) > size => CutsText(cuts[k], pieces[k], most))
    BY <1>3, <1>4
  <2>2. PICK b \in Nat : Gathered(a, text, most, b) /\ \A j \in 1 .. m : k - 1 < j => b <= at[j]
    BY <1>6
  <2>3. b <= at[k]
    <3>1. k - 1 < k
      BY <1>1
    <3>2. QED
      BY <2>2, <3>1
  <2>4. /\ Gathered(acc[k], text, most, e)
        /\ \A x : Collected(a, x) => Collected(acc[k], x)
        /\ \A q \in 1 .. Len(pieces[k]) : pieces[k][q] > Space => Collected(acc[k], pieces[k][q])
    <3> HIDE DEF a
    <3> DEFINE c == Collect(size, overlap, s, a, pieces[k], cuts[k])
    <3>1. /\ Gathered(c, text, most, e)
          /\ \A x : Collected(a, x) => Collected(c, x)
          /\ \A q \in 1 .. Len(pieces[k]) : pieces[k][q] > Space => Collected(c, pieces[k][q])
      BY <2>1, <2>2, <2>3, CollectKeeps
    <3> HIDE DEF c
    <3>2. acc[k] = c
      BY <2>1 DEF c
    <3>3. QED
      BY <3>1, <3>2
  <2>5. \A j \in 1 .. m : k < j => e <= at[j]
    BY <1>4
  <2>6. ASSUME NEW i \in 1 .. m, i <= k, NEW q \in 1 .. Len(pieces[i]), pieces[i][q] > Space
        PROVE  Collected(acc[k], pieces[i][q])
    <3>1. CASE i = k
      BY <3>1, <2>4, <2>6
    <3>2. CASE i # k
      <4>1. i <= k - 1
        BY <3>2, <2>6, <1>1
      <4>2. Collected(a, pieces[i][q])
        BY <4>1, <1>6, <2>6
      <4>3. QED
        BY <4>2, <2>4
    <3>3. QED
      BY <3>1, <3>2
  <2> HIDE DEF e, a
  <2>7. Ok(k)
    BY <2>1, <2>4, <2>5, <2>6
  <2>8. QED
    BY <2>7, <1>1
<1>7. Ok(m)
  <2> HIDE DEF Ok
  <2>1. \A k \in 0 .. m : k \in T
    <3> HIDE DEF T
    <3>1. QED
      BY <1>1, <1>5, <1>6, AllTurns
  <2>2. QED
    BY <2>1, <1>1
<1>8. PICK b \in Nat : Gathered(acc[m], text, most, b)
  BY <1>7
<1>9. \A i \in 1 .. m : \A q \in 1 .. Len(pieces[i]) :
        pieces[i][q] > Space => Collected(acc[m], pieces[i][q])
  <2>1. \A i \in 1 .. m : i <= m
    BY <1>1
  <2>2. QED
    BY <2>1, <1>7
<1> HIDE DEF Ok, T
<1> DEFINE all == acc[m].chunks \o NonEmpty(acc[m].current)
<1>10. /\ all \in Seq(Text)
       /\ \A chunk \in ToSet(all) : Fine(chunk, text, most)
       /\ \A c : Collected(acc[m], c) => Within(c, all)
  BY <1>8, KeptIs
<1>11. ASSUME NEW p \in 1 .. n, text[p] > Space PROVE Within(text[p], all)
  <2> HIDE DEF all
  <2>1. PICK i \in 1 .. m : at[i] < p /\ p <= at[i] + Len(pieces[i])
    BY <1>2, <1>11 DEF LaidOut, m, n
  <2> DEFINE q == p - at[i]
  <2>2. q \in 1 .. Len(pieces[i]) /\ at[i] + q = p
    BY SMTT(30), <2>1, <1>1, <1>4
  <2> HIDE DEF q
  <2>3. pieces[i][q] = text[p]
    BY <2>2, <1>4 DEF PartOf
  <2>4. QED
    BY <2>2, <2>3, <1>9, <1>10, <1>11
<1> HIDE DEF all
<1>12. CutsText(all, text, most)
  BY <1>10, <1>11 DEF CutsText, n
<1>13. QED
  BY <1>3, <1>12 DEF all, pieces

(* SplitText cuts any text it comes to an end with, by whichever           *)
(* separators it takes.                                                    *)
LEMMA SplitTextCuts ==
  ASSUME NEW size, NEW overlap, Sizes(size, overlap), NEW text \in Text, Formed(text),
         NEW width \in 1 .. 4, Thin(text, width), SplitEnds(size, overlap, text)
  PROVE  CutsText(SplitText(size, overlap, text), text, Most(size, overlap, width))
<1> DEFINE most == Most(size, overlap, width)
           Fit(t) == t \in Text /\ Formed(t) /\ Thin(t, width)
           WordsEnd(t) == \A word \in ToSet(Pieces(t, <<Space>>)) :
                            Len(word) > size => LengthEnds(size, overlap, word)
<1>1. size \in Nat /\ overlap \in Nat /\ most \in Nat /\ size <= most
  BY DEF Sizes, Most
<1>2. /\ IsSeparator(<<Space>>) /\ Len(<<Space>>) <= 2
      /\ IsSeparator(<<Newline>>) /\ Len(<<Newline>>) <= 2
      /\ IsSeparator(<<Newline, Newline>>) /\ Len(<<Newline, Newline>>) <= 2
  BY DEF IsSeparator, Space, Newline, Text
<1>3. \A t : Fit(t) => /\ SplitByLength(size, overlap, t) \in Seq(Text)
                       /\ LengthEnds(size, overlap, t) => CutsText(SplitByLength(size, overlap, t), t, most)
  <2> SUFFICES ASSUME NEW t, Fit(t)
               PROVE  /\ SplitByLength(size, overlap, t) \in Seq(Text)
                      /\ LengthEnds(size, overlap, t) => CutsText(SplitByLength(size, overlap, t), t, most)
    OBVIOUS
  <2> DEFINE chunks == SplitByLength(size, overlap, t)
  <2>1. chunks \in Seq(Text) /\ (LengthEnds(size, overlap, t) => CutsText(chunks, t, size))
    BY SplitByLengthCuts
  <2> HIDE DEF chunks, most
  <2>2. ASSUME CutsText(chunks, t, size) PROVE CutsText(chunks, t, most)
    <3>1. \A chunk \in ToSet(chunks) : Len(chunk) <= size /\ Len(chunk) \in Nat
      BY <2>1, <2>2, ItemsAre DEF CutsText, Fine, Text
    <3>2. \A chunk \in ToSet(chunks) : Len(chunk) <= most
      BY <3>1, <1>1
    <3>3. QED
      BY <2>2, <3>2 DEF CutsText, Fine
  <2>3. QED
    BY <2>1, <2>2 DEF chunks
<1>4. ASSUME NEW t, Fit(t), NEW s, IsSeparator(s)
      PROVE  /\ Pieces(t, s) \in Seq(Text)
             /\ \A k \in 1 .. Len(Pieces(t, s)) :
                  /\ Pieces(t, s)[k] \in ToSet(Pieces(t, s)) /\ k \in DOMAIN Pieces(t, s)
                  /\ Fit(Pieces(t, s)[k])
  <2> DEFINE pieces == Pieces(t, s)
  <2>1. pieces \in Seq(Text)
    BY <1>4, PiecesAre
  <2>2. \A piece \in ToSet(pieces) : Fit(piece)
    BY <1>4, PiecesInherit
  <2> HIDE DEF pieces, Fit
  <2>3. \A k \in 1 .. Len(pieces) : pieces[k] \in ToSet(pieces) /\ k \in DOMAIN pieces
    BY <2>1, ItemsAre
  <2>4. QED
    BY <2>1, <2>2, <2>3 DEF pieces
<1>5. ASSUME NEW t, Fit(t), NEW s, IsSeparator(s), Len(s) <= 2, NEW cuts,
             \A k \in 1 .. Len(Pieces(t, s)) :
               /\ cuts[k] \in Seq(Text)
               /\ Len(Pieces(t, s)[k]) > size => CutsText(cuts[k], Pieces(t, s)[k], most)
      PROVE  CutsText(Gather(size, overlap, s, Pieces(t, s), cuts), t, most)
  BY <1>5, GatherCuts
<1> HIDE DEF most, Fit
<1>6. ASSUME NEW t, Fit(t), WordsEnd(t) PROVE CutsText(Words(size, overlap, t), t, most)
  <2> DEFINE pieces == Pieces(t, <<Space>>)
             cuts == [i \in DOMAIN pieces |-> SplitByLength(size, overlap, pieces[i])]
  <2>1. \A k \in 1 .. Len(pieces) :
          pieces[k] \in ToSet(pieces) /\ k \in DOMAIN pieces /\ Fit(pieces[k])
    BY <1>2, <1>4, <1>6
  <2>2. \A k \in 1 .. Len(pieces) :
          cuts[k] \in Seq(Text) /\ (Len(pieces[k]) > size => CutsText(cuts[k], pieces[k], most))
    <3>1. \A word \in ToSet(pieces) : Len(word) > size => LengthEnds(size, overlap, word)
      BY <1>6
    <3> HIDE DEF pieces
    <3>2. QED
      BY <2>1, <3>1, <1>3
  <2> HIDE DEF cuts
  <2>3. CutsText(Gather(size, overlap, <<Space>>, pieces, cuts), t, most)
    BY <1>2, <1>5, <1>6, <2>2
  <2>4. QED
    BY <2>3 DEF Words, cuts
<1>7. ASSUME NEW t, Fit(t), \A line \in ToSet(Pieces(t, <<Newline>>)) : WordsEnd(line)
      PROVE  CutsText(Lines(size, overlap, t), t, most)
  <2> DEFINE pieces == Pieces(t, <<Newline>>)
             cuts == [i \in DOMAIN pieces |-> Words(size, overlap, pieces[i])]
  <2>1. \A k \in 1 .. Len(pieces) :
          pieces[k] \in ToSet(pieces) /\ k \in DOMAIN pieces /\ Fit(pieces[k])
    BY <1>2, <1>4, <1>7
  <2>2. \A line \in ToSet(pieces) : WordsEnd(line)
    BY <1>7
  <2> HIDE DEF WordsEnd
  <2>3. \A k \in 1 .. Len(pieces) : CutsText(cuts[k], pieces[k], most)
    <3> HIDE DEF pieces
    <3>1. QED
      BY <2>1, <2>2, <1>6
  <2>4. \A k \in 1 .. Len(pieces) : cuts[k] \in Seq(Text)
    <3> HIDE DEF pieces, cuts
    <3>1. QED
      BY <2>3 DEF CutsText
  <2> HIDE DEF cuts
  <2>5. CutsText(Gather(size, overlap, <<Newline>>, pieces, cuts), t, most)
    BY <1>2, <1>5, <1>7, <2>3, <2>4
  <2>6. QED
    BY <2>5 DEF Lines, cuts
<1>8. CutsText(Paragraphs(size, overlap, text), text, most)
  <2> DEFINE pieces == Pieces(text, <<Newline, Newline>>)
             cuts == [i \in DOMAIN pieces |-> Lines(size, overlap, pieces[i])]
  <2>0. Fit(text)
    BY DEF Fit
  <2>1. \A k \in 1 .. Len(pieces) :
          pieces[k] \in ToSet(pieces) /\ k \in DOMAIN pieces /\ Fit(pieces[k])
    BY <1>2, <1>4, <2>0
  <2>2. \A paragraph \in ToSet(pieces) : \A line \in ToSet(Pieces(paragraph, <<Newline>>)) : WordsEnd(line)
    BY Zenon DEF SplitEnds
  <2> HIDE DEF WordsEnd
  <2>3. \A k \in 1 .. Len(pieces) : CutsText(cuts[k], pieces[k], most)
    <3> HIDE DEF pieces
    <3>1. QED
      BY <2>1, <2>2, <1>7
  <2>4. \A k \in 1 .. Len(pieces) : cuts[k] \in Seq(Text)
    <3> HIDE DEF pieces, cuts
    <3>1. QED
      BY <2>3 DEF CutsText
  <2> HIDE DEF cuts
  <2>5. CutsText(Gather(size, overlap, <<Newline, Newline>>, pieces, cuts), text, most)
    BY <1>2, <1>5, <2>0, <2>3, <2>4
  <2>6. QED
    BY <2>5 DEF Paragraphs, cuts
<1>9. ASSUME Len(text) <= size PROVE CutsText(<<text>>, text, most)
  <2>1. Len(text) \in Nat
    BY DEF Text
  <2>2. <<text>> \in Seq(Text) /\ ToSet(<<text>>) = {text} /\ Len(text) <= most
    BY <2>1, <1>1, <1>9 DEF ToSet
  <2>3. QED
    BY <2>2 DEF CutsText, Fine, Within, Has
<1>10. QED
  BY <1>8, <1>9 DEF SplitText, most

(* Where there is room, split_text ends. *)
LEMMA RoomEnds ==
  ASSUME NEW size, NEW overlap, Sizes(size, overlap), NEW text \in Text, Formed(text),
         NEW width \in 1 .. 4, Thin(text, width), Room(size, overlap, width)
  PROVE  SplitEnds(size, overlap, text)
<1> DEFINE Fit(t) == t \in Text /\ Formed(t) /\ Thin(t, width)
<1>1. IsSeparator(<<Space>>) /\ IsSeparator(<<Newline>>) /\ IsSeparator(<<Newline, Newline>>)
  BY DEF IsSeparator, Space, Newline, Text
<1>2. ASSUME NEW t, Fit(t), NEW s, IsSeparator(s)
      PROVE  \A piece \in ToSet(Pieces(t, s)) : Fit(piece)
  BY <1>2, PiecesInherit
<1>3. \A t : Fit(t) => LengthEnds(size, overlap, t)
  BY SplitByLengthCuts
<1>4. Fit(text)
  OBVIOUS
<1> HIDE DEF Fit
<1>5. QED
  BY <1>1, <1>2, <1>3, <1>4 DEF SplitEnds

-----------------------------------------------------------------------------
(* The splitter keeps what it promises. *)

SplitFits ==
  /\ setup \in Setups /\ split.text \in Text /\ Rises(split.text) /\ Formed(split.text)
  /\ HasRoom(split.text) => split.ended
  /\ IF split.ended
     THEN \A width \in 1 .. 4 : Thin(split.text, width)
            => CutsText(split.chunks, split.text, Most(setup.size, setup.overlap, width))
     ELSE split.chunks = <<>>

LEMMA SetupsFit ==
  ASSUME NEW s \in Setups
  PROVE  Sizes(s.size, s.overlap) /\ (s.persistent => s.cached) /\ s \in Setup
BY SetupsAssumption DEF Setup, Sizes

LEMMA SamplesRise ==
  ASSUME NEW text \in Samples \cup { <<>> }
  PROVE  text \in Text /\ Rises(text) /\ Formed(text)
<1>1. CASE text = <<>>
  BY <1>1 DEF Text, Rises, Formed
<1>2. CASE text \in Samples
  <2>1. text \in Text /\ WellFormed(text)
    BY <1>2, TextsAssumption
  <2>2. Rises(text)
    BY <1>2, TextsAssumption DEF Text, Rises
  <2>3. QED
    BY <2>1, <2>2, FormedIs
<1>3. QED
  BY <1>1, <1>2

LEMMA InitSplitFits == Init => SplitFits
<1> SUFFICES ASSUME Init PROVE SplitFits
  OBVIOUS
<1>1. \A most : CutsText(<<>>, <<>>, most)
  BY DEF CutsText, ToSet
<1>2. setup \in Setups /\ split.text = <<>> /\ split.ended /\ split.chunks = <<>>
  BY DEF Init
<1>3. QED
  BY <1>1, <1>2, SamplesRise DEF SplitFits

LEMMA SplitAnyFits ==
  ASSUME SplitFits, SplitAny
  PROVE  SplitFits'
<1>1. PICK text \in Samples \cup { <<>> } :
        LET ends == SplitEnds(setup.size, setup.overlap, text)
        IN split' = [text |-> text, ended |-> ends,
                     chunks |-> IF ends THEN SplitText(setup.size, setup.overlap, text) ELSE <<>>]
  BY DEF SplitAny
<1> DEFINE ends == SplitEnds(setup.size, setup.overlap, text)
<1>2. setup' = setup /\ setup \in Setups
  BY DEF SplitAny, SplitFits
<1>3. text \in Text /\ Rises(text) /\ Formed(text) /\ Sizes(setup.size, setup.overlap)
  BY <1>2, SamplesRise, SetupsFit
<1>4. ends => \A width \in 1 .. 4 : Thin(text, width)
         => CutsText(SplitText(setup.size, setup.overlap, text), text,
                     Most(setup.size, setup.overlap, width))
  BY <1>3, SplitTextCuts
<1>5. HasRoom(text) => ends
  <2> SUFFICES ASSUME HasRoom(text) PROVE ends
    OBVIOUS
  <2>1. PICK width \in 1 .. 4 :
          /\ Narrow(text, width)
          /\ \/ setup.size >= setup.overlap + 2 * width - 1
             \/ setup.overlap = 0 /\ setup.size >= width
    BY Zenon DEF HasRoom
  <2>2. Thin(text, width)
    BY <1>3, <2>1, ThinIs
  <2>3. Room(setup.size, setup.overlap, width)
    BY <2>1, Zenon DEF Room
  <2>4. QED
    BY <1>3, <2>2, <2>3, RoomEnds
<1> HIDE DEF ends
<1>6. /\ split'.text = text /\ split'.ended = ends
      /\ split'.chunks = IF ends THEN SplitText(setup.size, setup.overlap, text) ELSE <<>>
  BY <1>1 DEF ends
<1>7. HasRoom(split.text)' = HasRoom(text)
  BY <1>2, <1>6 DEF HasRoom
<1>8. QED
  BY <1>2, <1>3, <1>4, <1>5, <1>6, <1>7 DEF SplitFits

(* Nothing but SplitAny has to do with the splitter. *)
LEMMA SplitStays ==
  ASSUME [Next]_vars, ~SplitAny
  PROVE  setup' = setup /\ split' = split
BY Zenon DEF Next, vars, Start, SaveSystem, LoadSystem, Crash, IntervalElapses, TaskStep, WriterStep,
       ServiceAnswers, Insert, Evict, CopyCache, TruncateCacheFile, WriteCacheFile, Retrieve,
       Search, ClearCache, SaveCache, LoadCache, AddDocuments, NextDocument, DocumentsDone,
       DocumentFails, AddChunk, AddChunkUnsaved, AddAgain, NothingToStore, StoreSaved,
       StoreFails, Clear, ClearSaved, ClearFails

LEMMA NextSplitFits == SplitFits /\ [Next]_vars => SplitFits'
<1> SUFFICES ASSUME SplitFits, [Next]_vars PROVE SplitFits'
  OBVIOUS
<1>1. CASE SplitAny
  BY <1>1, SplitAnyFits
<1>2. CASE ~SplitAny
  BY <1>2, SplitStays DEF SplitFits, HasRoom
<1>3. QED
  BY <1>1, <1>2

(* For any chunk size, any overlap and any text of letters of one to four  *)
(* bytes: where a chunk has room the splitter ends, and when it ends no    *)
(* letter is lost, cut in two or out of order.                             *)
THEOREM SplittingLosesNothing == Spec => []NothingLost
<1>1. SplitFits => NothingLost
  <2> SUFFICES ASSUME SplitFits PROVE NothingLost
    OBVIOUS
  <2>1. split.text \in Seq(Nat) /\ Rises(split.text) /\ (HasRoom(split.text) => split.ended)
    BY DEF SplitFits, Text
  <2>2. Thin(split.text, 4)
    BY <2>1 DEF Thin
  <2> DEFINE most == Most(setup.size, setup.overlap, 4)
  <2>3. split.ended => CutsText(split.chunks, split.text, most)
    BY <2>2 DEF SplitFits
  <2>4. split.chunks \in Seq(Text) /\ \A chunk \in ToSet(split.chunks) : Rises(chunk) /\ Formed(chunk)
    <3>1. CASE split.ended
      BY <2>1, <2>3, <3>1 DEF CutsText, Fine
    <3>2. CASE ~split.ended
      <4>1. split.chunks = <<>>
        BY <3>2 DEF SplitFits
      <4>2. ToSet(<<>>) = {} /\ <<>> \in Seq(Text)
        BY DEF ToSet
      <4>3. QED
        BY <4>1, <4>2
    <3>3. QED
      BY <3>1, <3>2
  <2>5. ASSUME split.ended, NEW c \in ToSet(split.text) \ {Newline, Space}
        PROVE  c \in UNION {ToSet(chunk) : chunk \in ToSet(split.chunks)}
    <3>1. PICK p \in 1 .. Len(split.text) : c = split.text[p]
      BY <2>1, ItemsAre
    <3>2. c \in Nat /\ c > Space
      BY <2>1, <2>5, <3>1 DEF Newline, Space
    <3>3. PICK chunk \in ToSet(split.chunks) : Has(chunk, c)
      BY <2>3, <2>5, <3>1, <3>2 DEF Within, CutsText
    <3>4. chunk \in Seq(Nat)
      BY <2>4, ItemsAre DEF Text
    <3>5. c \in ToSet(chunk)
      BY <3>3, <3>4, ItemsAre DEF Has
    <3>6. QED
      BY <3>5
  <2>6. ASSUME NEW chunk \in ToSet(split.chunks)
        PROVE  /\ WellFormed(chunk)
               /\ \A i, j \in DOMAIN chunk :
                    i < j /\ chunk[i] > Space /\ chunk[j] > Space => chunk[i] < chunk[j]
    <3>1. chunk \in Text
      BY <2>4, ItemsAre
    <3>2. DOMAIN chunk = 1 .. Len(chunk)
      BY <3>1 DEF Text
    <3>3. WellFormed(chunk)
      BY <2>4, <3>1, FormedIs
    <3>4. QED
      BY <2>4, <3>2, <3>3 DEF Rises
  <2>7. QED
    BY <2>1, <2>5, <2>6 DEF NothingLost
<1>2. QED
  BY <1>1, InitSplitFits, NextSplitFits, PTL DEF Spec

(* For any chunk size, any overlap and any text of letters of one to four  *)
(* bytes, a chunk is longer than the chunk size only by an overlap, the    *)
(* bytes before it of a letter, and a separator.                           *)
THEOREM ChunksAreSmall == Spec => []ChunksFit
<1>1. SplitFits => ChunksFit
  <2> SUFFICES ASSUME SplitFits, NEW width \in 1 .. 4, Narrow(split.text, width),
                      NEW chunk \in ToSet(split.chunks)
               PROVE  Len(chunk) <= Most(setup.size, setup.overlap, width)
    BY DEF ChunksFit, Most
  <2>1. split.ended
    BY DEF SplitFits, ToSet
  <2>2. Thin(split.text, width)
    BY ThinIs DEF SplitFits
  <2>3. QED
    BY <2>1, <2>2 DEF SplitFits, CutsText, Fine
<1>2. QED
  BY <1>1, InitSplitFits, NextSplitFits, PTL DEF Spec
-----------------------------------------------------------------------------
(* The items at some places, and those at the others. *)

(* f are the sublists of the first items of s.                             *)
Sublists(S, s, I, f) ==
  /\ f \in [0 .. Len(s) -> Seq(S)]
  /\ Sublist(s, I) = f[Len(s)]
  /\ f[0] = <<>>
  /\ \A k \in 1 .. Len(s) : f[k] = IF k \in I THEN Append(f[k - 1], s[k]) ELSE f[k - 1]

LEMMA SublistsExist ==
  ASSUME NEW S, NEW s \in Seq(S), NEW I
  PROVE  \E f : Sublists(S, s, I, f)
<1>1. PICK f \in [0 .. Len(s) -> Seq(S)] :
           /\ Sublist(s, I) = f[Len(s)]
           /\ f[0] = <<>>
           /\ \A k \in 1 .. Len(s) :
                f[k] = IF k \in I THEN Append(f[k - 1], s[k]) ELSE f[k - 1]
  BY SublistByStep
<1>2. Sublists(S, s, I, f)
  BY <1>1 DEF Sublists
<1>3. QED
  BY <1>2

(* A list is as long as the two halves of it together.                     *)
LEMMA HalvesAddUp ==
  ASSUME NEW S, NEW s \in Seq(S), NEW I, NEW J, \A k \in 1 .. Len(s) : k \in J <=> k \notin I
  PROVE  /\ Sublist(s, I) \in Seq(S) /\ Sublist(s, J) \in Seq(S)
         /\ Len(Sublist(s, I)) + Len(Sublist(s, J)) = Len(s)
<1>a. PICK f : Sublists(S, s, I, f)
  BY SublistsExist
<1>b. PICK g : Sublists(S, s, J, g)
  BY SublistsExist
<1> DEFINE n == Len(s)
<1>1. n \in Nat
  OBVIOUS
<1>2. /\ f \in [0 .. n -> Seq(S)] /\ Sublist(s, I) = f[n] /\ f[0] = <<>>
      /\ \A k \in 1 .. n : f[k] = IF k \in I THEN Append(f[k - 1], s[k]) ELSE f[k - 1]
  BY <1>a DEF Sublists
<1>3. /\ g \in [0 .. n -> Seq(S)] /\ Sublist(s, J) = g[n] /\ g[0] = <<>>
      /\ \A k \in 1 .. n : g[k] = IF k \in J THEN Append(g[k - 1], s[k]) ELSE g[k - 1]
  BY <1>b DEF Sublists
<1> DEFINE Half(k) == Len(f[k]) + Len(g[k]) = k
           T == {k \in 0 .. n : Half(k)}
<1>4. \A k \in 1 .. n : s[k] \in S /\ (k \in J <=> k \notin I)
  OBVIOUS
<1> HIDE DEF n
<1>5. 0 \in T
  BY <1>1, <1>2, <1>3
<1> HIDE DEF Half
<1>6. ASSUME NEW k \in 1 .. n, k - 1 \in T PROVE k \in T
  <2>1. k \in Nat /\ k - 1 \in 0 .. n /\ k \in 0 .. n
    BY <1>1
  <2>2. f[k - 1] \in Seq(S) /\ g[k - 1] \in Seq(S)
    BY <2>1, <1>2, <1>3
  <2>3. Len(f[k - 1]) + Len(g[k - 1]) = k - 1
    BY <1>6, Zenon DEF Half
  <2>4. Len(f[k - 1]) \in Nat /\ Len(g[k - 1]) \in Nat
    BY <2>2
  <2>5. CASE k \in I
    <3>1. f[k] = Append(f[k - 1], s[k]) /\ g[k] = g[k - 1]
      BY <2>5, <1>2, <1>3, <1>4
    <3>2. Len(f[k]) = Len(f[k - 1]) + 1
      BY <3>1, <2>2, <1>4
    <3> DEFINE a == Len(f[k - 1])
               b == Len(g[k - 1])
    <3>3. a \in Nat /\ b \in Nat /\ a + b = k - 1 /\ Len(f[k]) = a + 1 /\ Len(g[k]) = b
      BY <3>1, <3>2, <2>3, <2>4
    <3> HIDE DEF a, b
    <3>4. Len(f[k]) + Len(g[k]) = k
      BY <3>3, <2>1
    <3>5. QED
      BY <3>4, <2>1, Zenon DEF Half
  <2>6. CASE k \notin I
    <3>1. g[k] = Append(g[k - 1], s[k]) /\ f[k] = f[k - 1]
      BY <2>6, <1>2, <1>3, <1>4
    <3>2. Len(g[k]) = Len(g[k - 1]) + 1
      BY <3>1, <2>2, <1>4
    <3> DEFINE a == Len(f[k - 1])
               b == Len(g[k - 1])
    <3>3. a \in Nat /\ b \in Nat /\ a + b = k - 1 /\ Len(f[k]) = a /\ Len(g[k]) = b + 1
      BY <3>1, <3>2, <2>3, <2>4
    <3> HIDE DEF a, b
    <3>4. Len(f[k]) + Len(g[k]) = k
      BY <3>3, <2>1
    <3>5. QED
      BY <3>4, <2>1, Zenon DEF Half
  <2>7. QED
    BY <2>5, <2>6
<1>7. n \in T
  <2>1. \A k \in 0 .. n : k \in T
    <3> HIDE DEF T
    <3>1. QED
      BY <1>1, <1>5, <1>6, AllTurns
  <2>2. QED
    BY <2>1, <1>1
<1>8. Len(f[n]) + Len(g[n]) = n
  BY <1>7 DEF Half
<1>9. QED
  BY <1>1, <1>2, <1>3, <1>8 DEF n

(* A list is as long as it has different items, or longer.                 *)
LEMMA ItemsCounted ==
  ASSUME NEW S, NEW s \in Seq(S), NEW A, \A a \in A : \E i \in 1 .. Len(s) : s[i] = a
  PROVE  IsFiniteSet(A) /\ Cardinality(A) \in Nat /\ Cardinality(A) <= Len(s)
<1> DEFINE n == Len(s)
           P == {i \in 1 .. n : s[i] \in A}
           f == [i \in P |-> s[i]]
<1>1. n \in Nat
  OBVIOUS
<1> HIDE DEF n
<1>2. IsFiniteSet(1 .. n) /\ Cardinality(1 .. n) = n
  BY <1>1, FS_Interval
<1>3. IsFiniteSet(P) /\ Cardinality(P) <= n
  <2>1. P \in SUBSET (1 .. n)
    OBVIOUS
  <2> HIDE DEF P
  <2>2. QED
    BY <2>1, <1>2, FS_Subset
<1>4. f \in Surjection(P, A)
  BY DEF Surjection, n
<1>5. IsFiniteSet(A) /\ Cardinality(A) <= Cardinality(P)
  <2> HIDE DEF f, P
  <2>1. QED
    BY <1>3, <1>4, FS_Surjection
<1>6. Cardinality(A) \in Nat /\ Cardinality(P) \in Nat
  BY <1>3, <1>5, FS_CardinalityType
<1>7. QED
  BY <1>1, <1>3, <1>5, <1>6 DEF n

(* Where the items of a sublist stood: its places, as a sublist of all.    *)
PlacesIn(s, part, places) ==
  /\ places \in Seq(1 .. Len(s)) /\ Len(places) = Len(part)
  /\ \A k \in 1 .. Len(part) : part[k] = s[places[k]] /\ places[k] \in 1 .. Len(s)

LEMMA PlacesOfSublist ==
  ASSUME NEW S, NEW s \in Seq(S), NEW I, NEW part, NEW places,
         part = Sublist(s, I), places = Sublist([i \in DOMAIN s |-> i], I)
  PROVE  PlacesIn(s, part, places)
<1> DEFINE n == Len(s)
           N == 1 .. n
           all == [i \in DOMAIN s |-> i]
<1>1. n \in Nat /\ all \in Seq(N) /\ Len(all) = n /\ \A k \in 1 .. n : all[k] = k /\ k \in N
  OBVIOUS
<1>2. PICK f : /\ f \in [0 .. n -> Seq(S)] /\ Sublist(s, I) = f[n] /\ f[0] = <<>>
               /\ \A k \in 1 .. n : f[k] = IF k \in I THEN Append(f[k - 1], s[k]) ELSE f[k - 1]
  <2>1. PICK f : Sublists(S, s, I, f)
    BY SublistsExist
  <2>2. QED
    BY <2>1 DEF Sublists
<1>3. PICK g : /\ g \in [0 .. n -> Seq(N)] /\ Sublist(all, I) = g[n] /\ g[0] = <<>>
               /\ \A k \in 1 .. n : g[k] = IF k \in I THEN Append(g[k - 1], k) ELSE g[k - 1]
  <2> HIDE DEF all, n, N
  <2>1. PICK g : Sublists(N, all, I, g)
    BY <1>1, SublistsExist
  <2>2. QED
    BY <2>1, <1>1 DEF Sublists
<1> DEFINE Same(a, b) == Len(b) = Len(a) /\ \A j \in 1 .. Len(a) : a[j] = s[b[j]]
           T == {k \in Nat : k <= n => Same(f[k], g[k])}
<1>4. \A k \in 1 .. n : s[k] \in S
  OBVIOUS
<1> HIDE DEF n, N, all
<1>5. 0 \in T
  BY <1>2, <1>3
<1>6. ASSUME NEW k \in 1 .. n, k - 1 \in T PROVE k \in T
  <2>1. k \in Nat /\ k - 1 \in 0 .. n /\ Same(f[k - 1], g[k - 1])
    BY <1>1, <1>6
  <2>2. f[k - 1] \in Seq(S) /\ g[k - 1] \in Seq(N) /\ k \in N /\ s[k] \in S
    BY <2>1, <1>1, <1>2, <1>3, <1>4
  <2>3. CASE k \in I
    <3>1. f[k] = Append(f[k - 1], s[k]) /\ g[k] = Append(g[k - 1], k)
      BY <2>3, <1>2, <1>3
    <3>2. Same(f[k], g[k])
      <4> DEFINE a == f[k - 1]
                 b == g[k - 1]
      <4>1. a \in Seq(S) /\ b \in Seq(N) /\ Len(b) = Len(a) /\ \A j \in 1 .. Len(a) : a[j] = s[b[j]]
        BY <2>1, <2>2
      <4> HIDE DEF a, b
      <4>2. Same(Append(a, s[k]), Append(b, k))
        <5>1. /\ Len(Append(a, s[k])) = Len(a) + 1 /\ Len(Append(b, k)) = Len(a) + 1
              /\ Append(a, s[k])[Len(a) + 1] = s[k] /\ Append(b, k)[Len(a) + 1] = k
              /\ \A j \in 1 .. Len(a) : Append(a, s[k])[j] = a[j] /\ Append(b, k)[j] = b[j]
              /\ Len(a) \in Nat
          BY <4>1, <2>2
        <5>2. QED
          BY <5>1, <4>1
      <4>3. QED
        BY <4>2, <3>1 DEF a, b
    <3>3. QED
      BY <3>2, <2>1
  <2>4. CASE k \notin I
    <3>1. f[k] = f[k - 1] /\ g[k] = g[k - 1]
      BY <2>4, <1>2, <1>3
    <3>2. QED
      BY <3>1, <2>1
  <2>5. QED
    BY <2>3, <2>4
<1>7. n \in T /\ n \in 0 .. n
  <2>1. \A k \in 0 .. n : k \in T
    <3> HIDE DEF T
    <3>1. QED
      BY <1>1, <1>5, <1>6, AllTurns
  <2>2. QED
    BY <2>1, <1>1
<1>8. places \in Seq(N) /\ places = g[n] /\ part = f[n]
  BY <1>1, <1>2, <1>3, <1>7 DEF all
<1>9. Len(places) = Len(part) /\ \A k \in 1 .. Len(part) : part[k] = s[places[k]]
  <2>1. Same(f[n], g[n])
    BY <1>7, <1>1
  <2>2. QED
    BY <2>1, <1>8
<1>10. \A k \in 1 .. Len(part) : places[k] \in N
  BY <1>8, <1>9
<1>11. QED
  BY <1>8, <1>9, <1>10 DEF PlacesIn, N, n

-----------------------------------------------------------------------------
(* The cache: a list of entries, each with the embedding of its own text.  *)

Own == {e \in [text : Text, of : Text, count : Nat] : e.of = e.text}

LEMMA AccessKeeps ==
  ASSUME NEW strategy, NEW e \in Own
  PROVE  Access(strategy, e) \in Own /\ Access(strategy, e).text = e.text
<1> DEFINE c == IF strategy = "LFU" /\ e.count < MaxCount THEN e.count + 1 ELSE e.count
<1>1. e \in [text : Text, of : Text, count : Nat] /\ e.of = e.text
  BY DEF Own
<1>2. c \in Nat
  BY <1>1
<1>3. Access(strategy, e) = [e EXCEPT !.count = c]
  BY DEF Access
<1> HIDE DEF c
<1>4. [e EXCEPT !.count = c] \in [text : Text, of : Text, count : Nat]
  BY <1>1, <1>2
<1>5. [e EXCEPT !.count = c].of = e.of /\ [e EXCEPT !.count = c].text = e.text
  BY <1>1
<1>6. QED
  BY <1>1, <1>3, <1>4, <1>5 DEF Own

LEMMA WithoutAndLookup ==
  ASSUME NEW kept \in Seq(Own), NEW text
  PROVE  /\ Without(kept, text) \in Seq(Own) /\ Lookup(kept, text) \in Seq(Own)
         /\ Len(Without(kept, text)) + Len(Lookup(kept, text)) = Len(kept)
<1> DEFINE I == {i \in DOMAIN kept : kept[i].text # text}
           J == {i \in DOMAIN kept : kept[i].text = text}
<1>1. \A k \in 1 .. Len(kept) : k \in J <=> k \notin I
  OBVIOUS
<1> HIDE DEF I, J
<1>2. QED
  BY <1>1, HalvesAddUp DEF Without, Lookup, I, J

(* Being read changes neither what is cached nor how much.                 *)
LEMMA TouchKeeps ==
  ASSUME NEW strategy, NEW kept \in Seq(Own), NEW text
  PROVE  /\ Touch(strategy, kept, text) \in Seq(Own)
         /\ Len(Touch(strategy, kept, text)) = Len(kept)
<1>1. CASE strategy = "LRU"
  <2> DEFINE a == Without(kept, text)
             b == Lookup(kept, text)
  <2>1. a \in Seq(Own) /\ b \in Seq(Own) /\ Len(a) + Len(b) = Len(kept)
    BY WithoutAndLookup
  <2> HIDE DEF a, b
  <2>2. a \o b \in Seq(Own) /\ Len(a \o b) = Len(a) + Len(b)
    BY <2>1
  <2>3. QED
    BY <2>1, <2>2, <1>1 DEF Touch, a, b
<1>2. CASE strategy # "LRU"
  <2> DEFINE c == [i \in DOMAIN kept |-> IF kept[i].text = text THEN Access(strategy, kept[i])
                                                                 ELSE kept[i]]
  <2>1. DOMAIN kept = 1 .. Len(kept) /\ Len(kept) \in Nat
    OBVIOUS
  <2>2. \A i \in 1 .. Len(kept) : c[i] \in Own
    BY <2>1, AccessKeeps
  <2>3. c \in Seq(Own) /\ Len(c) = Len(kept)
    <3>1. DOMAIN c = 1 .. Len(kept)
      BY <2>1
    <3>2. c = [i \in 1 .. Len(kept) |-> c[i]]
      BY <2>1
    <3> HIDE DEF c
    <3>3. QED
      BY <2>1, <2>2, <3>1, <3>2
  <2>4. QED
    BY <2>3, <1>2 DEF Touch
<1>3. QED
  BY <1>1, <1>2

(* A batch of reads. *)
LEMMA GetBatchKeeps ==
  ASSUME NEW strategy, NEW kept \in Seq(Own), NEW texts \in Seq(Text)
  PROVE  /\ GetBatch(strategy, kept, texts) \in Seq(Own)
         /\ Len(GetBatch(strategy, kept, texts)) = Len(kept)
<1> DEFINE n == Len(texts)
           S == {c \in Seq(Own) : Len(c) = Len(kept)}
           G == [k \in 1 .. n |-> [c \in S |-> Touch(strategy, c, texts[k])]]
           Eq(f) == f = [k \in 0 .. n |-> IF k = 0 THEN kept ELSE Touch(strategy, f[k - 1], texts[k])]
<1>1. n \in Nat /\ kept \in S
  OBVIOUS
<1>2. \A c \in S : \A text : Touch(strategy, c, text) \in S
  BY TouchKeeps
<1>a. \A c \in S : c \in Seq(Own) /\ Len(c) = Len(kept)
  OBVIOUS
<1> HIDE DEF n, S
<1>3. StepsOn(S, n, G)
  <2>1. G \in [1 .. n -> [S -> S]]
    BY <1>2
  <2>2. QED
    BY <1>1, <2>1 DEF StepsOn
<1>4. PICK f : /\ f = [k \in 0 .. n |-> IF k = 0 THEN kept ELSE G[k][f[k - 1]]]
               /\ \A k \in 0 .. n : f[k] \in S
  <2> HIDE DEF G
  <2>1. QED
    BY <1>1, <1>3, LoopExists
<1>5. Eq(f)
  <2>1. ASSUME NEW k \in 0 .. n
        PROVE  (IF k = 0 THEN kept ELSE G[k][f[k - 1]])
                 = (IF k = 0 THEN kept ELSE Touch(strategy, f[k - 1], texts[k]))
    <3>1. k # 0 => k \in 1 .. n /\ k - 1 \in 0 .. n
      BY <1>1
    <3>2. QED
      BY <3>1, <1>4
  <2> HIDE DEF G
  <2>2. QED
    BY <1>4, <2>1
<1> DEFINE after == CHOOSE g : Eq(g)
<1>6. Eq(after) /\ GetBatch(strategy, kept, texts) = after[n]
  <2>1. Eq(after)
    <3> HIDE DEF Eq
    <3>1. QED
      BY <1>5
  <2>2. QED
    BY <2>1, Zenon DEF GetBatch, n
<1> HIDE DEF after
<1>7. /\ after[0] = kept
      /\ \A k \in 1 .. n : after[k] = Touch(strategy, after[k - 1], texts[k])
  <2>1. 0 \in 0 .. n /\ \A k \in 1 .. n : k \in 0 .. n /\ k # 0
    BY <1>1
  <2>2. QED
    BY <1>6, <2>1, Zenon
<1> DEFINE T == {k \in 0 .. n : after[k] \in S}
<1>8. 0 \in T
  BY <1>1, <1>7
<1>9. ASSUME NEW k \in 1 .. n, k - 1 \in T PROVE k \in T
  BY <1>1, <1>2, <1>7, <1>9
<1>10. n \in T
  <2>1. \A k \in 0 .. n : k \in T
    <3> HIDE DEF T
    <3>1. QED
      BY <1>1, <1>8, <1>9, AllTurns
  <2>2. QED
    BY <2>1, <1>1
<1>11. QED
  BY <1>6, <1>10, <1>a

(* What is found for a text is the embedding of that text.                 *)
LEMMA FoundIsOwn ==
  ASSUME NEW kept \in Seq(Own), NEW texts \in Seq(Text)
  PROVE  /\ DOMAIN Found(kept, texts) = 1 .. Len(texts)
         /\ \A i \in 1 .. Len(texts) : Found(kept, texts)[i] \subseteq {texts[i]}
<1>1. DOMAIN texts = 1 .. Len(texts)
  OBVIOUS
<1>2. ASSUME NEW i \in 1 .. Len(texts) PROVE Found(kept, texts)[i] \subseteq {texts[i]}
  <2> DEFINE hit == Lookup(kept, texts[i])
             J == {j \in DOMAIN kept : kept[j].text = texts[i]}
  <2>1. Found(kept, texts)[i] = IF hit = <<>> THEN {} ELSE {Head(hit).of}
    BY <1>1 DEF Found
  <2>2. hit \in Seq(Own) /\ hit = Sublist(kept, J)
    BY WithoutAndLookup DEF Lookup
  <2>3. PICK at : Taken(Sublist(kept, J), kept, J, Len(kept), at)
    BY SublistPlaces
  <2>4. \A j \in J : j \in 1 .. Len(kept) /\ kept[j].text = texts[i]
    OBVIOUS
  <2> HIDE DEF hit, J
  <2>5. ASSUME hit # <<>> PROVE Head(hit).of = texts[i]
    <3>1. 1 \in 1 .. Len(hit) /\ Head(hit) = hit[1]
      BY <2>2, <2>5
    <3>2. at[1] \in J /\ hit[1] = kept[at[1]]
      BY <3>1, <2>2, <2>3 DEF Taken
    <3>3. kept[at[1]] \in Own /\ kept[at[1]].text = texts[i]
      BY <3>2, <2>4
    <3>4. QED
      BY <3>1, <3>2, <3>3 DEF Own
  <2>6. QED
    BY <2>1, <2>5
<1>3. QED
  BY <1>1, <1>2 DEF Found

LEMMA PutAllKeeps ==
  ASSUME NEW kept \in Seq(Own), NEW entries \in Seq(Own)
  PROVE  PutAll(kept, entries) \in Seq(Own)
<1> DEFINE n == Len(entries)
           S == Seq(Own)
           G == [k \in 1 .. n |-> [c \in S |-> Put(c, entries[k])]]
           Eq(f) == f = [k \in 0 .. n |-> IF k = 0 THEN kept ELSE Put(f[k - 1], entries[k])]
<1>1. n \in Nat /\ kept \in S /\ \A k \in 1 .. n : entries[k] \in Own
  OBVIOUS
<1>2. \A c \in S : \A e \in Own : Put(c, e) \in S
  <2> SUFFICES ASSUME NEW c \in S, NEW e \in Own PROVE Put(c, e) \in S
    OBVIOUS
  <2>1. Without(c, e.text) \in Seq(Own)
    BY WithoutAndLookup
  <2>2. QED
    BY <2>1 DEF Put
<1> HIDE DEF n, S
<1>3. StepsOn(S, n, G)
  <2>1. G \in [1 .. n -> [S -> S]]
    BY <1>1, <1>2
  <2>2. QED
    BY <1>1, <2>1 DEF StepsOn
<1>4. PICK f : /\ f = [k \in 0 .. n |-> IF k = 0 THEN kept ELSE G[k][f[k - 1]]]
               /\ \A k \in 0 .. n : f[k] \in S
  <2> HIDE DEF G
  <2>1. QED
    BY SMTT(30), <1>1, <1>3, LoopExists
<1>5. Eq(f)
  <2>1. ASSUME NEW k \in 0 .. n
        PROVE  (IF k = 0 THEN kept ELSE G[k][f[k - 1]])
                 = (IF k = 0 THEN kept ELSE Put(f[k - 1], entries[k]))
    <3>1. k # 0 => k \in 1 .. n /\ k - 1 \in 0 .. n
      BY <1>1
    <3>2. QED
      BY <3>1, <1>4
  <2> HIDE DEF G
  <2>2. QED
    BY <1>4, <2>1
<1> DEFINE after == CHOOSE g : Eq(g)
<1>6. Eq(after) /\ PutAll(kept, entries) = after[n]
  <2>1. Eq(after)
    <3> HIDE DEF Eq
    <3>1. QED
      BY <1>5
  <2>2. QED
    BY <2>1, Zenon DEF PutAll, n
<1> HIDE DEF after
<1>7. /\ after[0] = kept
      /\ \A k \in 1 .. n : after[k] = Put(after[k - 1], entries[k])
  <2>1. 0 \in 0 .. n /\ \A k \in 1 .. n : k \in 0 .. n /\ k # 0
    BY <1>1
  <2>2. QED
    BY <1>6, <2>1, Zenon
<1> DEFINE T == {k \in 0 .. n : after[k] \in S}
<1>8. 0 \in T
  BY <1>1, <1>7
<1>9. ASSUME NEW k \in 1 .. n, k - 1 \in T PROVE k \in T
  BY <1>1, <1>2, <1>7, <1>9
<1>10. n \in T
  <2>1. \A k \in 0 .. n : k \in T
    <3> HIDE DEF T
    <3>1. QED
      BY <1>1, <1>8, <1>9, AllTurns
  <2>2. QED
    BY <2>1, <1>1
<1>11. QED
  BY <1>6, <1>10 DEF S

(* As many embeddings as texts are taken for those of the texts: they must *)
(* be.                                                                     *)
LEMMA PutBatchKeeps ==
  ASSUME NEW kept \in Seq(Own), NEW texts \in Seq(Text), NEW embeddings,
         Len(embeddings) = Len(texts) => embeddings = texts
  PROVE  PutBatch(kept, texts, embeddings) \in Seq(Own)
<1>1. CASE Len(texts) # Len(embeddings)
  BY <1>1 DEF PutBatch
<1>2. CASE Len(texts) = Len(embeddings)
  <2> DEFINE entries == [i \in DOMAIN texts |-> CacheEntry(texts[i], embeddings[i])]
  <2>1. embeddings = texts /\ DOMAIN texts = 1 .. Len(texts) /\ Len(texts) \in Nat
    BY <1>2
  <2>2. \A i \in 1 .. Len(texts) : entries[i] \in Own
    BY <2>1 DEF CacheEntry, Own
  <2>3. entries \in Seq(Own)
    <3>1. entries = [i \in 1 .. Len(texts) |-> entries[i]]
      BY <2>1
    <3> HIDE DEF entries
    <3>2. QED
      BY <2>1, <2>2, <3>1
  <2>4. PutAll(kept, entries) \in Seq(Own)
    <3> HIDE DEF entries
    <3>1. QED
      BY <2>3, PutAllKeeps
  <2>5. QED
    BY <2>4, <1>2 DEF PutBatch
<1>3. QED
  BY <1>1, <1>2

(* Eviction leaves no more than MaxSize entries, by each strategy.         *)
LEMMA EvictKeeps ==
  ASSUME NEW strategy, NEW kept \in Seq(Own), NEW c \in EvictIfNeeded(strategy, kept)
  PROVE  c \in Seq(Own) /\ Len(c) <= MaxSize
<1> DEFINE n == Len(kept)
           over == n - MaxSize
<1>1. n \in Nat /\ MaxSize \in Nat
  BY CacheAssumption
<1>2. CASE n <= MaxSize
  <2>1. ~(n > MaxSize)
    BY <1>1, <1>2
  <2>2. EvictIfNeeded(strategy, kept) = {kept}
    BY <2>1, <1>2 DEF EvictIfNeeded
  <2>3. QED
    BY <2>2, <1>2
<1>3. CASE n > MaxSize /\ strategy # "LFU"
  <2>1. ~(n <= MaxSize)
    BY <1>1, <1>3
  <2>2. EvictIfNeeded(strategy, kept) = {SubSeq(kept, over + 1, n)}
    BY <2>1, <1>3 DEF EvictIfNeeded
  <2>3. c = SubSeq(kept, over + 1, n)
    BY <2>2
  <2> DEFINE m == over + 1
  <2>4. m \in Int /\ n \in Int /\ m <= n + 1 /\ n - m + 1 = MaxSize /\ \A i \in m .. n : kept[i] \in Own
    <3>1. m \in Int /\ m >= 1 /\ m <= n + 1 /\ n - m + 1 = MaxSize
      BY <1>1, <1>3
    <3>2. \A i \in m .. n : i \in 1 .. n
      BY <3>1, <1>1
    <3>3. QED
      BY <3>1, <3>2, <1>1
  <2>5. c \in Seq(Own) /\ Len(c) = (IF m <= n THEN n - m + 1 ELSE 0)
    <3>1. c = SubSeq(kept, m, n)
      BY <2>3
    <3> HIDE DEF m, n, over
    <3>2. QED
      BY <2>4, <3>1, SubSeqProperties
  <2> HIDE DEF m, over, n
  <2>6. Len(c) <= MaxSize
    BY <2>4, <2>5, <1>1
  <2>7. QED
    BY <2>5, <2>6
<1>4. CASE n > MaxSize /\ strategy = "LFU"
  <2>1. ~(n <= MaxSize) /\ ~(n > MaxSize /\ strategy # "LFU")
    BY <1>1, <1>4
  <2>2. EvictIfNeeded(strategy, kept) =
          {Sublist(kept, {i \in DOMAIN kept : kept[i] \notin gone}) : gone \in
            {S \in SUBSET ToSet(kept) : Cardinality(S) = over /\
               \A e \in S, f \in ToSet(kept) \ S : e.count <= f.count}}
    BY <2>1 DEF EvictIfNeeded
  <2>3. PICK gone \in SUBSET ToSet(kept) :
          /\ Cardinality(gone) = over
          /\ c = Sublist(kept, {i \in DOMAIN kept : kept[i] \notin gone})
    BY <2>2
  <2> DEFINE I == {i \in DOMAIN kept : kept[i] \notin gone}
             J == {i \in DOMAIN kept : kept[i] \in gone}
             went == Sublist(kept, J)
  <2>4. \A k \in 1 .. Len(kept) : k \in J <=> k \notin I
    OBVIOUS
  <2>5. \A x \in gone : \E i \in 1 .. Len(kept) : i \in J /\ kept[i] = x
    <3> SUFFICES ASSUME NEW x \in gone PROVE \E i \in 1 .. Len(kept) : i \in J /\ kept[i] = x
      OBVIOUS
    <3>1. x \in ToSet(kept)
      BY <2>3
    <3>2. QED
      BY <3>1 DEF ToSet
  <2>6. c = Sublist(kept, I)
    BY <2>3
  <2> HIDE DEF I, J
  <2>7. c \in Seq(Own) /\ went \in Seq(Own) /\ Len(c) + Len(went) = Len(kept)
    BY <2>4, <2>6, HalvesAddUp
  <2>8. \A x \in gone : \E j \in 1 .. Len(went) : went[j] = x
    <3>1. PICK at : Taken(went, kept, J, Len(kept), at)
      BY SublistPlaces
    <3>2. QED
      BY <3>1, <2>5 DEF Taken
  <2> HIDE DEF went, over
  <2>9. Cardinality(gone) <= Len(went)
    BY <2>7, <2>8, ItemsCounted
  <2>10. Len(c) \in Nat /\ Len(went) \in Nat
    BY <2>7
  <2> USE DEF over
  <2>11. QED
    BY <2>3, <2>7, <2>9, <2>10, <1>1
<1>5. QED
  BY <1>1, <1>2, <1>3, <1>4

-----------------------------------------------------------------------------
(* The embedding service: it answers to a part of the texts, in order, and *)
(* an answer as long as the list of texts is to that list.                 *)

(* s is no longer than t's first n items, and as long only if it is them.  *)
AllOrFewer(s, t, n) == Len(s) <= n /\ (Len(s) = n => \A j \in 1 .. n : s[j] = t[j])

LEMMA SublistIsPart ==
  ASSUME NEW S, NEW s \in Seq(S), NEW I
  PROVE  Sublist(s, I) \in Seq(S) /\ AllOrFewer(Sublist(s, I), s, Len(s))
<1> DEFINE n == Len(s)
<1>1. n \in Nat /\ \A k \in 1 .. n : s[k] \in S
  OBVIOUS
<1>2. PICK f : /\ f \in [0 .. n -> Seq(S)] /\ Sublist(s, I) = f[n] /\ f[0] = <<>>
               /\ \A k \in 1 .. n : f[k] = IF k \in I THEN Append(f[k - 1], s[k]) ELSE f[k - 1]
  <2>1. PICK f : Sublists(S, s, I, f)
    BY SublistsExist
  <2>2. QED
    BY <2>1 DEF Sublists
<1> DEFINE T == {k \in 0 .. n : AllOrFewer(f[k], s, k)}
<1> HIDE DEF n
<1>3. 0 \in T
  BY <1>1, <1>2 DEF AllOrFewer
<1>4. ASSUME NEW k \in 1 .. n, k - 1 \in T PROVE k \in T
  <2> DEFINE a == f[k - 1]
  <2>1. k \in Nat /\ k \in 0 .. n /\ k - 1 \in 0 .. n /\ s[k] \in S
    BY <1>1
  <2>2. a \in Seq(S) /\ AllOrFewer(a, s, k - 1)
    BY <2>1, <1>2, <1>4
  <2>3. f[k] = IF k \in I THEN Append(a, s[k]) ELSE a
    BY <1>2
  <2> HIDE DEF a
  <2>4. Len(a) \in Nat
    BY <2>2
  <2>5. AllOrFewer(Append(a, s[k]), s, k)
    <3>1. /\ Len(Append(a, s[k])) = Len(a) + 1
          /\ Append(a, s[k])[Len(a) + 1] = s[k]
          /\ \A j \in 1 .. Len(a) : Append(a, s[k])[j] = a[j]
      BY <2>1, <2>2
    <3>2. QED
      BY <3>1, <2>1, <2>2, <2>4 DEF AllOrFewer
  <2>6. AllOrFewer(a, s, k)
    BY <2>1, <2>2, <2>4 DEF AllOrFewer
  <2>7. QED
    BY <2>1, <2>3, <2>5, <2>6
<1>5. n \in T
  <2>1. \A k \in 0 .. n : k \in T
    <3> HIDE DEF T
    <3>1. QED
      BY <1>1, <1>3, <1>4, AllTurns
  <2>2. QED
    BY <2>1, <1>1
<1>6. n \in 0 .. n
  BY <1>1
<1>7. QED
  BY <1>2, <1>5, <1>6 DEF n

(* A list given by its items.                                              *)
LEMMA ListIs ==
  ASSUME NEW S, NEW n \in Nat, NEW f, f = [i \in 1 .. n |-> f[i]], \A i \in 1 .. n : f[i] \in S
  PROVE  f \in Seq(S) /\ Len(f) = n
OBVIOUS

(* How many batches there are: enough, and none is empty.                  *)
LEMMA Division ==
  ASSUME NEW a \in Nat, NEW b \in Nat \ {0}
  PROVE  a \div b \in Nat /\ (a \div b) * b <= a /\ a < (a \div b) * b + b
<1>1. a = b * (a \div b) + (a % b) /\ a % b \in 0 .. b - 1 /\ a \div b \in Int
  BY Z3
<1>2. QED
  BY <1>1

LEMMA Batches ==
  ASSUME NEW n \in Nat, NEW b \in Nat \ {0}
  PROVE  LET m == (n + b - 1) \div b
         IN /\ m \in Nat /\ n <= m * b
            /\ \A k \in 1 .. m : (k - 1) * b < n
<1> DEFINE m == (n + b - 1) \div b
<1>1. m \in Nat /\ m * b <= n + b - 1 /\ n + b - 1 < m * b + b
  <2>1. n + b - 1 \in Nat
    OBVIOUS
  <2>2. QED
    BY <2>1, Division
<1> HIDE DEF m
<1>2. n <= m * b
  <2>1. m * b \in Nat
    BY <1>1
  <2>2. QED
    BY <2>1, <1>1
<1>3. ASSUME NEW k \in 1 .. m PROVE (k - 1) * b < n
  <2>1. PICK d \in Nat : m = k + d
    <3>1. m - k \in Nat /\ m = k + (m - k)
      BY <1>1
    <3>2. QED
      BY <3>1
  <2>2. m * b = k * b + d * b /\ k * b \in Nat /\ d * b \in Nat /\ (k - 1) * b = k * b - b
    BY <2>1
  <2>3. QED
    BY <2>2, <1>1
<1>4. QED
  BY <1>1, <1>2, <1>3 DEF m

LEMMA BatchIs ==
  ASSUME NEW texts \in Seq(Text), NEW k \in 1 .. Len(CreateBatches(texts))
  PROVE  LET from == (k - 1) * BatchSize
             to   == IF k * BatchSize < Len(texts) THEN k * BatchSize ELSE Len(texts)
         IN /\ from \in Nat /\ to \in Nat /\ from < to /\ from < Len(texts)
            /\ CreateBatches(texts)[k] \in Seq(Text)
            /\ Len(CreateBatches(texts)[k]) = to - from
            /\ \A j \in 1 .. to - from : CreateBatches(texts)[k][j] = texts[from + j]
<1> DEFINE n == Len(texts)
           m == (n + BatchSize - 1) \div BatchSize
           from == (k - 1) * BatchSize
           to == IF k * BatchSize < n THEN k * BatchSize ELSE n
<1>1. n \in Nat /\ BatchSize \in Nat \ {0}
  BY CacheAssumption
<1> HIDE DEF n
<1>2. m \in Nat /\ \A j \in 1 .. m : (j - 1) * BatchSize < n
  BY <1>1, Batches
<1>3. Len(CreateBatches(texts)) = m /\ k \in 1 .. m /\ CreateBatches(texts)[k] = Batch(texts, k)
  <2>1. CreateBatches(texts) = [j \in 1 .. m |-> Batch(texts, j)]
    BY DEF CreateBatches, n
  <2> HIDE DEF m
  <2>2. Len(CreateBatches(texts)) = m
    BY <2>1, <1>2
  <2>3. QED
    BY <2>1, <2>2
<1> HIDE DEF m
<1>4. from \in Nat /\ k * BatchSize = from + BatchSize /\ from < n
  BY <1>1, <1>2, <1>3
<1>5. Batch(texts, k) = SubSeq(texts, from + 1, to)
  BY DEF Batch, n
<1>6. to \in Nat /\ from < to /\ to <= n
  <2> HIDE DEF from
  <2>1. k * BatchSize \in Nat
    BY <1>1, <1>4
  <2>2. QED
    BY <1>1, <1>4, <2>1
<1> HIDE DEF from, to
<1> DEFINE a == from + 1
<1>7. a \in Int /\ to \in Int /\ \A i \in a .. to : texts[i] \in Text
  BY <1>1, <1>4, <1>6 DEF n
<1> HIDE DEF a
<1>8. /\ SubSeq(texts, a, to) \in Seq(Text)
      /\ Len(SubSeq(texts, a, to)) = (IF a <= to THEN to - a + 1 ELSE 0)
      /\ \A i \in 1 .. to - a + 1 : SubSeq(texts, a, to)[i] = texts[a + i - 1]
  BY <1>7, SubSeqProperties
<1>9. a = from + 1 /\ a <= to /\ to - a + 1 = to - from /\ \A i \in Nat : a + i - 1 = from + i
  BY <1>4, <1>6 DEF a
<1>10. QED
  <2>1. /\ SubSeq(texts, a, to) = CreateBatches(texts)[k]
        /\ \A i \in 1 .. to - from : i \in Nat
    BY <1>3, <1>5, <1>6, <1>4, <1>9
  <2>2. /\ CreateBatches(texts)[k] \in Seq(Text)
        /\ Len(CreateBatches(texts)[k]) = to - from
    BY <1>8, <1>9, <2>1
  <2>3. \A j \in 1 .. to - from : CreateBatches(texts)[k][j] = texts[from + j]
    BY <1>8, <1>9, <2>1
  <2>4. from < Len(texts)
    BY <1>4 DEF n
  <2>5. QED
    BY <1>4, <1>6, <2>2, <2>3, <2>4 DEF from, to, n

LEMMA CallApiIsPart ==
  ASSUME NEW provider, NEW texts \in Seq(Text)
  PROVE  CallApi(provider, texts) \in Seq(Text) /\ AllOrFewer(CallApi(provider, texts), texts, Len(texts))
<1>1. AllOrFewer(texts, texts, Len(texts))
  BY DEF AllOrFewer
<1>2. Valid(texts) \in Seq(Text) /\ AllOrFewer(Valid(texts), texts, Len(texts))
  BY SublistIsPart DEF Valid
<1>3. QED
  BY <1>1, <1>2 DEF CallApi

(* What the answers to the batches make up, however long the list.         *)
LEMMA EmbeddingsArePart ==
  ASSUME NEW provider, NEW texts \in Seq(Text)
  PROVE  /\ GenerateEmbeddings(provider, texts) \in Seq(Text)
         /\ Len(GenerateEmbeddings(provider, texts)) <= Len(texts)
         /\ Len(GenerateEmbeddings(provider, texts)) = Len(texts)
              => GenerateEmbeddings(provider, texts) = texts
<1> DEFINE n == Len(texts)
           batches == CreateBatches(texts)
           m == Len(batches)
           ss == [k \in DOMAIN batches |-> CallApi(provider, batches[k])]
           End(k) == IF k * BatchSize < n THEN k * BatchSize ELSE n
<1>1. n \in Nat /\ BatchSize \in Nat \ {0}
  BY CacheAssumption
<1>2. m \in Nat /\ n <= m * BatchSize /\ DOMAIN batches = 1 .. m
  <2> DEFINE d == (n + BatchSize - 1) \div BatchSize
  <2>1. d \in Nat /\ n <= d * BatchSize
    <3> HIDE DEF n
    <3>1. QED
      BY <1>1, Batches
  <2>2. batches = [j \in 1 .. d |-> Batch(texts, j)]
    BY DEF CreateBatches
  <2> HIDE DEF d, batches, n
  <2>3. m = d /\ DOMAIN batches = 1 .. d
    BY <2>1, <2>2
  <2>4. QED
    BY <2>1, <2>3
<1>3. ASSUME NEW k \in 1 .. m
      PROVE  /\ (k - 1) * BatchSize \in Nat /\ End(k) \in Nat
             /\ End(k - 1) = (k - 1) * BatchSize /\ End(k - 1) < End(k)
             /\ batches[k] \in Seq(Text) /\ Len(batches[k]) = End(k) - End(k - 1)
             /\ \A j \in 1 .. End(k) - End(k - 1) : batches[k][j] = texts[End(k - 1) + j]
  <2> DEFINE from == (k - 1) * BatchSize
             to == IF k * BatchSize < n THEN k * BatchSize ELSE n
  <2>1. /\ from \in Nat /\ to \in Nat /\ from < to /\ from < n
        /\ batches[k] \in Seq(Text) /\ Len(batches[k]) = to - from
        /\ \A j \in 1 .. to - from : batches[k][j] = texts[from + j]
    BY BatchIs
  <2>2. End(k) = to /\ End(k - 1) = from
    BY <2>1
  <2> HIDE DEF from, to, End, batches, n
  <2>3. QED
    BY <2>1, <2>2 DEF from
<1> HIDE DEF batches, n, m
<1>4. \A k \in 1 .. m : ss[k] \in Seq(Text) /\ AllOrFewer(ss[k], batches[k], Len(batches[k]))
  BY <1>2, <1>3, CallApiIsPart
<1>5. ss \in Seq(Seq(Text)) /\ Len(ss) = m
  <2>1. ss = [k \in 1 .. m |-> ss[k]] /\ \A k \in 1 .. m : ss[k] \in Seq(Text)
    BY <1>2, <1>4
  <2> HIDE DEF ss
  <2>2. QED
    BY <1>2, <2>1, ListIs, Zenon
<1> HIDE DEF ss
<1>6. PICK flat : /\ flat \in [0 .. m -> Seq(Text)] /\ FlattenSeq(ss) = flat[m] /\ flat[0] = <<>>
                  /\ \A k \in 1 .. m : flat[k] = flat[k - 1] \o ss[k]
  <2>1. PICK flat \in [0 .. Len(ss) -> Seq(Text)] :
           /\ FlattenSeq(ss) = flat[Len(ss)]
           /\ flat[0] = <<>>
           /\ \A k \in 1 .. Len(ss) : flat[k] = flat[k - 1] \o ss[k]
    BY <1>5, FlattenByStep, Zenon
  <2>2. QED
    BY <2>1, <1>5
<1> DEFINE T == {k \in 0 .. m : AllOrFewer(flat[k], texts, End(k))}
<1>7. End(0) = 0
  BY <1>1
<1>8. 0 \in T
  BY <1>2, <1>6, <1>7 DEF AllOrFewer
<1>9. ASSUME NEW k \in 1 .. m, k - 1 \in T PROVE k \in T
  <2> DEFINE a == flat[k - 1]
             s == ss[k]
             x == End(k - 1)
             y == End(k)
             t == batches[k]
  <2>1. k \in 0 .. m /\ k - 1 \in 0 .. m
    BY <1>2
  <2>2. /\ a \in Seq(Text) /\ AllOrFewer(a, texts, x) /\ s \in Seq(Text) /\ AllOrFewer(s, t, Len(t))
        /\ flat[k] = a \o s
    BY <2>1, <1>4, <1>6, <1>9
  <2>3. /\ x \in Nat /\ y \in Nat /\ x < y /\ Len(t) = y - x
        /\ \A j \in 1 .. y - x : t[j] = texts[x + j]
    BY <1>3
  <2> HIDE DEF a, s, x, y, t, End
  <2> DEFINE c == a \o s
             u == Len(a)
             v == Len(s)
  <2>4. /\ Len(c) = u + v /\ u \in Nat /\ v \in Nat
        /\ \A j \in 1 .. u : c[j] = a[j]
        /\ \A j \in 1 .. v : c[u + j] = s[j]
    BY <2>2
  <2>5. AllOrFewer(c, texts, y)
    <3>1. u <= x /\ v <= y - x
      BY <2>2, <2>3 DEF AllOrFewer
    <3> HIDE DEF c, u, v
    <3>2. ASSUME Len(c) = y PROVE \A j \in 1 .. y : c[j] = texts[j]
      <4>1. u = x /\ v = y - x
        BY <3>1, <3>2, <2>3, <2>4
      <4>2. /\ \A j \in 1 .. x : a[j] = texts[j]
            /\ \A j \in 1 .. y - x : s[j] = texts[x + j]
        BY <4>1, <2>2, <2>3 DEF AllOrFewer, u, v
      <4>3. SUFFICES ASSUME NEW j \in 1 .. y PROVE c[j] = texts[j]
        OBVIOUS
      <4>4. CASE j <= x
        BY <4>1, <4>2, <4>4, <2>3, <2>4
      <4>5. CASE j > x
        <5>1. PICK i \in 1 .. y - x : x + i = j
          <6>1. j - x \in 1 .. y - x /\ x + (j - x) = j
            BY <4>5, <2>3
          <6>2. QED
            BY <6>1
        <5>2. s[i] = texts[x + i] /\ c[x + i] = s[i]
          BY <4>1, <4>2, <2>4
        <5>3. QED
          BY <5>1, <5>2
      <4>6. QED
        BY <4>4, <4>5, <2>3
    <3>3. Len(c) <= y
      BY <3>1, <2>3, <2>4
    <3>4. QED
      BY <3>2, <3>3 DEF AllOrFewer
  <2>6. QED
    BY <2>1, <2>2, <2>5 DEF y
<1>10. m \in T
  <2>1. \A k \in 0 .. m : k \in T
    <3> HIDE DEF T
    <3>1. QED
      BY <1>2, <1>8, <1>9, AllTurns
  <2>2. QED
    BY <2>1, <1>2
<1>11. End(m) = n /\ m \in 0 .. m
  <2>1. m * BatchSize \in Nat
    BY <1>1, <1>2
  <2>2. QED
    BY <2>1, <1>1, <1>2
<1> HIDE DEF End
<1>12. AllOrFewer(flat[m], texts, n) /\ flat[m] \in Seq(Text)
  BY <1>6, <1>10, <1>11
<1>13. Len(flat[m]) = n => flat[m] = texts
  <2>1. SUFFICES ASSUME Len(flat[m]) = n PROVE flat[m] = texts
    OBVIOUS
  <2>2. /\ flat[m] \in Seq(Text) /\ texts \in Seq(Text) /\ Len(texts) = n
        /\ \A j \in 1 .. n : flat[m][j] = texts[j]
    BY <2>1, <1>12 DEF AllOrFewer, n
  <2>3. QED
    BY <2>1, <2>2
<1>14. GenerateEmbeddings(provider, texts) = flat[m]
  BY <1>6 DEF GenerateEmbeddings, ss, batches
<1>15. QED
  BY <1>12, <1>13, <1>14 DEF AllOrFewer, n

-----------------------------------------------------------------------------
(* What the system keeps: its data are of texts, and what the service has  *)
(* answered a task is no longer than what the task has asked, and as long  *)
(* only if it is that.                                                     *)

Pcs   == {"idle", "ask", "insert", "evict", "copy", "truncate", "write", "done",
          "storing", "clearing"}
Modes == {"none", "add", "directory", "reload", "clear"}
Jobs  == [pc : Pcs, texts : Seq(Text), found : Seq(SUBSET Text), got : Seq(Text), copy : Seq(Own)]

Works == [mode : Modes, lists : Seq(Seq(Text)), chunks : Seq(Text), next : Nat,
          hangs : BOOLEAN]

MissingOf(j) == Sublist(j.texts, {i \in DOMAIN j.texts : j.found[i] = {}})

JobFits(j) ==
  /\ Len(j.found) = Len(j.texts)
  /\ \A i \in 1 .. Len(j.texts) : j.found[i] \subseteq {j.texts[i]}
  /\ Len(j.got) <= Len(MissingOf(j))
  /\ Len(j.got) = Len(MissingOf(j)) => j.got = MissingOf(j)

JobsFit == job \in [Tasks -> Jobs] /\ \A t \in Tasks : JobFits(job[t])

DataFit ==
  /\ setup \in Setups /\ cache \in Seq(Own) /\ loaded \in Nat /\ documents \in Seq(Text)
  /\ work \in Works
  /\ cacheFile.entries \in Seq(Own)
  /\ systemFile.state = "full" => systemFile.entries.documents \in Seq(Text)

(* A system that is down does nothing; what the writer embeds is what it   *)
(* stores; and a system that is loaded embeds again, one by one, the last  *)
(* of its documents.                                                       *)
Busy == job[Writer].pc \notin {"idle", "clearing"}

WorkFits ==
  /\ up = "down" => work = NoWork /\ \A t \in Tasks : job[t] = Idle
  /\ job[Writer].pc = "clearing" => documents = <<>>
  /\ Busy => /\ work.mode \in {"add", "directory", "reload"}
             /\ work.chunks = job[Writer].texts /\ work.next # 0

Again ==
  LET from == Len(documents) - Len(work.lists)
  IN work.mode = "reload" =>
       /\ from \in Nat
       /\ \A i \in 1 .. Len(work.lists) : work.lists[i] = <<documents[from + i]>>
       /\ Busy => from # 0 /\ work.chunks = <<documents[from]>>

IInv == DataFit /\ JobsFit /\ WorkFits /\ Again

-----------------------------------------------------------------------------
(* One task's job changes. *)

LEMMA NothingMissed ==
  ASSUME NEW j, j.texts = <<>>
  PROVE  MissingOf(j) = <<>>
<1> DEFINE I == {i \in DOMAIN j.texts : j.found[i] = {}}
<1>1. <<>> \in Seq(Text) /\ MissingOf(j) = Sublist(<<>>, I)
  BY DEF MissingOf
<1> HIDE DEF I
<1>2. Sublist(<<>>, I) \in Seq(Text) /\ Len(Sublist(<<>>, I)) <= Len(<<>>)
  BY <1>1, SublistIsPart DEF AllOrFewer
<1>3. QED
  BY <1>1, <1>2

LEMMA MissingIs ==
  ASSUME NEW j \in Jobs
  PROVE  MissingOf(j) \in Seq(Text) /\ Len(MissingOf(j)) \in Nat
<1>1. j.texts \in Seq(Text)
  BY DEF Jobs
<1>2. QED
  BY <1>1, SublistIsPart DEF MissingOf

LEMMA IdleFits == Idle \in Jobs /\ JobFits(Idle)
<1>1. MissingOf(Idle) = <<>>
  BY NothingMissed DEF Idle
<1>2. <<>> \in Seq(Text) /\ <<>> \in Seq(Own) /\ <<>> \in Seq(SUBSET Text) /\ "idle" \in Pcs
  BY DEF Pcs
<1>3. Idle \in Jobs
  BY <1>2 DEF Idle, Jobs
<1>4. Len(<<>>) = 0 /\ \A i \in 1 .. 0 : FALSE
  OBVIOUS
<1>5. JobFits(Idle)
  BY <1>1, <1>4 DEF JobFits, Idle
<1>6. QED
  BY <1>3, <1>5

LEMMA OneJob ==
  ASSUME JobsFit, NEW t \in Tasks, NEW j \in Jobs, JobFits(j), job' = [job EXCEPT ![t] = j]
  PROVE  JobsFit' /\ job'[t] = j /\ \A u \in Tasks : u # t => job'[u] = job[u]
<1>1. /\ job \in [Tasks -> Jobs] /\ \A u \in Tasks : JobFits(job[u])
  BY DEF JobsFit
<1>2. job' \in [Tasks -> Jobs] /\ job'[t] = j /\ \A u \in Tasks : u # t => job'[u] = job[u]
  BY <1>1
<1>3. \A u \in Tasks : JobFits(job'[u])
  BY <1>1, <1>2, Zenon
<1>4. QED
  BY <1>2, <1>3 DEF JobsFit

(* What a job is about does not change with its place.                     *)
LEMMA PlaceOnly ==
  ASSUME NEW j \in Jobs, NEW k \in Jobs, JobFits(j),
         k.texts = j.texts, k.found = j.found, k.got = j.got
  PROVE  JobFits(k)
BY DEF JobFits, MissingOf

LEMMA JobGoes ==
  ASSUME JobsFit, NEW t \in Tasks, NEW pc \in Pcs, GoTo(t, pc)
  PROVE  /\ JobsFit' /\ job'[t] = [job[t] EXCEPT !.pc = pc]
         /\ job'[t].pc = pc /\ job'[t].texts = job[t].texts
         /\ \A u \in Tasks : u # t => job'[u] = job[u]
<1> DEFINE j == job[t]
           k == [j EXCEPT !.pc = pc]
<1>1. j \in Jobs /\ JobFits(j)
  BY DEF JobsFit
<1>2. job' = [job EXCEPT ![t] = k]
  BY DEF GoTo
<1> HIDE DEF j
<1>3. k \in Jobs /\ k.texts = j.texts /\ k.found = j.found /\ k.got = j.got /\ k.pc = pc
  BY <1>1 DEF Jobs
<1> HIDE DEF k
<1>4. JobFits(k)
  BY <1>1, <1>3, PlaceOnly
<1>5. JobsFit' /\ job'[t] = k /\ \A u \in Tasks : u # t => job'[u] = job[u]
  BY <1>2, <1>3, <1>4, OneJob
<1>6. QED
  BY <1>3, <1>5 DEF j, k

LEMMA JobEnds ==
  ASSUME JobsFit, NEW t \in Tasks, job' = [job EXCEPT ![t] = Idle]
  PROVE  /\ JobsFit' /\ job'[t] = Idle /\ job'[t].pc = "idle"
         /\ \A u \in Tasks : u # t => job'[u] = job[u]
<1>1. JobsFit' /\ job'[t] = Idle /\ \A u \in Tasks : u # t => job'[u] = job[u]
  BY IdleFits, OneJob
<1>2. QED
  BY <1>1 DEF Idle

LEMMA AllEnd ==
  ASSUME job' = [t \in Tasks |-> Idle]
  PROVE  JobsFit' /\ \A t \in Tasks : job'[t] = Idle /\ job'[t].pc = "idle"
<1>1. \A t \in Tasks : job'[t] = Idle
  OBVIOUS
<1>2. job' \in [Tasks -> Jobs]
  BY IdleFits
<1>3. Idle.pc = "idle"
  BY DEF Idle
<1>4. QED
  BY <1>1, <1>2, <1>3, IdleFits, Zenon DEF JobsFit

(* A new call asks the cache, which keeps its entries.                     *)
LEMMA BeginFits ==
  ASSUME JobsFit, cache \in Seq(Own), NEW t \in Tasks, NEW texts \in Seq(Text), Begin(t, texts)
  PROVE  /\ JobsFit' /\ cache' \in Seq(Own) /\ Len(cache') = Len(cache)
         /\ job'[t].texts = texts /\ job'[t].pc \in {"ask", "done"}
         /\ \A u \in Tasks : u # t => job'[u] = job[u]
<1> DEFINE n == Len(texts)
           found == IF setup.cached THEN Found(cache, texts) ELSE [i \in DOMAIN texts |-> {}]
           pc == IF {} \in ToSet(found) THEN "ask" ELSE "done"
           j == [Idle EXCEPT !.texts = texts, !.found = found, !.pc = pc]
<1>1. n \in Nat /\ DOMAIN texts = 1 .. n /\ \A i \in 1 .. n : texts[i] \in Text
  OBVIOUS
<1>2. /\ cache' = IF setup.cached THEN GetBatch(setup.strategy, cache, texts) ELSE cache
      /\ job' = [job EXCEPT ![t] = j]
  BY DEF Begin
<1>3. cache' \in Seq(Own) /\ Len(cache') = Len(cache)
  BY <1>2, GetBatchKeeps
<1>4. DOMAIN found = 1 .. n /\ \A i \in 1 .. n : found[i] \subseteq {texts[i]}
  BY <1>1, FoundIsOwn
<1>a. found = [i \in 1 .. n |-> found[i]]
  <2>1. CASE setup.cached
    <3> DEFINE R(i) == LET hit == Lookup(cache, texts[i]) IN IF hit = <<>> THEN {} ELSE {Head(hit).of}
    <3>1. found = [i \in 1 .. n |-> R(i)]
      BY <2>1, <1>1 DEF Found
    <3> HIDE DEF R, found
    <3>2. QED
      BY <3>1
  <2>2. CASE ~setup.cached
    BY <2>2, <1>1
  <2>3. QED
    BY <2>1, <2>2
<1> HIDE DEF found, n
<1>5. found \in Seq(SUBSET Text) /\ Len(found) = n
  <2>1. \A i \in 1 .. n : found[i] \in SUBSET Text
    BY <1>1, <1>4
  <2>2. QED
    BY SMTT(30), <1>1, <1>a, <2>1
<1>6. pc \in {"ask", "done"} /\ pc \in Pcs
  BY DEF Pcs
<1> HIDE DEF pc
<1>7. j \in Jobs /\ j.texts = texts /\ j.found = found /\ j.got = <<>> /\ j.pc = pc
  <2>1. <<>> \in Seq(Text) /\ <<>> \in Seq(Own)
    OBVIOUS
  <2>2. QED
    BY <2>1, <1>5, <1>6 DEF Jobs, Idle
<1> HIDE DEF j
<1>8. JobFits(j)
  <2>1. MissingOf(j) \in Seq(Text) /\ Len(MissingOf(j)) \in Nat
    BY <1>7, MissingIs
  <2>2. Len(<<>>) = 0
    OBVIOUS
  <2>3. Len(j.got) <= Len(MissingOf(j)) /\ (Len(j.got) = Len(MissingOf(j)) => j.got = MissingOf(j))
    BY <2>1, <2>2, <1>7
  <2>4. QED
    BY <2>3, <1>4, <1>5, <1>7 DEF JobFits, n
<1>9. JobsFit' /\ job'[t] = j /\ \A u \in Tasks : u # t => job'[u] = job[u]
  BY <1>2, <1>7, <1>8, OneJob
<1>10. QED
  BY <1>3, <1>6, <1>7, <1>9

-----------------------------------------------------------------------------
(* What the writer has to do changes. *)

LEMMA WriterIsTask == Writer \in Tasks /\ \A t \in Readers : t \in Tasks /\ t # Writer
BY RetrievalAssumption DEF Tasks

LEMMA NoWorkIs == NoWork \in Works /\ NoWork.mode = "none" /\ NoWork.lists = <<>> /\ NoWork.chunks = <<>>
<1>1. <<>> \in Seq(Text) /\ <<>> \in Seq(Seq(Text)) /\ "none" \in Modes
  BY DEF Modes
<1>2. QED
  BY <1>1 DEF NoWork, Works

LEMMA NotDown ==
  ASSUME WorkFits, NEW t \in Tasks, job[t].pc # "idle"
  PROVE  up # "down"
BY DEF WorkFits, Idle

(* A task goes on with its call, or ends it.                               *)
LEMMA TaskStays ==
  ASSUME WorkFits, Again, NEW t \in Tasks, UNCHANGED <<up, documents, work>>, up # "down",
         job'[t].pc # "clearing",
         t = Writer => job'[t].pc = "idle" \/ (Busy /\ job'[t].texts = job[t].texts),
         \A u \in Tasks : u # t => job'[u] = job[u]
  PROVE  WorkFits' /\ Again'
<1>1. up' = up /\ documents' = documents /\ work' = work
  OBVIOUS
<1>2. CASE t = Writer
  <2>1. Busy' => Busy /\ job'[Writer].texts = job[Writer].texts
    BY <1>2 DEF Busy
  <2>2. job'[Writer].pc # "clearing"
    BY <1>2
  <2>3. WorkFits'
    BY <1>1, <2>1, <2>2 DEF WorkFits
  <2>4. Again'
    BY <1>1, <2>1 DEF Again
  <2>5. QED
    BY <2>3, <2>4
<1>3. CASE t # Writer
  <2>1. job'[Writer] = job[Writer]
    BY <1>3, WriterIsTask
  <2>2. (Busy' <=> Busy) /\ job'[Writer].texts = job[Writer].texts /\ job'[Writer].pc = job[Writer].pc
    BY <2>1 DEF Busy
  <2>3. WorkFits'
    BY <1>1, <2>2 DEF WorkFits
  <2>4. Again'
    BY <1>1, <2>2 DEF Again
  <2>5. QED
    BY <2>3, <2>4
<1>4. QED
  BY <1>2, <1>3

(* The writer is done with a document, or with all of them.                *)
LEMMA WriterRests ==
  ASSUME WorkFits, Again, up' # "down", job'[Writer].pc = "idle",
         work'.mode = "none" \/ (work'.mode = work.mode /\ work'.lists = work.lists),
         documents' = documents \/ work.mode # "reload"
  PROVE  WorkFits' /\ Again'
<1>1. ~Busy' /\ job'[Writer].pc # "clearing"
  BY DEF Busy
<1>2. WorkFits'
  BY <1>1 DEF WorkFits
<1>3. Again'
  BY <1>1 DEF Again
<1>4. QED
  BY <1>2, <1>3

LEMMA NextChunkFits ==
  ASSUME DataFit, JobsFit, WorkFits, Again, Busy, NextChunk, up' = up,
         documents' = documents \/ work.mode # "reload"
  PROVE  JobsFit' /\ work' \in Works /\ WorkFits' /\ Again'
<1>1. /\ Writer \in Tasks /\ work \in Works /\ up # "down"
      /\ work.chunks = job[Writer].texts /\ work.next # 0
      /\ work.mode \in {"add", "directory", "reload"}
  BY WriterIsTask, NotDown DEF DataFit, WorkFits, Busy
<1>2. CASE work.next < ToStore
  <2>1. work' = [work EXCEPT !.next = @ + 1] /\ GoTo(Writer, "done")
    BY <1>2 DEF NextChunk
  <2>2. JobsFit' /\ job'[Writer].pc = "done" /\ job'[Writer].texts = job[Writer].texts
    BY <1>1, <2>1, JobGoes DEF Pcs
  <2>3. /\ work' \in Works /\ work'.mode = work.mode /\ work'.lists = work.lists
        /\ work'.chunks = work.chunks /\ work'.next = work.next + 1 /\ work.next \in Nat
    <3> DEFINE n == work.next + 1
    <3>1. work.next \in Nat /\ n \in Nat
      BY <1>1 DEF Works
    <3>2. work' = [work EXCEPT !.next = n]
      BY <2>1
    <3> HIDE DEF n
    <3>3. /\ work' \in Works /\ work'.mode = work.mode /\ work'.lists = work.lists
          /\ work'.chunks = work.chunks /\ work'.next = n
      BY <1>1, <3>1, <3>2 DEF Works
    <3>4. QED
      BY <3>1, <3>3 DEF n
  <2>4. Busy' /\ job'[Writer].pc # "clearing"
    BY <2>2 DEF Busy
  <2>5. WorkFits'
    BY <1>1, <2>2, <2>3, <2>4 DEF WorkFits
  <2>6. Again'
    BY <2>3, <2>4 DEF Again
  <2>7. QED
    BY <2>2, <2>3, <2>5, <2>6
<1>3. CASE ~(work.next < ToStore)
  <2>1. work' = [work EXCEPT !.chunks = <<>>, !.next = 0] /\ job' = [job EXCEPT ![Writer] = Idle]
    BY <1>3 DEF NextChunk
  <2>2. JobsFit' /\ job'[Writer].pc = "idle"
    BY <1>1, <2>1, JobEnds
  <2>3. work' \in Works /\ work'.mode = work.mode /\ work'.lists = work.lists
    <3>1. <<>> \in Seq(Text)
      OBVIOUS
    <3>2. QED
      BY <1>1, <2>1, <3>1 DEF Works
  <2>4. WorkFits' /\ Again'
    BY <1>1, <2>2, <2>3, WriterRests
  <2>5. QED
    BY <2>2, <2>3, <2>4
<1>4. QED
  BY <1>2, <1>3

LEMMA ForgetFits ==
  ASSUME DataFit, Forget, UNCHANGED fileVars, setup' = setup
  PROVE  IInv'
<1>1. JobsFit' /\ \A t \in Tasks : job'[t] = Idle /\ job'[t].pc = "idle"
  BY AllEnd DEF Forget
<1>2. /\ up' = "down" /\ work' = NoWork /\ cache' = <<>> /\ loaded' = 0 /\ documents' = <<>>
      /\ cacheFile' = cacheFile /\ systemFile' = systemFile
  BY DEF Forget, fileVars
<1>3. DataFit'
  BY <1>2, NoWorkIs DEF DataFit
<1>4. ~Busy' /\ job'[Writer].pc # "clearing"
  BY <1>1, WriterIsTask DEF Busy
<1>5. WorkFits' /\ Again'
  BY <1>1, <1>2, <1>4, NoWorkIs DEF WorkFits, Again
<1>6. QED
  BY <1>1, <1>3, <1>5 DEF IInv

LEMMA GiveUpFits ==
  ASSUME IInv, job[Writer].pc # "idle", job[Writer].pc # "clearing", GiveUp,
         UNCHANGED <<setup, split, fileVars>>, work.mode \in {"add", "directory", "reload"}
  PROVE  IInv'
<1>1. /\ Writer \in Tasks /\ work \in Works /\ up # "down" /\ DataFit /\ JobsFit /\ WorkFits /\ Again
  BY WriterIsTask, NotDown DEF IInv, DataFit
<1>2. CASE work.mode = "reload"
  <2>1. Forget
    BY <1>2 DEF GiveUp
  <2>2. QED
    BY <1>1, <2>1, ForgetFits
<1>3. CASE work.mode \in {"add", "directory"}
  <2>1. /\ job' = [job EXCEPT ![Writer] = Idle] /\ UNCHANGED <<up, memoryVars>>
        /\ work' = IF work.mode = "add" THEN NoWork ELSE [work EXCEPT !.chunks = <<>>, !.next = 0]
    BY <1>3 DEF GiveUp
  <2>2. JobsFit' /\ job'[Writer].pc = "idle"
    BY <1>1, <2>1, JobEnds
  <2>3. /\ work' \in Works
        /\ work'.mode = "none" \/ (work'.mode = work.mode /\ work'.lists = work.lists)
    <3>1. <<>> \in Seq(Text)
      OBVIOUS
    <3>2. [work EXCEPT !.chunks = <<>>, !.next = 0] \in Works
      BY <1>1, <3>1 DEF Works
    <3>3. /\ [work EXCEPT !.chunks = <<>>, !.next = 0].mode = work.mode
          /\ [work EXCEPT !.chunks = <<>>, !.next = 0].lists = work.lists
      BY <1>1 DEF Works
    <3>4. QED
      BY <2>1, <3>2, <3>3, NoWorkIs, Zenon
  <2>4. WorkFits' /\ Again'
    BY <1>1, <1>3, <2>1, <2>2, <2>3, WriterRests DEF memoryVars
  <2>5. DataFit'
    BY <1>1, <2>1, <2>3 DEF DataFit, memoryVars, fileVars
  <2>6. QED
    BY <2>2, <2>4, <2>5 DEF IInv
<1>4. QED
  BY <1>2, <1>3

-----------------------------------------------------------------------------
(* Each action keeps it. *)

LEMMA InitFits == Init => IInv
<1> SUFFICES ASSUME Init PROVE IInv
  OBVIOUS
<1>1. job = [t \in Tasks |-> Idle] /\ \A t \in Tasks : job[t] = Idle
  BY DEF Init
<1>2. job \in [Tasks -> Jobs]
  BY <1>1, IdleFits
<1>3. JobsFit
  BY <1>1, <1>2, IdleFits, Zenon DEF JobsFit
<1>4. <<>> \in Seq(Own) /\ <<>> \in Seq(Text)
  OBVIOUS
<1>5. DataFit
  BY <1>4, NoWorkIs DEF Init, DataFit, NoFile
<1>6. job[Writer].pc = "idle"
  BY <1>1, WriterIsTask DEF Idle
<1>7. WorkFits /\ Again
  BY <1>1, <1>6, NoWorkIs DEF Init, WorkFits, Again, Busy
<1>8. QED
  BY <1>3, <1>5, <1>7 DEF IInv

LEMMA ServiceAnswersFits ==
  ASSUME IInv, NEW t \in Tasks, ServiceAnswers(t)
  PROVE  IInv'
<1> DEFINE j == job[t]
           got == GenerateEmbeddings(setup.provider, MissingTexts(t))
           pc == IF setup.cached THEN "insert" ELSE "done"
           k == [j EXCEPT !.pc = pc, !.got = got]
<1>1. DataFit /\ JobsFit /\ WorkFits /\ Again /\ j \in Jobs /\ JobFits(j) /\ j.pc = "ask"
  BY DEF IInv, JobsFit, ServiceAnswers
<1>2. MissingTexts(t) = MissingOf(j)
  BY DEF MissingTexts, Missed, MissingOf
<1>3. MissingOf(j) \in Seq(Text) /\ Len(MissingOf(j)) \in Nat
  BY <1>1, MissingIs
<1>4. /\ got \in Seq(Text) /\ Len(got) <= Len(MissingOf(j))
      /\ Len(got) = Len(MissingOf(j)) => got = MissingOf(j)
  BY <1>2, <1>3, EmbeddingsArePart
<1>5. pc \in Pcs /\ pc # "idle" /\ pc # "clearing"
  BY DEF Pcs
<1>6. job' = [job EXCEPT ![t] = k]
  BY DEF ServiceAnswers
<1>7. UNCHANGED <<setup, split, up, memoryVars, work, fileVars>>
  BY DEF ServiceAnswers
<1> HIDE DEF j, got, pc
<1>8. k \in Jobs /\ k.texts = j.texts /\ k.found = j.found /\ k.got = got /\ k.pc = pc
  BY <1>1, <1>4, <1>5 DEF Jobs
<1> HIDE DEF k
<1>9. JobFits(k)
  <2>1. MissingOf(k) = MissingOf(j)
    BY <1>8 DEF MissingOf
  <2>2. QED
    BY <1>1, <1>4, <1>8, <2>1 DEF JobFits
<1>10. JobsFit' /\ job'[t] = k /\ \A u \in Tasks : u # t => job'[u] = job[u]
  BY <1>1, <1>6, <1>8, <1>9, OneJob
<1>11. up # "down" /\ (t = Writer => Busy)
  BY <1>1, NotDown DEF j, Busy
<1>12. WorkFits' /\ Again'
  BY <1>1, <1>5, <1>7, <1>8, <1>10, <1>11, TaskStays DEF memoryVars, j
<1>13. DataFit'
  BY <1>1, <1>7 DEF DataFit, memoryVars, fileVars
<1>14. QED
  BY <1>10, <1>12, <1>13 DEF IInv

(* A task goes to another place of its call.                               *)
LEMMA TaskGoes ==
  ASSUME JobsFit, WorkFits, Again, NEW t \in Tasks, NEW pc \in Pcs \ {"clearing"}, GoTo(t, pc),
         UNCHANGED <<up, documents, work>>, up # "down",
         t = Writer => Busy
  PROVE  JobsFit' /\ WorkFits' /\ Again'
<1>1. /\ JobsFit' /\ job'[t].pc = pc /\ job'[t].texts = job[t].texts
      /\ \A u \in Tasks : u # t => job'[u] = job[u]
  BY JobGoes
<1>2. WorkFits' /\ Again'
  BY <1>1, TaskStays
<1>3. QED
  BY <1>1, <1>2

LEMMA InsertFits ==
  ASSUME IInv, NEW t \in Tasks, Insert(t)
  PROVE  IInv'
<1> DEFINE pc == IF Len(MissingTexts(t)) = Len(job[t].got) THEN "evict" ELSE "done"
<1>1. DataFit /\ JobsFit /\ WorkFits /\ Again /\ job[t] \in Jobs /\ JobFits(job[t])
  BY DEF IInv, JobsFit
<1>2. MissingTexts(t) = MissingOf(job[t])
  BY DEF MissingTexts, Missed, MissingOf
<1>3. MissingOf(job[t]) \in Seq(Text)
  BY <1>1, MissingIs
<1>4. cache' \in Seq(Own)
  BY <1>1, <1>2, <1>3, PutBatchKeeps DEF Insert, JobFits, DataFit
<1>5. GoTo(t, pc) /\ pc \in Pcs \ {"clearing"} /\ (t = Writer => Busy) /\ up # "down"
  BY <1>1, NotDown DEF Insert, Pcs, Busy
<1>6. UNCHANGED <<setup, split, up, loaded, due, documents, counter, store, inFile, work, fileVars>>
  BY DEF Insert
<1> HIDE DEF pc
<1>7. JobsFit' /\ WorkFits' /\ Again'
  BY <1>1, <1>5, <1>6, TaskGoes
<1>8. DataFit'
  BY <1>1, <1>4, <1>6 DEF DataFit, fileVars
<1>9. QED
  BY <1>7, <1>8 DEF IInv

LEMMA EvictFits ==
  ASSUME IInv, NEW t \in Tasks, Evict(t)
  PROVE  IInv' /\ Len(cache') <= MaxSize
<1> DEFINE pc == IF setup.persistent /\ due THEN "copy" ELSE "done"
<1>1. DataFit /\ JobsFit /\ WorkFits /\ Again
  BY DEF IInv
<1>2. cache' \in Seq(Own) /\ Len(cache') <= MaxSize
  BY <1>1, EvictKeeps DEF Evict, DataFit
<1>3. GoTo(t, pc) /\ pc \in Pcs \ {"clearing"} /\ (t = Writer => Busy) /\ up # "down"
  BY <1>1, NotDown DEF Evict, Pcs, Busy
<1>4. UNCHANGED <<setup, split, up, loaded, due, documents, counter, store, inFile, work, fileVars>>
  BY DEF Evict
<1> HIDE DEF pc
<1>5. JobsFit' /\ WorkFits' /\ Again'
  BY <1>1, <1>3, <1>4, TaskGoes
<1>6. DataFit'
  BY <1>1, <1>2, <1>4 DEF DataFit, fileVars
<1>7. QED
  BY <1>2, <1>5, <1>6 DEF IInv

LEMMA CopyCacheFits ==
  ASSUME IInv, NEW t \in Tasks, CopyCache(t)
  PROVE  IInv'
<1> DEFINE j == job[t]
           k == [j EXCEPT !.pc = "truncate", !.copy = cache]
<1>1. /\ DataFit /\ JobsFit /\ WorkFits /\ Again /\ j \in Jobs /\ JobFits(j) /\ j.pc = "copy"
      /\ cache \in Seq(Own)
  BY DEF IInv, JobsFit, CopyCache, DataFit
<1>2. job' = [job EXCEPT ![t] = k]
  BY DEF CopyCache
<1>3. UNCHANGED <<setup, split, up, memoryVars, work, fileVars>>
  BY DEF CopyCache
<1> HIDE DEF j
<1>4. k \in Jobs /\ k.texts = j.texts /\ k.found = j.found /\ k.got = j.got /\ k.pc = "truncate"
  BY <1>1 DEF Jobs, Pcs
<1> HIDE DEF k
<1>5. JobFits(k)
  BY <1>1, <1>4, PlaceOnly
<1>6. JobsFit' /\ job'[t] = k /\ \A u \in Tasks : u # t => job'[u] = job[u]
  BY <1>1, <1>2, <1>4, <1>5, OneJob
<1>7. up # "down" /\ (t = Writer => Busy)
  BY <1>1, NotDown DEF j, Busy
<1>8. WorkFits' /\ Again'
  BY <1>1, <1>3, <1>4, <1>6, <1>7, TaskStays DEF memoryVars, j
<1>9. DataFit'
  BY <1>1, <1>3 DEF DataFit, memoryVars, fileVars
<1>10. QED
  BY <1>6, <1>8, <1>9 DEF IInv

LEMMA TruncateFits ==
  ASSUME IInv, NEW t \in Tasks, TruncateCacheFile(t)
  PROVE  IInv'
<1>1. DataFit /\ JobsFit /\ WorkFits /\ Again
  BY DEF IInv
<1>2. GoTo(t, "write") /\ "write" \in Pcs \ {"clearing"} /\ (t = Writer => Busy) /\ up # "down"
  BY <1>1, NotDown DEF TruncateCacheFile, Pcs, Busy
<1>3. UNCHANGED <<setup, split, up, memoryVars, work, storeFile, systemFile>> /\ cacheFile' = Torn
  BY DEF TruncateCacheFile
<1>4. JobsFit' /\ WorkFits' /\ Again'
  BY <1>1, <1>2, <1>3, TaskGoes DEF memoryVars
<1>5. <<>> \in Seq(Own)
  OBVIOUS
<1>6. DataFit'
  BY <1>1, <1>3, <1>5 DEF DataFit, memoryVars, Torn
<1>7. QED
  BY <1>4, <1>6 DEF IInv

LEMMA WriteCacheFits ==
  ASSUME IInv, NEW t \in Tasks, WriteCacheFile(t)
  PROVE  IInv'
<1> DEFINE j == job[t]
           k == [j EXCEPT !.pc = "done", !.copy = <<>>]
<1>1. DataFit /\ JobsFit /\ WorkFits /\ Again /\ j \in Jobs /\ JobFits(j) /\ j.pc = "write"
  BY DEF IInv, JobsFit, WriteCacheFile
<1>2. job' = [job EXCEPT ![t] = IF j.texts = <<>> THEN Idle ELSE k]
  BY DEF WriteCacheFile
<1>3. UNCHANGED <<setup, split, up, cache, loaded, documents, counter, store, inFile, work, storeFile, systemFile>>
  BY DEF WriteCacheFile
<1>4. up # "down" /\ (t = Writer => Busy)
  BY <1>1, NotDown DEF Busy
<1>5. cacheFile' \in {Full(j.copy), Torn}
  BY DEF WriteCacheFile
<1>6. j.copy \in Seq(Own) /\ <<>> \in Seq(Own)
  BY <1>1 DEF Jobs
<1>7. cacheFile'.entries \in Seq(Own)
  <2>1. Full(j.copy).entries = j.copy /\ Torn.entries = <<>>
    BY DEF Full, Torn
  <2>2. cacheFile' = Full(j.copy) \/ cacheFile' = Torn
    BY <1>5
  <2> HIDE DEF j
  <2>3. QED
    BY <1>6, <2>1, <2>2, Zenon
<1>8. DataFit'
  BY <1>1, <1>3, <1>7 DEF DataFit
<1>9. CASE j.texts = <<>>
  <2>1. JobsFit' /\ job'[t].pc = "idle" /\ \A u \in Tasks : u # t => job'[u] = job[u]
    BY <1>1, <1>2, <1>9, JobEnds
  <2>2. WorkFits' /\ Again'
    BY <1>1, <1>3, <1>4, <2>1, TaskStays
  <2>3. QED
    BY <1>8, <2>1, <2>2 DEF IInv
<1>10. CASE j.texts # <<>>
  <2>1. job' = [job EXCEPT ![t] = k]
    BY <1>2, <1>10
  <2> HIDE DEF j
  <2>2. k \in Jobs /\ k.texts = j.texts /\ k.found = j.found /\ k.got = j.got /\ k.pc = "done"
    BY <1>1, <1>6 DEF Jobs, Pcs
  <2> HIDE DEF k
  <2>3. JobFits(k)
    BY <1>1, <2>2, PlaceOnly
  <2>4. JobsFit' /\ job'[t] = k /\ \A u \in Tasks : u # t => job'[u] = job[u]
    BY <1>1, <2>1, <2>2, <2>3, OneJob
  <2>5. WorkFits' /\ Again'
    BY <1>1, <1>3, <1>4, <2>2, <2>4, TaskStays DEF j
  <2>6. QED
    BY <1>8, <2>4, <2>5 DEF IInv
<1>11. QED
  BY <1>9, <1>10

LEMMA RetrieveFits ==
  ASSUME IInv, NEW t \in Tasks, Retrieve(t)
  PROVE  IInv' /\ Len(cache') = Len(cache)
<1>1. /\ DataFit /\ JobsFit /\ WorkFits /\ Again /\ cache \in Seq(Own)
      /\ t \in Readers /\ t # Writer /\ up # "down"
  BY WriterIsTask DEF IInv, DataFit, Retrieve
<1>2. PICK query \in Queries : Begin(t, <<query>>)
  BY DEF Retrieve
<1>3. <<query>> \in Seq(Text)
  BY TextsAssumption
<1>4. UNCHANGED <<setup, split, up, loaded, due, documents, counter, store, inFile, work, fileVars>>
  BY DEF Retrieve
<1>5. /\ JobsFit' /\ cache' \in Seq(Own) /\ Len(cache') = Len(cache)
      /\ job'[t].pc \in {"ask", "done"} /\ \A u \in Tasks : u # t => job'[u] = job[u]
  BY <1>1, <1>2, <1>3, BeginFits
<1>6. WorkFits' /\ Again'
  BY <1>1, <1>4, <1>5, TaskStays
<1>7. DataFit'
  BY <1>1, <1>4, <1>5 DEF DataFit, fileVars
<1>8. QED
  BY <1>5, <1>6, <1>7 DEF IInv

LEMMA SearchFits ==
  ASSUME IInv, NEW t \in Tasks, Search(t)
  PROVE  IInv'
<1>1. /\ DataFit /\ JobsFit /\ WorkFits /\ Again /\ t # Writer /\ up # "down"
      /\ job' = [job EXCEPT ![t] = Idle]
  BY WriterIsTask, NotDown DEF IInv, Search, Embedded, NotEmbedded
<1>2. UNCHANGED <<setup, split, up, memoryVars, work, fileVars>>
  BY DEF Search
<1>3. JobsFit' /\ job'[t].pc = "idle" /\ \A u \in Tasks : u # t => job'[u] = job[u]
  BY <1>1, JobEnds
<1>4. WorkFits' /\ Again'
  BY <1>1, <1>2, <1>3, TaskStays DEF memoryVars
<1>5. DataFit'
  BY <1>1, <1>2 DEF DataFit, memoryVars, fileVars
<1>6. QED
  BY <1>3, <1>4, <1>5 DEF IInv

LEMMA ClearCacheFits ==
  ASSUME IInv, NEW t \in Tasks, ClearCache(t)
  PROVE  IInv'
<1>1. DataFit /\ JobsFit /\ WorkFits /\ Again /\ t # Writer /\ up # "down"
  BY WriterIsTask DEF IInv, ClearCache
<1>2. /\ UNCHANGED <<setup, split, up, loaded, due, documents, counter, store, inFile, work, fileVars>>
      /\ cache' = <<>>
  BY DEF ClearCache
<1>3. CASE GoTo(t, "copy")
  <2>1. JobsFit' /\ WorkFits' /\ Again'
    BY <1>1, <1>2, <1>3, TaskGoes DEF Pcs
  <2>2. QED
    BY <1>1, <1>2, <2>1 DEF IInv, DataFit, fileVars
<1>4. CASE UNCHANGED job
  <2>1. JobsFit' /\ WorkFits' /\ Again'
    BY <1>1, <1>2, <1>4 DEF JobsFit, WorkFits, Again, Busy
  <2>2. QED
    BY <1>1, <1>2, <2>1 DEF IInv, DataFit, fileVars
<1>5. QED
  BY <1>3, <1>4 DEF ClearCache

LEMMA SaveCacheFits ==
  ASSUME IInv, NEW t \in Tasks, SaveCache(t)
  PROVE  IInv'
<1>1. DataFit /\ JobsFit /\ WorkFits /\ Again /\ t # Writer /\ up # "down"
  BY WriterIsTask DEF IInv, SaveCache
<1>2. UNCHANGED <<setup, split, up, memoryVars, work, fileVars>> /\ GoTo(t, "copy")
  BY DEF SaveCache
<1>3. JobsFit' /\ WorkFits' /\ Again'
  BY <1>1, <1>2, TaskGoes DEF Pcs, memoryVars
<1>4. QED
  BY <1>1, <1>2, <1>3 DEF IInv, DataFit, memoryVars, fileVars

(* What leaves the tasks, the writer's work and the documents alone.       *)
LEMMA NothingDone ==
  ASSUME JobsFit, WorkFits, Again, UNCHANGED <<documents, work, job>>, up' # "down"
  PROVE  JobsFit' /\ WorkFits' /\ Again'
BY DEF JobsFit, WorkFits, Again, Busy

LEMMA LoadCacheFits ==
  ASSUME IInv, NEW t \in Tasks, LoadCache(t)
  PROVE  IInv' /\ Len(cache') <= loaded'
<1>1. DataFit /\ JobsFit /\ WorkFits /\ Again /\ up = "up"
  BY DEF IInv, LoadCache
<1>2. /\ UNCHANGED <<setup, split, up, due, documents, counter, store, inFile, work, job, fileVars>>
      /\ cache' = cacheFile.entries /\ loaded' = Len(cacheFile.entries)
  BY DEF LoadCache
<1>3. JobsFit' /\ WorkFits' /\ Again'
  BY <1>1, <1>2, NothingDone
<1>4. cache' \in Seq(Own) /\ loaded' \in Nat /\ Len(cache') <= loaded'
  BY <1>1, <1>2 DEF DataFit
<1>5. DataFit'
  BY <1>1, <1>2, <1>4 DEF DataFit, fileVars
<1>6. QED
  BY <1>3, <1>4, <1>5 DEF IInv

LEMMA OpenCacheFits ==
  ASSUME DataFit, OpenCache
  PROVE  cache' \in Seq(Own) /\ loaded' \in Nat /\ Len(cache') <= loaded'
<1>1. cacheFile.entries \in Seq(Own) /\ <<>> \in Seq(Own)
  BY DEF DataFit
<1>2. cache' \in Seq(Own) /\ loaded' = Len(cache')
  BY <1>1 DEF OpenCache
<1>3. QED
  BY <1>2

LEMMA StartFits ==
  ASSUME IInv, Start
  PROVE  IInv' /\ Len(cache') <= loaded'
<1>1. DataFit /\ JobsFit /\ WorkFits /\ Again /\ up = "down" /\ OpenCache
  BY DEF IInv, Start
<1>2. cache' \in Seq(Own) /\ loaded' \in Nat /\ Len(cache') <= loaded'
  BY <1>1, OpenCacheFits
<1>3. UNCHANGED <<setup, split, work, job, fileVars>> /\ up' = "up" /\ documents' = <<>>
  BY DEF Start
<1>4. work.mode = "none" /\ job[Writer].pc = "idle"
  BY <1>1, WriterIsTask, NoWorkIs DEF WorkFits, Idle
<1>5. JobsFit' /\ WorkFits' /\ Again'
  BY <1>1, <1>3, <1>4 DEF JobsFit, WorkFits, Again, Busy
<1>6. DataFit'
  BY <1>1, <1>2, <1>3 DEF DataFit, fileVars
<1>7. QED
  BY <1>2, <1>5, <1>6 DEF IInv

LEMMA SaveSystemFits ==
  ASSUME IInv, SaveSystem
  PROVE  IInv'
<1>1. DataFit /\ JobsFit /\ WorkFits /\ Again /\ up = "up"
  BY DEF IInv, SaveSystem
<1>2. /\ UNCHANGED <<setup, split, up, memoryVars, work, job, cacheFile, storeFile>>
      /\ systemFile' = Full([documents |-> documents, counter |-> counter])
  BY DEF SaveSystem
<1>3. JobsFit' /\ WorkFits' /\ Again'
  BY <1>1, <1>2, NothingDone DEF memoryVars
<1>4. systemFile'.entries.documents = documents
  BY <1>2 DEF Full
<1>5. DataFit'
  BY <1>1, <1>2, <1>4 DEF DataFit, memoryVars
<1>6. QED
  BY <1>3, <1>5 DEF IInv

LEMMA LoadSystemFits ==
  ASSUME IInv, LoadSystem
  PROVE  IInv' /\ Len(cache') <= loaded'
<1> DEFINE d == systemFile.entries.documents
           all == [i \in DOMAIN d |-> <<d[i]>>]
           reload == [NoWork EXCEPT !.mode = "reload", !.lists = all]
<1>1. DataFit /\ JobsFit /\ WorkFits /\ Again /\ up = "down" /\ OpenCache
  BY DEF IInv, LoadSystem
<1>2. cache' \in Seq(Own) /\ loaded' \in Nat /\ Len(cache') <= loaded'
  BY <1>1, OpenCacheFits
<1>3. /\ UNCHANGED <<setup, split, job, fileVars>> /\ documents' = d
      /\ up' \in {"up", "loading"}
      /\ work' = IF up' = "up" THEN NoWork ELSE reload
  BY DEF LoadSystem
<1>4. d \in Seq(Text)
  BY <1>1 DEF DataFit, LoadSystem
<1> HIDE DEF d
<1>5. all \in Seq(Seq(Text)) /\ Len(all) = Len(d) /\ \A i \in 1 .. Len(d) : all[i] = <<d[i]>>
  <2>1. DOMAIN d = 1 .. Len(d) /\ Len(d) \in Nat /\ \A i \in 1 .. Len(d) : <<d[i]>> \in Seq(Text)
    BY <1>4
  <2>2. all = [i \in 1 .. Len(d) |-> all[i]] /\ \A i \in 1 .. Len(d) : all[i] = <<d[i]>>
    BY <2>1
  <2>3. Len(d) \in Nat /\ \A i \in 1 .. Len(d) : all[i] \in Seq(Text)
    BY <2>1
  <2> HIDE DEF all
  <2>4. all \in Seq(Seq(Text)) /\ Len(all) = Len(d)
    BY <2>2, <2>3, ListIs, Zenon
  <2>5. QED
    BY <2>2, <2>4, Zenon
<1> HIDE DEF all
<1>6. reload \in Works /\ reload.mode = "reload" /\ reload.lists = all
  BY <1>5, NoWorkIs DEF Works, Modes
<1> HIDE DEF reload
<1>7. work' \in Works /\ (work'.mode = "reload" => work'.lists = all)
  BY <1>3, <1>6, NoWorkIs
<1>8. job[Writer].pc = "idle" /\ job' = job
  BY <1>1, <1>3, WriterIsTask DEF WorkFits, Idle
<1>9. JobsFit' /\ WorkFits'
  BY <1>1, <1>3, <1>8 DEF JobsFit, WorkFits, Busy
<1>10. Again'
  <2>1. ~Busy'
    BY <1>8 DEF Busy
  <2>2. SUFFICES ASSUME work'.mode = "reload"
                 PROVE  /\ Len(documents') - Len(work'.lists) \in Nat
                        /\ \A i \in 1 .. Len(work'.lists) :
                             work'.lists[i] = <<documents'[Len(documents') - Len(work'.lists) + i]>>
    BY <2>1 DEF Again
  <2>3. work'.lists = all /\ documents' = d /\ Len(d) \in Nat
    BY <2>2, <1>3, <1>4, <1>7
  <2>4. Len(d) - Len(all) = 0 /\ \A i \in 1 .. Len(d) : 0 + i = i
    BY <2>3, <1>5
  <2>5. QED
    BY <2>3, <2>4, <1>5
<1>11. DataFit'
  BY <1>1, <1>2, <1>3, <1>4, <1>7 DEF DataFit, fileVars
<1>12. QED
  BY <1>2, <1>9, <1>10, <1>11 DEF IInv

LEMMA CrashFits ==
  ASSUME IInv, Crash
  PROVE  IInv' /\ Len(cache') <= loaded'
<1>1. DataFit /\ Forget /\ UNCHANGED fileVars /\ setup' = setup
  BY DEF IInv, Crash
<1>2. cache' = <<>> /\ loaded' = 0
  BY <1>1 DEF Forget
<1>3. QED
  BY <1>1, <1>2, ForgetFits

LEMMA ElapsesFits ==
  ASSUME IInv, IntervalElapses
  PROVE  IInv'
<1>1. /\ DataFit /\ JobsFit /\ WorkFits /\ Again /\ up' # "down"
      /\ UNCHANGED <<setup, split, up, cache, loaded, documents, counter, store, inFile, work, job, fileVars>>
  BY DEF IInv, IntervalElapses
<1>2. JobsFit' /\ WorkFits' /\ Again'
  BY <1>1, NothingDone
<1>3. QED
  BY <1>1, <1>2 DEF IInv, DataFit, fileVars

LEMMA SplitAnyStays ==
  ASSUME IInv, SplitAny
  PROVE  IInv'
<1>1. UNCHANGED <<setup, up, memoryVars, work, job, fileVars>>
  BY DEF SplitAny
<1>2. QED
  BY Zenon, <1>1 DEF IInv, DataFit, JobsFit, WorkFits, Again, Busy, memoryVars, fileVars

LEMMA AddDocumentsFits ==
  ASSUME IInv, AddDocuments
  PROVE  IInv'
<1>1. /\ DataFit /\ JobsFit /\ WorkFits /\ Again /\ up = "up" /\ job[Writer].pc = "idle"
      /\ setup \in Setups
  BY WriterIsTask DEF IInv, AddDocuments, Quiet, Idle, DataFit
<1>2. UNCHANGED <<setup, split, up, memoryVars, job, fileVars>>
  BY DEF AddDocuments
<1>3. PICK list \in Contents, mode \in {"add", "directory"} :
        LET n == SplitUpTo(list)
        IN work' = [NoWork EXCEPT !.mode = mode, !.hangs = n < Len(list),
                      !.lists = [i \in 1 .. n |-> SplitText(setup.size, setup.overlap, list[i])]]
  BY Zenon DEF AddDocuments
<1> DEFINE n == SplitUpTo(list)
           all == [i \in 1 .. n |-> SplitText(setup.size, setup.overlap, list[i])]
           hangs == n < Len(list)
<1>4. all \in Seq(Seq(Text)) /\ hangs \in BOOLEAN
  <2>1. \A i \in 1 .. Len(list) : list[i] \in Text /\ Formed(list[i]) /\ Thin(list[i], 4)
    <3>1. \A i \in 1 .. Len(list) : list[i] \in Text /\ WellFormed(list[i])
      BY TextsAssumption, ItemsAre
    <3>2. \A i \in 1 .. Len(list) : Formed(list[i])
      BY <3>1, FormedIs
    <3>3. \A x \in Nat : x % 4 < 4
      OBVIOUS
    <3>4. ASSUME NEW i \in 1 .. Len(list) PROVE Thin(list[i], 4)
      <4>1. \A k \in 1 .. Len(list[i]) : list[i][k] \in Nat
        BY <3>1 DEF Text
      <4>2. QED
        BY <3>3, <4>1 DEF Thin
    <3>5. QED
      BY <3>1, <3>2, <3>4
  <2>2. Sizes(setup.size, setup.overlap)
    BY <1>1, SetupsFit
  <2>3. n \in Nat /\ \A i \in 1 .. n :
          i \in 1 .. Len(list) /\ SplitEnds(setup.size, setup.overlap, list[i])
    <3> DEFINE ends(i) == SplitEnds(setup.size, setup.overlap, list[i])
               S == {k \in 0 .. Len(list) : \A i \in 1 .. k : ends(i)}
    <3>1. Len(list) \in Nat
      BY TextsAssumption
    <3>2. n = Max(S)
      BY DEF SplitUpTo
    <3> HIDE DEF n, ends
    <3>3. S \in SUBSET (0 .. Len(list)) /\ 0 \in S
      BY <3>1
    <3>4. Max(S) \in S
      <4> HIDE DEF S
      <4>1. QED
        BY <3>1, <3>3, LargestIs
    <3>5. n \in 0 .. Len(list) /\ \A i \in 1 .. n : ends(i)
      BY <3>2, <3>4
    <3>6. QED
      BY <3>1, <3>5 DEF ends
  <2>4. \A i \in 1 .. n : SplitText(setup.size, setup.overlap, list[i]) \in Seq(Text)
    <3> HIDE DEF n
    <3>1. QED
      BY <2>1, <2>2, <2>3, SplitTextCuts DEF CutsText
  <2> HIDE DEF n
  <2>5. all = [i \in 1 .. n |-> all[i]] /\ \A i \in 1 .. n : all[i] \in Seq(Text)
    BY <2>4
  <2> HIDE DEF all
  <2>6. QED
    BY <2>3, <2>5
<1>5. work' = [NoWork EXCEPT !.mode = mode, !.hangs = hangs, !.lists = all]
  BY <1>3
<1> HIDE DEF all, hangs, n
<1>6. work' \in Works /\ work'.mode # "reload"
  BY <1>4, <1>5, NoWorkIs DEF Works, Modes
<1>7. JobsFit' /\ WorkFits' /\ Again'
  BY <1>1, <1>2, <1>6 DEF JobsFit, WorkFits, Again, Busy, memoryVars
<1>8. DataFit'
  BY <1>1, <1>2, <1>6 DEF DataFit, memoryVars, fileVars
<1>9. QED
  BY <1>7, <1>8 DEF IInv

LEMMA NextDocumentFits ==
  ASSUME IInv, NextDocument
  PROVE  IInv' /\ Len(cache') = Len(cache)
<1> DEFINE l == work.lists
<1>1. /\ DataFit /\ JobsFit /\ WorkFits /\ Again /\ cache \in Seq(Own) /\ work \in Works
      /\ Writer \in Tasks /\ l \in Seq(Seq(Text)) /\ l # <<>>
      /\ work.mode \in {"add", "directory", "reload"}
  BY WriterIsTask DEF IInv, NextDocument, DataFit, Works
<1>2. /\ work' = [work EXCEPT !.chunks = Head(work.lists), !.lists = Tail(@), !.next = 1]
      /\ Begin(Writer, Head(work.lists))
      /\ UNCHANGED <<setup, split, up, loaded, due, documents, counter, store, inFile, fileVars>>
  BY DEF NextDocument
<1>3. up # "down"
  BY <1>1, NoWorkIs DEF WorkFits
<1> DEFINE h == Head(l)
           r == Tail(l)
<1>4. /\ h \in Seq(Text) /\ r \in Seq(Seq(Text)) /\ h = l[1]
      /\ Len(l) \in Nat /\ Len(l) >= 1 /\ Len(r) = Len(l) - 1
      /\ \A i \in 1 .. Len(l) - 1 : r[i] = l[i + 1]
  <2>1. l \in Seq(Seq(Text)) /\ l # <<>>
    BY <1>1
  <2> HIDE DEF l
  <2>2. QED
    BY <2>1
<1>5. /\ JobsFit' /\ cache' \in Seq(Own) /\ Len(cache') = Len(cache)
      /\ job'[Writer].texts = h /\ job'[Writer].pc \in {"ask", "done"}
  <2>1. Begin(Writer, h)
    BY <1>2
  <2> HIDE DEF h
  <2>2. QED
    BY <1>1, <1>4, <2>1, BeginFits
<1>6. /\ work' \in Works /\ work'.mode = work.mode /\ work'.chunks = h /\ work'.lists = r
      /\ work'.next = 1
  <2>1. work' = [work EXCEPT !.chunks = h, !.lists = r, !.next = 1]
    BY <1>2
  <2> HIDE DEF h, r, l
  <2>2. QED
    BY <1>1, <1>4, <2>1 DEF Works
<1> HIDE DEF h, r
<1>7. Busy' /\ job'[Writer].pc # "clearing"
  BY <1>5 DEF Busy
<1>8. WorkFits'
  <2>1. /\ work'.mode \in {"add", "directory", "reload"}
        /\ work'.chunks = job'[Writer].texts /\ work'.next # 0
    BY <1>1, <1>5, <1>6
  <2>2. up' # "down"
    BY <1>2, <1>3
  <2>3. QED
    BY <2>1, <2>2, <1>7 DEF WorkFits
<1>9. Again'
  <2> DEFINE d == documents
             from == Len(d) - Len(l)
  <2>1. SUFFICES ASSUME work.mode = "reload"
                 PROVE  /\ Len(d) - Len(r) \in Nat
                        /\ \A i \in 1 .. Len(r) : r[i] = <<d[Len(d) - Len(r) + i]>>
                        /\ Len(d) - Len(r) # 0 /\ h = <<d[Len(d) - Len(r)]>>
    BY <1>2, <1>6, Zenon DEF Again
  <2>2. /\ from \in Nat /\ \A i \in 1 .. Len(l) : l[i] = <<d[from + i]>>
    BY <1>1, <2>1 DEF Again
  <2>3. Len(d) \in Nat
    BY <1>1 DEF DataFit
  <2> HIDE DEF l
  <2>4. Len(d) - Len(r) = from + 1
    BY <1>4, <2>3
  <2>5. h = <<d[from + 1]>>
    BY <1>4, <2>2
  <2>6. ASSUME NEW i \in 1 .. Len(r) PROVE r[i] = <<d[from + 1 + i]>>
    <3>1. r[i] = l[i + 1] /\ i + 1 \in 1 .. Len(l) /\ from + (i + 1) = from + 1 + i
      BY <1>4, <2>2
    <3>2. QED
      BY <3>1, <2>2
  <2>7. from + 1 \in Nat /\ from + 1 # 0
    BY <2>2
  <2> HIDE DEF from, d
  <2>8. QED
    BY <2>4, <2>5, <2>6, <2>7, Zenon
<1>10. DataFit'
  BY <1>1, <1>2, <1>5, <1>6 DEF DataFit, fileVars
<1>11. QED
  BY <1>5, <1>8, <1>9, <1>10 DEF IInv

LEMMA DocumentsDoneFits ==
  ASSUME IInv, DocumentsDone
  PROVE  IInv'
<1>1. /\ DataFit /\ JobsFit /\ WorkFits /\ Again /\ job[Writer].pc = "idle"
      /\ work' = NoWork /\ up' = "up" /\ UNCHANGED <<setup, split, memoryVars, job, fileVars>>
  BY DEF IInv, DocumentsDone, Idle
<1>2. job' = job /\ documents' = documents
  BY <1>1 DEF memoryVars
<1>3. WorkFits' /\ Again'
  BY <1>1, <1>2, NoWorkIs, WriterRests
<1>4. DataFit' /\ JobsFit'
  BY <1>1, NoWorkIs DEF DataFit, JobsFit, memoryVars, fileVars
<1>5. QED
  BY <1>3, <1>4 DEF IInv

LEMMA ResultsCounted ==
  ASSUME JobsFit, NEW t \in Tasks
  PROVE  /\ Len(Results(t)) \in Nat /\ DOMAIN Results(t) = 1 .. Len(Results(t))
         /\ setup.cached => Len(Results(t)) = Len(job[t].texts)
<1>1. job[t].texts \in Seq(Text) /\ job[t].got \in Seq(Text)
  BY DEF JobsFit, Jobs
<1>2. DOMAIN Results(t) = IF setup.cached THEN 1 .. Len(job[t].texts) ELSE 1 .. Len(job[t].got)
  BY <1>1 DEF Results
<1> DEFINE n == IF setup.cached THEN Len(job[t].texts) ELSE Len(job[t].got)
<1>3. n \in Nat /\ DOMAIN Results(t) = 1 .. n
  BY <1>1, <1>2
<1>4. Results(t) = [i \in 1 .. n |-> Results(t)[i]]
  <2>1. CASE setup.cached
    <3> DEFINE R(i) == job[t].found[i] \cup
              {job[t].got[k] : k \in {k \in DOMAIN job[t].got \cap
                                        DOMAIN Sublist([x \in DOMAIN job[t].texts |-> x], Missed(t)) :
                  Sublist([x \in DOMAIN job[t].texts |-> x], Missed(t))[k] = i}}
    <3>1. Results(t) = [i \in 1 .. n |-> R(i)]
      BY <2>1, <1>1 DEF Results
    <3> HIDE DEF R, n
    <3>2. QED
      BY <3>1
  <2>2. CASE ~setup.cached
    <3>1. Results(t) = [i \in 1 .. n |-> {job[t].got[i]}]
      BY <2>2, <1>1 DEF Results
    <3> HIDE DEF n
    <3>2. QED
      BY <3>1
  <2>3. QED
    BY <2>1, <2>2
<1> HIDE DEF n
<1>5. Len(Results(t)) = n
  BY <1>3, <1>4
<1>6. QED
  BY <1>3, <1>5 DEF n

LEMMA DocumentFailsFits ==
  ASSUME IInv, DocumentFails
  PROVE  IInv'
<1>1. NotEmbedded(Writer) /\ GiveUp /\ UNCHANGED <<setup, split, fileVars>>
  BY DEF DocumentFails
<1>2. job[Writer].pc # "idle" /\ job[Writer].pc # "clearing" /\ Busy
  BY <1>1 DEF NotEmbedded, Busy
<1>3. work.mode \in {"add", "directory", "reload"}
  BY <1>2 DEF IInv, WorkFits
<1>4. QED
  BY <1>1, <1>2, <1>3, GiveUpFits

LEMMA StoreFailsFits ==
  ASSUME IInv, StoreFails
  PROVE  IInv'
<1>1. job[Writer].pc = "storing" /\ GiveUp /\ UNCHANGED <<setup, split, fileVars>>
  BY DEF StoreFails
<1>2. Busy
  BY <1>1 DEF Busy
<1>3. work.mode \in {"add", "directory", "reload"}
  BY <1>2 DEF IInv, WorkFits
<1>4. QED
  BY <1>1, <1>3, GiveUpFits

(* The chunk that is stored is one of those of the document.               *)
LEMMA StoredChunk ==
  ASSUME IInv, Embedded(Writer), work.next <= ToStore
  PROVE  /\ work.next \in 1 .. Len(work.chunks) /\ work.next \in 1 .. Len(Results(Writer))
         /\ work.chunks = job[Writer].texts /\ Busy
         /\ \A chunks \in Seq(Text) : Append(chunks, work.chunks[work.next]) \in Seq(Text)
<1>1. Busy /\ DataFit /\ JobsFit /\ WorkFits /\ Writer \in Tasks
  BY WriterIsTask DEF IInv, Embedded, Busy
<1>2. /\ work.chunks = job[Writer].texts /\ work.next \in Nat /\ work.next # 0
      /\ work.chunks \in Seq(Text) /\ Len(work.chunks) \in Nat
  BY <1>1 DEF WorkFits, DataFit, Works
<1>3. Len(Results(Writer)) \in Nat
  BY <1>1, ResultsCounted
<1>4. ToStore \in Nat /\ ToStore <= Len(work.chunks) /\ ToStore <= Len(Results(Writer))
  BY <1>2, <1>3 DEF ToStore
<1>5. work.next \in 1 .. Len(work.chunks) /\ work.next \in 1 .. Len(Results(Writer))
  BY <1>2, <1>3, <1>4
<1>6. work.chunks[work.next] \in Text
  BY <1>2, <1>5
<1>7. QED
  BY <1>1, <1>2, <1>5, <1>6

LEMMA AddChunkFits ==
  ASSUME IInv, AddChunk
  PROVE  IInv'
<1>1. /\ DataFit /\ JobsFit /\ WorkFits /\ Again /\ Writer \in Tasks /\ documents \in Seq(Text)
      /\ work.mode \in {"add", "directory"}
  BY WriterIsTask DEF IInv, DataFit, AddChunk
<1>2. /\ documents' = Append(documents, work.chunks[work.next])
      /\ UNCHANGED <<setup, split, up, cache, loaded, due, inFile, cacheFile, systemFile>>
  BY DEF AddChunk
<1>3. documents' \in Seq(Text) /\ Busy
  BY <1>1, <1>2, StoredChunk DEF AddChunk
<1>4. CASE inFile
  <2>1. GoTo(Writer, "storing") /\ work' = work
    BY <1>4 DEF AddChunk
  <2>2. /\ JobsFit' /\ job'[Writer].pc = "storing" /\ job'[Writer].texts = job[Writer].texts
    BY <1>1, <2>1, JobGoes DEF Pcs
  <2>3. up # "down" /\ up' = up
    BY <1>1, <1>2, <1>3, NotDown DEF Busy
  <2>4. WorkFits' /\ Again'
    BY <1>1, <1>3, <2>1, <2>2, <2>3 DEF WorkFits, Again, Busy
  <2>5. DataFit'
    BY <1>1, <1>2, <1>3, <2>1 DEF DataFit
  <2>6. QED
    BY <2>2, <2>4, <2>5 DEF IInv
<1>5. CASE ~inFile
  <2>1. NextChunk
    BY <1>5 DEF AddChunk
  <2>2. JobsFit' /\ work' \in Works /\ WorkFits' /\ Again'
    BY <1>1, <1>2, <1>3, <2>1, NextChunkFits
  <2>3. DataFit'
    BY <1>1, <1>2, <1>3, <2>2 DEF DataFit
  <2>4. QED
    BY <2>2, <2>3 DEF IInv
<1>6. QED
  BY <1>4, <1>5

(* What is left of a document that is not stored further.                  *)
LEMMA DocumentDropped ==
  ASSUME work \in Works
  PROVE  LET w == [work EXCEPT !.chunks = <<>>, !.next = 0]
         IN w \in Works /\ w.mode = work.mode /\ w.lists = work.lists
<1>1. <<>> \in Seq(Text) /\ 0 \in Nat
  OBVIOUS
<1>2. QED
  BY <1>1 DEF Works

LEMMA AddChunkUnsavedFits ==
  ASSUME IInv, AddChunkUnsaved
  PROVE  IInv'
<1>1. /\ DataFit /\ JobsFit /\ WorkFits /\ Again /\ Writer \in Tasks /\ documents \in Seq(Text)
      /\ work.mode \in {"add", "directory"} /\ work \in Works
  BY WriterIsTask DEF IInv, DataFit, AddChunkUnsaved
<1>2. /\ documents' = Append(documents, work.chunks[work.next])
      /\ UNCHANGED <<setup, split, up, cache, loaded, due, inFile, fileVars>>
      /\ job' = [job EXCEPT ![Writer] = Idle]
      /\ work' = IF work.mode = "add" THEN NoWork ELSE [work EXCEPT !.chunks = <<>>, !.next = 0]
  BY DEF AddChunkUnsaved
<1>3. documents' \in Seq(Text) /\ Busy
  BY <1>1, <1>2, StoredChunk DEF AddChunkUnsaved
<1>4. JobsFit' /\ job'[Writer].pc = "idle"
  BY <1>1, <1>2, JobEnds
<1>5. work' \in Works /\ (work'.mode = "none" \/ (work'.mode = work.mode /\ work'.lists = work.lists))
  BY <1>1, <1>2, NoWorkIs, DocumentDropped
<1>6. up' # "down"
  BY <1>1, <1>2, <1>3, NotDown DEF Busy
<1>7. WorkFits' /\ Again'
  BY <1>1, <1>4, <1>5, <1>6, WriterRests
<1>8. DataFit'
  BY <1>1, <1>2, <1>3, <1>5 DEF DataFit, fileVars
<1>9. QED
  BY <1>4, <1>7, <1>8 DEF IInv

LEMMA AddAgainFits ==
  ASSUME IInv, AddAgain
  PROVE  IInv'
<1>1. DataFit /\ JobsFit /\ WorkFits /\ Again /\ Busy /\ NextChunk
  BY DEF IInv, AddAgain, Embedded, Busy
<1>2. UNCHANGED <<setup, split, up, cache, loaded, due, documents, counter, inFile, fileVars>>
  BY DEF AddAgain
<1>3. JobsFit' /\ work' \in Works /\ WorkFits' /\ Again'
  BY <1>1, <1>2, NextChunkFits
<1>4. DataFit'
  BY <1>1, <1>2, <1>3 DEF DataFit, fileVars
<1>5. QED
  BY <1>3, <1>4 DEF IInv

LEMMA NothingToStoreFits ==
  ASSUME IInv, NothingToStore
  PROVE  IInv'
<1>1. /\ DataFit /\ JobsFit /\ WorkFits /\ Again /\ Writer \in Tasks /\ work \in Works
      /\ job[Writer].pc # "idle"
  BY WriterIsTask DEF IInv, DataFit, NothingToStore, Embedded
<1>2. /\ work' = [work EXCEPT !.chunks = <<>>, !.next = 0]
      /\ job' = [job EXCEPT ![Writer] = Idle]
      /\ UNCHANGED <<setup, split, up, memoryVars, fileVars>>
  BY DEF NothingToStore
<1>3. JobsFit' /\ job'[Writer].pc = "idle"
  BY <1>1, <1>2, JobEnds
<1>4. work' \in Works /\ work'.mode = work.mode /\ work'.lists = work.lists
  BY <1>1, <1>2, DocumentDropped
<1>5. up' # "down" /\ documents' = documents
  BY <1>1, <1>2, NotDown DEF memoryVars
<1>6. WorkFits' /\ Again'
  BY <1>1, <1>3, <1>4, <1>5, WriterRests
<1>7. DataFit'
  BY <1>1, <1>2, <1>4 DEF DataFit, memoryVars, fileVars
<1>8. QED
  BY <1>3, <1>6, <1>7 DEF IInv

LEMMA StoreSavedFits ==
  ASSUME IInv, StoreSaved
  PROVE  IInv'
<1>1. DataFit /\ JobsFit /\ WorkFits /\ Again /\ Busy /\ NextChunk
  BY DEF IInv, StoreSaved, Busy
<1>2. UNCHANGED <<setup, split, up, memoryVars, cacheFile, systemFile>>
  BY DEF StoreSaved
<1>3. JobsFit' /\ work' \in Works /\ WorkFits' /\ Again'
  BY <1>1, <1>2, NextChunkFits DEF memoryVars
<1>4. DataFit'
  BY <1>1, <1>2, <1>3 DEF DataFit, memoryVars
<1>5. QED
  BY <1>3, <1>4 DEF IInv

LEMMA ClearFits ==
  ASSUME IInv, Clear
  PROVE  IInv'
<1>1. /\ DataFit /\ JobsFit /\ WorkFits /\ Again /\ Writer \in Tasks /\ up = "up" /\ work = NoWork
      /\ job[Writer].pc = "idle"
  BY WriterIsTask DEF IInv, Clear, Quiet, Idle
<1>2. /\ UNCHANGED <<setup, split, up, cache, loaded, due, inFile, cacheFile, systemFile>>
      /\ documents' = <<>>
  BY DEF Clear
<1>3. CASE inFile
  <2>1. work' = [NoWork EXCEPT !.mode = "clear"] /\ GoTo(Writer, "clearing")
    BY <1>3 DEF Clear
  <2>2. work' \in Works /\ work'.mode = "clear"
    BY <2>1, NoWorkIs DEF Works, Modes
  <2>3. JobsFit' /\ job'[Writer].pc = "clearing"
    BY <1>1, <2>1, JobGoes DEF Pcs
  <2>4. WorkFits' /\ Again'
    BY <1>1, <1>2, <2>2, <2>3 DEF WorkFits, Again, Busy
  <2>5. DataFit'
    BY <1>1, <1>2, <2>2 DEF DataFit
  <2>6. QED
    BY <2>3, <2>4, <2>5 DEF IInv
<1>4. CASE ~inFile
  <2>1. work' = work /\ job' = job
    BY <1>4 DEF Clear
  <2>2. JobsFit' /\ WorkFits' /\ Again'
    BY <1>1, <1>2, <2>1, NoWorkIs DEF JobsFit, WorkFits, Again, Busy
  <2>3. DataFit'
    BY <1>1, <1>2, <2>1 DEF DataFit
  <2>4. QED
    BY <2>2, <2>3 DEF IInv
<1>5. QED
  BY <1>3, <1>4

LEMMA EndClearFits ==
  ASSUME IInv, ClearSaved \/ ClearFails
  PROVE  IInv'
<1>1. /\ DataFit /\ JobsFit /\ WorkFits /\ Again /\ Writer \in Tasks /\ job[Writer].pc # "idle"
  BY WriterIsTask DEF IInv, ClearSaved, ClearFails, EndClear
<1>2. /\ work' = NoWork /\ job' = [job EXCEPT ![Writer] = Idle]
      /\ UNCHANGED <<setup, up, cache, loaded, documents, cacheFile, systemFile>>
  BY DEF ClearSaved, ClearFails, EndClear, memoryVars, fileVars
<1>3. JobsFit' /\ job'[Writer].pc = "idle"
  BY <1>1, <1>2, JobEnds
<1>4. up' # "down"
  BY <1>1, <1>2, NotDown
<1>5. WorkFits' /\ Again'
  BY <1>1, <1>2, <1>3, <1>4, NoWorkIs, WriterRests
<1>6. DataFit'
  BY <1>1, <1>2, NoWorkIs DEF DataFit
<1>7. QED
  BY <1>3, <1>5, <1>6 DEF IInv

LEMMA NextFits == IInv /\ [Next]_vars => IInv'
<1> SUFFICES ASSUME IInv, [Next]_vars PROVE IInv'
  OBVIOUS
<1>1. ASSUME NEW t \in Tasks, TaskStep(t) PROVE IInv'
  BY <1>1, ServiceAnswersFits, InsertFits, EvictFits, CopyCacheFits, TruncateFits, WriteCacheFits,
     RetrieveFits, SearchFits, ClearCacheFits, SaveCacheFits, LoadCacheFits DEF TaskStep
<1>2. CASE WriterStep
  BY <1>2, AddDocumentsFits, NextDocumentFits, DocumentsDoneFits, DocumentFailsFits, AddChunkFits,
     AddChunkUnsavedFits, AddAgainFits, NothingToStoreFits, StoreSavedFits, StoreFailsFits,
     ClearFits, EndClearFits DEF WriterStep
<1>3. CASE UNCHANGED vars
  BY <1>3 DEF vars, memoryVars, fileVars, IInv, DataFit, JobsFit, WorkFits, Again, Busy
<1>4. CASE Start \/ SaveSystem \/ LoadSystem \/ Crash \/ IntervalElapses \/ SplitAny
  BY <1>4, StartFits, SaveSystemFits, LoadSystemFits, CrashFits, ElapsesFits, SplitAnyStays
<1>5. QED
  BY <1>1, <1>2, <1>3, <1>4 DEF Next

(* Whatever the service leaves out, however batches and tasks overlap,     *)
(* whatever file was read and wherever the process died, an embedding is   *)
(* in the cache and in its file under its own text only.                   *)
THEOREM EmbeddingIsOfText == Spec => []EmbeddingOfText
<1>1. IInv => EmbeddingOfText
  <2> SUFFICES ASSUME IInv PROVE EmbeddingOfText
    OBVIOUS
  <2>1. cache \in Seq(Own) /\ cacheFile.entries \in Seq(Own)
    BY DEF IInv, DataFit
  <2>2. ToSet(cache) \subseteq Own /\ ToSet(cacheFile.entries) \subseteq Own
    BY <2>1 DEF ToSet
  <2>3. QED
    BY <2>2 DEF EmbeddingOfText, Own
<1>2. QED
  BY <1>1, InitFits, NextFits, PTL DEF Spec

-----------------------------------------------------------------------------
(* The cache within its bound. *)

(* A task that has nothing to evict moves, and the cache keeps its length. *)
LEMMA BoundKept ==
  ASSUME CacheBounded, NEW t \in Tasks, job[t].pc # "evict",
         \A u \in Tasks : u # t => job'[u] = job[u],
         Len(cache') = Len(cache), loaded' = loaded
  PROVE  CacheBounded'
<1>1. SUFFICES ASSUME \A u \in Tasks : job'[u].pc # "evict"
               PROVE  Len(cache') <= MaxSize \/ Len(cache') <= loaded'
  BY DEF CacheBounded
<1>2. \A u \in Tasks : job[u].pc # "evict"
  <2>1. SUFFICES ASSUME NEW u \in Tasks, u # t PROVE job[u].pc # "evict"
    OBVIOUS
  <2>2. QED
    BY <1>1, <2>1
<1>3. QED
  BY <1>2 DEF CacheBounded

LEMMA BoundStays ==
  ASSUME CacheBounded, UNCHANGED <<cache, loaded, job>>
  PROVE  CacheBounded'
BY DEF CacheBounded

LEMMA OneJobOnly ==
  ASSUME JobsFit, NEW t \in Tasks, NEW j, job' = [job EXCEPT ![t] = j]
  PROVE  \A u \in Tasks : u # t => job'[u] = job[u]
BY DEF JobsFit

LEMMA TaskStepBounded ==
  ASSUME IInv, CacheBounded, NEW t \in Tasks, TaskStep(t)
  PROVE  CacheBounded'
<1>1. JobsFit /\ DataFit /\ MaxSize \in Nat
  BY CacheAssumption DEF IInv
<1>2. CASE Insert(t)
  <2>1. CASE Len(MissingTexts(t)) = Len(job[t].got)
    <3>1. GoTo(t, "evict")
      BY <1>2, <2>1 DEF Insert
    <3>2. job'[t].pc = "evict"
      BY <1>1, <3>1, JobGoes DEF Pcs
    <3>3. QED
      BY <3>2 DEF CacheBounded
  <2>2. CASE Len(MissingTexts(t)) # Len(job[t].got)
    <3>1. cache' = cache /\ loaded' = loaded /\ GoTo(t, "done") /\ job[t].pc = "insert"
      BY <1>2, <2>2 DEF Insert, PutBatch
    <3>2. \A u \in Tasks : u # t => job'[u] = job[u]
      BY <1>1, <3>1, JobGoes DEF Pcs
    <3>3. QED
      BY <3>1, <3>2, BoundKept
  <2>3. QED
    BY <2>1, <2>2
<1>3. CASE Evict(t)
  BY <1>3, EvictFits DEF CacheBounded
<1>4. CASE ServiceAnswers(t) \/ CopyCache(t) \/ Search(t) \/ WriteCacheFile(t)
  <2>1. job[t].pc # "evict" /\ loaded' = loaded /\ cache' = cache
    BY <1>4 DEF ServiceAnswers, CopyCache, Search, WriteCacheFile, Embedded, NotEmbedded, memoryVars
  <2>2. \A u \in Tasks : u # t => job'[u] = job[u]
    BY <1>1, <1>4 DEF ServiceAnswers, CopyCache, Search, WriteCacheFile, JobsFit
  <2>3. QED
    BY <2>1, <2>2, BoundKept
<1>5. CASE TruncateCacheFile(t) \/ SaveCache(t)
  <2>1. job[t].pc # "evict" /\ loaded' = loaded /\ cache' = cache
    BY <1>5 DEF TruncateCacheFile, SaveCache, memoryVars, Idle
  <2>2. \A u \in Tasks : u # t => job'[u] = job[u]
    BY <1>1, <1>5, JobGoes DEF TruncateCacheFile, SaveCache, Pcs
  <2>3. QED
    BY <2>1, <2>2, BoundKept
<1>6. CASE Retrieve(t)
  <2>1. job[t].pc # "evict" /\ loaded' = loaded
    BY <1>6 DEF Retrieve, Idle
  <2>2. \A u \in Tasks : u # t => job'[u] = job[u]
    BY <1>1, <1>6 DEF Retrieve, Begin, JobsFit
  <2>3. QED
    BY <1>6, <2>1, <2>2, RetrieveFits, BoundKept
<1>7. CASE ClearCache(t)
  <2>1. Len(cache') = 0
    BY <1>7 DEF ClearCache
  <2>2. QED
    BY <1>1, <2>1 DEF CacheBounded
<1>8. CASE LoadCache(t)
  BY <1>8, LoadCacheFits DEF CacheBounded
<1>9. QED
  BY <1>2, <1>3, <1>4, <1>5, <1>6, <1>7, <1>8 DEF TaskStep

LEMMA WriterStepBounded ==
  ASSUME IInv, CacheBounded, WriterStep
  PROVE  CacheBounded'
<1>1. JobsFit /\ DataFit /\ MaxSize \in Nat /\ Writer \in Tasks
  BY CacheAssumption, WriterIsTask DEF IInv
<1>2. CASE AddDocuments \/ DocumentsDone
  <2>1. UNCHANGED <<cache, loaded, job>>
    BY Zenon, <1>2 DEF AddDocuments, DocumentsDone, memoryVars
  <2>2. QED
    BY SMTT(30), <2>1, BoundStays
<1>3. CASE NextDocument
  <2>1. job[Writer].pc # "evict" /\ loaded' = loaded
    BY <1>3 DEF NextDocument, Idle
  <2>2. \A u \in Tasks : u # Writer => job'[u] = job[u]
    BY <1>1, <1>3 DEF NextDocument, Begin, JobsFit
  <2>3. QED
    BY <1>1, <1>3, <2>1, <2>2, NextDocumentFits, BoundKept
<1>4. CASE DocumentFails \/ StoreFails
  <2>1. /\ GiveUp /\ job[Writer].pc \in {"ask", "done", "storing"}
    BY <1>4 DEF DocumentFails, StoreFails, NotEmbedded
  <2>2. work.mode \in {"add", "directory", "reload"}
    BY <2>1 DEF IInv, WorkFits, Busy
  <2>3. CASE work.mode = "reload"
    <3>1. Forget
      BY <2>1, <2>3 DEF GiveUp
    <3>2. Len(cache') = 0
      BY <3>1 DEF Forget
    <3>3. QED
      BY <1>1, <3>2 DEF CacheBounded
  <2>4. CASE work.mode # "reload"
    <3>1. job' = [job EXCEPT ![Writer] = Idle] /\ UNCHANGED memoryVars
      BY <2>1, <2>2, <2>4 DEF GiveUp
    <3>2. \A u \in Tasks : u # Writer => job'[u] = job[u]
      BY <1>1, <3>1, OneJobOnly
    <3>3. cache' = cache /\ loaded' = loaded
      BY <3>1 DEF memoryVars
    <3>4. QED
      BY <1>1, <2>1, <3>2, <3>3, BoundKept
  <2>5. QED
    BY <2>3, <2>4
<1>5. ASSUME NextChunk, UNCHANGED <<cache, loaded>>, job[Writer].pc # "evict" PROVE CacheBounded'
  <2>1. \A u \in Tasks : u # Writer => job'[u] = job[u]
    BY <1>1, <1>5 DEF NextChunk, GoTo, JobsFit
  <2>2. QED
    BY <1>1, <1>5, <2>1, BoundKept
<1>6. CASE AddAgain \/ StoreSaved
  BY <1>5, <1>6 DEF AddAgain, StoreSaved, Embedded, memoryVars
<1>7. CASE AddChunkUnsaved \/ NothingToStore \/ ClearSaved \/ ClearFails
  <2>1. /\ job' = [job EXCEPT ![Writer] = Idle] /\ UNCHANGED <<cache, loaded>>
        /\ job[Writer].pc # "evict"
    BY <1>7 DEF AddChunkUnsaved, NothingToStore, ClearSaved, ClearFails, EndClear, Embedded, memoryVars
  <2>2. \A u \in Tasks : u # Writer => job'[u] = job[u]
    BY <1>1, <2>1, OneJobOnly
  <2>3. QED
    BY <1>1, <2>1, <2>2, BoundKept
<1>8. CASE AddChunk
  <2>1. UNCHANGED <<cache, loaded>> /\ job[Writer].pc # "evict"
    BY <1>8 DEF AddChunk, Embedded
  <2>2. CASE inFile
    <3>1. GoTo(Writer, "storing")
      BY <1>8, <2>2 DEF AddChunk
    <3>2. \A u \in Tasks : u # Writer => job'[u] = job[u]
      BY <1>1, <3>1, JobGoes DEF Pcs
    <3>3. QED
      BY <1>1, <2>1, <3>2, BoundKept
  <2>3. CASE ~inFile
    BY <1>5, <1>8, <2>1, <2>3 DEF AddChunk
  <2>4. QED
    BY <2>2, <2>3
<1>9. CASE Clear
  <2>1. UNCHANGED <<cache, loaded>> /\ (GoTo(Writer, "clearing") \/ UNCHANGED job)
    BY <1>9 DEF Clear
  <2>2. job[Writer].pc # "evict"
    BY <1>1, <1>9 DEF Clear, Quiet, Idle
  <2>3. CASE GoTo(Writer, "clearing")
    <3>1. \A u \in Tasks : u # Writer => job'[u] = job[u]
      BY <1>1, <2>3, JobGoes DEF Pcs
    <3>2. QED
      BY <1>1, <2>1, <2>2, <3>1, BoundKept
  <2>4. CASE UNCHANGED job
    BY <2>1, <2>4, BoundStays
  <2>5. QED
    BY <2>1, <2>3, <2>4
<1>10. QED
  BY <1>2, <1>3, <1>4, <1>6, <1>7, <1>8, <1>9 DEF WriterStep

(* The cache is within its size, or within what was loaded, whenever no    *)
(* task has inserted what it has yet to evict: for any number of readers   *)
(* beside the writer, any size of the cache and any file it was read from. *)
THEOREM CacheStaysBounded == Spec => []CacheBounded
<1>1. Init => CacheBounded
  BY CacheAssumption DEF Init, CacheBounded
<1>2. ASSUME IInv, CacheBounded, [Next]_vars PROVE CacheBounded'
  <2>1. CASE Start \/ LoadSystem \/ Crash
    BY <1>2, <2>1, StartFits, LoadSystemFits, CrashFits DEF CacheBounded
  <2>2. CASE SaveSystem \/ IntervalElapses \/ SplitAny \/ UNCHANGED vars
    <3>1. UNCHANGED <<cache, loaded, job>>
      BY <2>2 DEF SaveSystem, IntervalElapses, SplitAny, vars, memoryVars
    <3>2. QED
      BY <1>2, <3>1, BoundStays
  <2>3. CASE WriterStep
    BY <1>2, <2>3, WriterStepBounded
  <2>4. CASE \E t \in Tasks : TaskStep(t)
    BY <1>2, <2>4, TaskStepBounded
  <2>5. QED
    BY <1>2, <2>1, <2>2, <2>3, <2>4 DEF Next
<1>3. QED
  BY <1>1, <1>2, InitFits, NextFits, PTL DEF Spec

-----------------------------------------------------------------------------
(* Chunks and embeddings side by side. *)

(* The places of a sublist rise, and are those asked for.                  *)
LEMMA PlacesRise ==
  ASSUME NEW n \in Nat, NEW I
  PROVE  LET places == Sublist([i \in 1 .. n |-> i], I)
         IN \A k \in 1 .. Len(places) :
              /\ places[k] \in I
              /\ \A l \in 1 .. Len(places) : k < l => places[k] < places[l]
<1> DEFINE all == [i \in 1 .. n |-> i]
           places == Sublist(all, I)
<1>1. all \in Seq(1 .. n) /\ Len(all) = n /\ \A i \in 1 .. n : all[i] = i
  OBVIOUS
<1> HIDE DEF all
<1>2. PICK at : Taken(places, all, I, n, at)
  BY <1>1, SublistPlaces
<1>3. places \in Seq(1 .. n) /\ Len(places) \in Nat
  <2>1. places \in Seq(1 .. n)
    BY <1>1, SublistPlaces
  <2> HIDE DEF places
  <2>2. QED
    BY <2>1
<1> HIDE DEF places
<1>4. \A k \in 1 .. Len(places) : places[k] = at[k] /\ at[k] \in I
  BY <1>1, <1>2 DEF Taken
<1>5. \A k, l \in 1 .. Len(places) : k < l => places[k] < places[l]
  BY <1>2, <1>4 DEF Taken
<1>6. QED
  BY <1>4, <1>5 DEF places, all

(* Behind the cache, a call that is over with an embedding of every text   *)
(* has of each text its own: a service that leaves one out leaves at least *)
(* the last one without.                                                   *)
LEMMA ResultsAreOwn ==
  ASSUME JobsFit, NEW t \in Tasks, setup.cached, Embedded(t)
  PROVE  \A i \in 1 .. Len(job[t].texts) : Results(t)[i] = {job[t].texts[i]}
<1> DEFINE j == job[t]
           texts == j.texts
           n == Len(texts)
           I == {i \in DOMAIN texts : j.found[i] = {}}
           places == Sublist([i \in DOMAIN texts |-> i], I)
           missing == MissingOf(j)
           m == Len(missing)
           Got(i) == {j.got[k] : k \in {k \in DOMAIN j.got \cap DOMAIN places : places[k] = i}}
<1>1. /\ j \in Jobs /\ JobFits(j) /\ texts \in Seq(Text) /\ j.got \in Seq(Text)
      /\ n \in Nat /\ DOMAIN texts = 1 .. n
  BY DEF JobsFit, Jobs
<1>2. Results(t) = [i \in 1 .. n |-> j.found[i] \cup Got(i)]
  BY <1>1 DEF Results, Missed
<1>3. missing = Sublist(texts, I) /\ missing \in Seq(Text) /\ m \in Nat
  BY <1>1, MissingIs DEF MissingOf
<1>4. /\ places \in Seq(1 .. n) /\ Len(places) = m
      /\ \A k \in 1 .. m : missing[k] = texts[places[k]] /\ places[k] \in 1 .. n
  <2>1. places = Sublist([i \in DOMAIN texts |-> i], I)
    OBVIOUS
  <2> HIDE DEF I, texts, places, missing
  <2>2. PlacesIn(texts, missing, places)
    BY <1>1, <1>3, <2>1, PlacesOfSublist
  <2>3. QED
    BY <2>2 DEF PlacesIn
<1>5. \A k \in 1 .. m : places[k] \in I /\ \A l \in 1 .. m : k < l => places[k] < places[l]
  <2>1. places = Sublist([i \in 1 .. n |-> i], I)
    BY <1>1
  <2> HIDE DEF I, places
  <2>2. QED
    BY <1>1, <1>4, <2>1, PlacesRise
<1>6. /\ \A i \in 1 .. n : j.found[i] \subseteq {texts[i]}
      /\ Len(j.got) <= m
      /\ Len(j.got) = m => j.got = missing
  BY <1>1 DEF JobFits
<1> HIDE DEF missing, places, m, n
<1>7. \A i \in 1 .. n : Results(t)[i] # {}
  <2>1. DOMAIN Results(t) = 1 .. n /\ Len(Results(t)) = n
    BY <1>1, <1>2, ResultsCounted DEF n
  <2>2. {} \notin ToSet(Results(t))
    BY DEF Embedded
  <2>3. QED
    BY <2>1, <2>2 DEF ToSet
<1>8. Len(j.got) \in Nat /\ DOMAIN j.got = 1 .. Len(j.got) /\ DOMAIN places = 1 .. m
  BY <1>1, <1>4
<1> HIDE DEF j, texts
<1>9. j.got = missing
  <2>1. CASE m = 0
    BY <2>1, <1>6, <1>8
  <2>2. CASE m # 0
    <3> DEFINE last == places[m]
    <3>1. m \in 1 .. m /\ last \in 1 .. n /\ last \in I
      <4>1. m \in 1 .. m
        BY <2>2, <1>3
      <4>2. places[m] \in 1 .. n
        BY <4>1, <1>4
      <4>3. QED
        BY <4>1, <4>2, <1>5
    <3>2. j.found[last] = {}
      BY <3>1
    <3>3. Got(last) # {}
      BY <3>1, <3>2, <1>2, <1>7
    <3>4. PICK k \in DOMAIN j.got \cap DOMAIN places : places[k] = last
      BY <3>3
    <3>5. k \in 1 .. m /\ k <= Len(j.got)
      BY <3>4, <1>8
    <3>6. k = m
      <4>1. CASE k < m
        <5>1. places[k] < places[m]
          BY <4>1, <3>1, <3>5, <1>5
        <5>2. places[m] \in Nat /\ places[k] = places[m]
          BY <3>1, <3>4, <1>1
        <5>3. QED
          BY <5>1, <5>2
      <4>2. QED
        BY <4>1, <3>5, <1>3
    <3>7. QED
      BY <3>5, <3>6, <1>3, <1>6, <1>8
  <2>3. QED
    BY <2>1, <2>2
<1>10. ASSUME NEW i \in 1 .. n PROVE Results(t)[i] = {texts[i]}
  <2>1. Got(i) \subseteq {texts[i]}
    BY <1>4, <1>8, <1>9
  <2>2. Results(t)[i] = j.found[i] \cup Got(i) /\ Results(t)[i] # {}
    BY <1>2, <1>7
  <2> HIDE DEF Got
  <2>3. QED
    BY <2>1, <2>2, <1>6
<1>11. QED
  BY <1>10 DEF n, texts, j

(* A chunk and its embedding come last, under the number of those before.  *)
LEMMA OneMoreAligned ==
  ASSUME documents \in Seq(Text), Aligned, NEW text,
         documents' = Append(documents, text), counter' = counter + 1,
         store' = Stored(counter, text)
  PROVE  Aligned'
<1> DEFINE n == Len(documents)
<1>1. /\ n \in Nat /\ counter = n /\ Len(documents') = n + 1 /\ DOMAIN documents' = 1 .. n + 1
      /\ documents'[n + 1] = text /\ \A i \in 1 .. n : documents'[i] = documents[i]
      /\ DOMAIN documents = 1 .. n
  BY DEF Aligned
<1>2. /\ DOMAIN store' = DOMAIN store \cup {n}
      /\ \A i \in DOMAIN store \cup {n} : store'[i] = IF i = n THEN text ELSE store[i]
  BY <1>1 DEF Stored
<1> HIDE DEF n
<1>3. ASSUME NEW i \in 1 .. n + 1 PROVE i - 1 \in DOMAIN store' /\ store'[i - 1] = documents'[i]
  <2>1. CASE i = n + 1
    <3>1. i - 1 = n
      BY <2>1, <1>1
    <3>2. QED
      BY <2>1, <3>1, <1>1, <1>2
  <2>2. CASE i # n + 1
    <3>1. i \in 1 .. n /\ i - 1 # n
      BY <2>2, <1>1
    <3>2. i - 1 \in DOMAIN store /\ store[i - 1] = documents[i]
      BY <3>1, <1>1 DEF Aligned
    <3>3. QED
      BY <3>1, <3>2, <1>1, <1>2
  <2>3. QED
    BY <2>1, <2>2
<1>4. QED
  BY <1>1, <1>3 DEF Aligned

(* An embedding goes under the number of the chunk it is of.               *)
LEMMA AgainAligned ==
  ASSUME documents \in Seq(Text), Aligned, NEW from \in Nat \ {0},
         UNCHANGED <<documents, counter>>, store' = Stored(from - 1, documents[from])
  PROVE  Aligned'
<1>1. /\ DOMAIN store' = DOMAIN store \cup {from - 1}
      /\ \A i \in DOMAIN store \cup {from - 1} :
           store'[i] = IF i = from - 1 THEN documents[from] ELSE store[i]
  BY DEF Stored
<1>2. ASSUME NEW i \in DOMAIN documents PROVE i - 1 \in DOMAIN store' /\ store'[i - 1] = documents[i]
  <2>1. i \in Nat /\ i - 1 \in DOMAIN store /\ store[i - 1] = documents[i]
    BY DEF Aligned
  <2>2. i - 1 = from - 1 => i = from
    BY <2>1
  <2>3. QED
    BY <2>1, <2>2, <1>1
<1>3. QED
  BY <1>2 DEF Aligned

LEMMA AlignedStays ==
  ASSUME Aligned, UNCHANGED <<documents, counter, store>>
  PROVE  Aligned'
BY DEF Aligned

LEMMA NothingAligned ==
  ASSUME documents' = <<>>, counter' = 0
  PROVE  Aligned'
BY DEF Aligned

LEMMA AddedAligned ==
  ASSUME IInv, setup.cached, Aligned, AddChunk \/ AddChunkUnsaved
  PROVE  Aligned'
<1> DEFINE text == work.chunks[work.next]
<1>1. /\ Embedded(Writer) /\ work.next <= ToStore
      /\ documents' = Append(documents, text) /\ counter' = counter + 1
      /\ store' = Stored(counter, CHOOSE of \in Results(Writer)[work.next] : TRUE)
  BY DEF AddChunk, AddChunkUnsaved
<1>2. JobsFit /\ documents \in Seq(Text) /\ Writer \in Tasks
  BY WriterIsTask DEF IInv, DataFit
<1>3. work.next \in 1 .. Len(job[Writer].texts) /\ work.chunks = job[Writer].texts
  BY <1>1, StoredChunk
<1>4. Results(Writer)[work.next] = {text}
  BY <1>1, <1>2, <1>3, ResultsAreOwn
<1>5. (CHOOSE of \in Results(Writer)[work.next] : TRUE) = text
  BY <1>4
<1> HIDE DEF text
<1>6. store' = Stored(counter, text)
  BY <1>1, <1>5
<1>7. QED
  BY <1>1, <1>2, <1>6, OneMoreAligned

LEMMA ReloadedAligned ==
  ASSUME IInv, setup.cached, Aligned, AddAgain
  PROVE  Aligned'
<1> DEFINE from == Len(documents) - Len(work.lists)
<1>1. /\ Embedded(Writer) /\ work.mode = "reload" /\ UNCHANGED <<documents, counter>>
      /\ store' = Stored(from - 1, CHOOSE of \in Results(Writer)[1] : TRUE)
  BY DEF AddAgain
<1>2. JobsFit /\ documents \in Seq(Text) /\ Writer \in Tasks /\ WorkFits /\ Again /\ Busy
  BY <1>1, WriterIsTask DEF IInv, DataFit, Embedded, Busy
<1>3. /\ from \in Nat \ {0} /\ work.chunks = <<documents[from]>>
      /\ work.chunks = job[Writer].texts
  BY <1>1, <1>2 DEF Again, WorkFits
<1> HIDE DEF from
<1>4. Results(Writer)[1] = {documents[from]}
  <2>1. job[Writer].texts = <<documents[from]>>
    BY <1>3
  <2>2. Len(job[Writer].texts) = 1 /\ job[Writer].texts[1] = documents[from]
    BY <2>1
  <2>3. QED
    BY <1>1, <1>2, <2>2, ResultsAreOwn
<1>5. store' = Stored(from - 1, documents[from])
  BY <1>1, <1>4
<1>6. QED
  BY <1>1, <1>2, <1>3, <1>5, AgainAligned

LEMMA GivenUpAligned ==
  ASSUME IInv, Aligned, DocumentFails \/ StoreFails
  PROVE  Aligned'
<1>1. GiveUp /\ job[Writer].pc \in {"ask", "done", "storing"}
  BY DEF DocumentFails, StoreFails, NotEmbedded
<1>2. work.mode \in {"add", "directory", "reload"}
  BY <1>1 DEF IInv, WorkFits, Busy
<1>3. CASE work.mode = "reload"
  <2>1. Forget
    BY <1>1, <1>3 DEF GiveUp
  <2>2. QED
    BY <2>1, NothingAligned DEF Forget
<1>4. CASE work.mode # "reload"
  <2>1. UNCHANGED memoryVars
    BY <1>1, <1>2, <1>4 DEF GiveUp
  <2>2. QED
    BY <2>1, AlignedStays DEF memoryVars
<1>5. QED
  BY <1>3, <1>4

(* Behind the cache, no failing document, no blank chunk, no file that     *)
(* cannot be written and no crash separates the chunks from their          *)
(* embeddings: only a store with a file that is cleared, or a system that  *)
(* is loaded, can.                                                         *)
THEOREM AlignmentIsKept == Spec => KeepsAligned
<1>1. ASSUME IInv, [Next]_vars, setup.cached, Aligned PROVE Aligned' \/ LoadSystem \/ (inFile /\ Clear)
  <2>1. CASE AddChunk \/ AddChunkUnsaved
    BY <1>1, <2>1, AddedAligned
  <2>2. CASE AddAgain
    BY <1>1, <2>2, ReloadedAligned
  <2>3. CASE DocumentFails \/ StoreFails
    BY <1>1, <2>3, GivenUpAligned
  <2>4. CASE Start \/ Crash
    BY <2>4, NothingAligned DEF Start, Crash, Forget
  <2>5. CASE Clear /\ ~inFile
    BY <2>5, NothingAligned DEF Clear
  <2>6. CASE ClearSaved
    <3>1. documents' = <<>> /\ counter' = 0
      BY <1>1, <2>6 DEF ClearSaved, EndClear, IInv, WorkFits
    <3>2. QED
      BY <3>1, NothingAligned
  <2>7. ASSUME NEW t \in Tasks, TaskStep(t) PROVE Aligned'
    <3>1. UNCHANGED <<documents, counter, store>>
      BY <2>7 DEF TaskStep, ServiceAnswers, Insert, Evict, CopyCache, TruncateCacheFile, WriteCacheFile,
         Retrieve, Search, ClearCache, SaveCache, LoadCache, memoryVars
    <3>2. QED
      BY <1>1, <3>1, AlignedStays
  <2>8. CASE \/ AddDocuments \/ NextDocument \/ DocumentsDone \/ NothingToStore \/ StoreSaved
             \/ ClearFails \/ SaveSystem \/ IntervalElapses \/ SplitAny \/ UNCHANGED vars
    <3>1. UNCHANGED <<documents, counter, store>>
      BY Zenon, <2>8 DEF AddDocuments, NextDocument, DocumentsDone, NothingToStore, StoreSaved, ClearFails,
         SaveSystem, IntervalElapses, SplitAny, vars, memoryVars
    <3>2. QED
      BY SMTT(30), <1>1, <3>1, AlignedStays
  <2>9. QED
    BY <1>1, <2>1, <2>2, <2>3, <2>4, <2>5, <2>6, <2>7, <2>8 DEF Next, WriterStep
<1>2. IInv /\ [Next]_vars
        => [setup.cached /\ Aligned /\ ~Aligned' => LoadSystem \/ (inFile /\ Clear)]_vars
  BY <1>1
<1>3. QED
  BY <1>2, InitFits, NextFits, PTL DEF Spec, KeepsAligned
=============================================================================
