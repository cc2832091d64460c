----------------------------- MODULE RingLemmas -----------------------------
(***************************************************************************)
(* Facts the proofs of several modules need: about rings, which keep entry *)
(* n at n % size, about messages in flight, of which one is received and   *)
(* those before it are gone, and induction and sums.                       *)
(***************************************************************************)
EXTENDS Integers, Sequences, SequenceTheorems, WellFoundedInduction, TLAPS

(***************************************************************************)
(* An entry has a place in the ring.                                       *)
(***************************************************************************)
LEMMA SlotInRing ==
  ASSUME NEW size \in Nat \ {0}, NEW n \in Int
  PROVE  n % size \in 0 .. size - 1
  OBVIOUS

(***************************************************************************)
(* A whole number of rings is at least one ring.                           *)
(***************************************************************************)
LEMMA WholeRings ==
  ASSUME NEW size \in Nat \ {0}, NEW d \in Int, d >= 1
  PROVE  size * d >= size
  OBVIOUS

(***************************************************************************)
(* Two entries less than a ring apart never share a place.                 *)
(***************************************************************************)
LEMMA SlotsDiffer ==
  ASSUME NEW size \in Nat \ {0}, NEW a \in Int, NEW b \in Int,
         a < b, b - a < size
  PROVE  a % size # b % size
<1> SUFFICES ASSUME a % size = b % size
             PROVE  FALSE
  OBVIOUS
<1> DEFINE p == a \div size
           q == b \div size
<1>1. p \in Int /\ q \in Int
  OBVIOUS
<1>2. a = size * p + (a % size) /\ b = size * q + (a % size)
  OBVIOUS
<1>3. a % size \in Int
  BY SlotInRing
<1> HIDE DEF p, q
<1>4. b - a = size * (q - p)
  BY <1>1, <1>2, <1>3
<1>5. CASE q - p >= 1
  <2>1. size * (q - p) >= size
    BY <1>1, <1>5, WholeRings
  <2> QED
    BY <1>4, <2>1
<1>6. CASE p - q >= 1
  <2>1. size * (p - q) >= size
    BY <1>1, <1>6, WholeRings
  <2>2. size * (p - q) = - (size * (q - p))
    BY <1>1
  <2> QED
    BY <1>4, <2>1, <2>2
<1>7. CASE p = q
  BY <1>2, <1>3, <1>7
<1> QED
  BY <1>1, <1>5, <1>6, <1>7

(***************************************************************************)
(* A remainder is known by being small enough.                             *)
(***************************************************************************)
LEMMA RemainderUnique ==
  ASSUME NEW size \in Nat \ {0}, NEW q \in Int, NEW r \in 0 .. size - 1
  PROVE  (size * q + r) % size = r
<1> DEFINE n == size * q + r
           e == n \div size
           f == n % size
<1>1. n \in Int /\ e \in Int
  OBVIOUS
<1>2. n = size * e + f
  OBVIOUS
<1>3. f \in 0 .. size - 1
  BY <1>1, SlotInRing
<1>4. n = size * q + r
  OBVIOUS
<1> HIDE DEF n, e, f
<1>5. size * (q - e) = f - r /\ size * (e - q) = r - f
  BY <1>1, <1>2, <1>3, <1>4
<1>6. f = r
  <2>1. CASE q - e >= 1
    <3>1. size * (q - e) >= size
      BY <1>1, <2>1, WholeRings
    <3> QED
      BY <1>3, <1>5, <3>1
  <2>2. CASE e - q >= 1
    <3>1. size * (e - q) >= size
      BY <1>1, <2>2, WholeRings
    <3> QED
      BY <1>3, <1>5, <3>1
  <2>3. CASE q = e
    BY <1>1, <1>2, <1>3, <1>4, <2>3
  <2> QED
    BY <1>1, <2>1, <2>2, <2>3
<1> QED
  BY <1>6 DEF f, n

(***************************************************************************)
(* A number within the ring is its own remainder.                          *)
(***************************************************************************)
LEMMA RemainderSmall ==
  ASSUME NEW size \in Nat \ {0}, NEW r \in 0 .. size - 1
  PROVE  r % size = r
<1>1. \A q \in Int : (size * q + r) % size = r
  BY RemainderUnique
<1>2. (size * 0 + r) % size = r /\ size * 0 + r = r
  <2>1. 0 \in Int
    OBVIOUS
  <2>2. (size * 0 + r) % size = r
    BY <1>1, <2>1, Zenon
  <2>3. size * 0 + r = r
    OBVIOUS
  <2> QED
    BY <2>2, <2>3
<1> QED
  BY <1>2, Zenon

(***************************************************************************)
(* The newest entries, as many as the ring has places, take every place.   *)
(***************************************************************************)
LEMMA PlaceTaken ==
  ASSUME NEW size \in Nat \ {0}, NEW place \in 0 .. size - 1, NEW last \in Int
  PROVE  \E n \in last - size + 1 .. last : n % size = place
<1>1. PICK q \in Int, r \in 0 .. size - 1 : last = size * q + r
  <2>1. last = size * (last \div size) + (last % size)
    OBVIOUS
  <2>2. (last \div size) \in Int
    OBVIOUS
  <2> QED
    BY <2>1, <2>2, SlotInRing
<1>2. ASSUME NEW p \in Int
      PROVE  (size * p + place) % size = place
  BY RemainderUnique
<1>3. CASE place <= r
  <2>1. size * q \in Int /\ size * q + place \in last - size + 1 .. last
    BY <1>1, <1>3
  <2> QED
    BY <1>1, <1>2, <2>1
<1>4. CASE place > r
  <2>1. size * (q - 1) = size * q - size
    BY <1>1
  <2>2. size * (q - 1) + place \in last - size + 1 .. last
    BY <1>1, <1>4, <2>1
  <2>3. (size * (q - 1) + place) % size = place
    BY <1>1, <1>2
  <2> QED
    BY <2>2, <2>3
<1> QED
  BY <1>1, <1>3, <1>4

(***************************************************************************)
(* What is in flight after message i has been received.                    *)
(***************************************************************************)
LEMMA Suffix ==
  ASSUME NEW S, NEW s \in Seq(S), NEW i \in 1 .. Len(s)
  PROVE  LET t == SubSeq(s, i + 1, Len(s))
         IN  /\ t \in Seq(S)
             /\ Len(t) = Len(s) - i
             /\ \A j \in 1 .. Len(t) : i + j \in 1 .. Len(s) /\ t[j] = s[i + j]
<1>1. Len(s) \in Nat /\ i \in Nat /\ i >= 1 /\ i <= Len(s)
  OBVIOUS
<1>2. \A j \in i + 1 .. Len(s) : s[j] \in S
  BY <1>1
<1> DEFINE t == SubSeq(s, i + 1, Len(s))
<1>3. /\ t \in Seq(S)
      /\ Len(t) = IF i + 1 <= Len(s) THEN Len(s) - (i + 1) + 1 ELSE 0
      /\ \A j \in 1 .. Len(s) - (i + 1) + 1 : t[j] = s[(i + 1) + j - 1]
  BY <1>1, <1>2, SubSeqProperties
<1> HIDE DEF t
<1>4. Len(t) = Len(s) - i
  BY <1>1, <1>3
<1>5. \A j \in 1 .. Len(t) : i + j \in 1 .. Len(s) /\ t[j] = s[i + j]
  <2> TAKE j \in 1 .. Len(t)
  <2>1. j \in 1 .. Len(s) - (i + 1) + 1 /\ (i + 1) + j - 1 = i + j
    BY <1>1, <1>4
  <2> QED
    BY <1>1, <1>3, <1>4, <2>1
<1> QED
  BY <1>3, <1>4, <1>5 DEF t

(***************************************************************************)
(* What is in flight after one more message has been sent.                 *)
(***************************************************************************)
LEMMA Appended ==
  ASSUME NEW S, NEW s \in Seq(S), NEW e \in S
  PROVE  /\ Append(s, e) \in Seq(S)
         /\ Len(Append(s, e)) = Len(s) + 1
         /\ Append(s, e)[Len(s) + 1] = e
         /\ \A j \in 1 .. Len(s) : Append(s, e)[j] = s[j]
  OBVIOUS

(***************************************************************************)
(* A sequence without its first element.                                   *)
(***************************************************************************)
LEMMA Shortened ==
  ASSUME NEW S, NEW s \in Seq(S), s # << >>
  PROVE  /\ Tail(s) \in Seq(S)
         /\ Len(s) \in Nat /\ Len(s) >= 1
         /\ Len(Tail(s)) = Len(s) - 1
         /\ Head(s) = s[1] /\ Head(s) \in S
         /\ \A j \in 1 .. Len(Tail(s)) : j + 1 \in 1 .. Len(s) /\ Tail(s)[j] = s[j + 1]
  OBVIOUS

(***************************************************************************)
(* Going on from a place in the ring is going on from the entry there.     *)
(***************************************************************************)
LEMMA SlotAfterSlot ==
  ASSUME NEW size \in Nat \ {0}, NEW a \in Int, NEW b \in Int
  PROVE  ((a % size) + b) % size = (a + b) % size
<1> DEFINE q == a \div size
           r == a % size
           e == (r + b) \div size
           f == (r + b) % size
<1>1. q \in Int /\ a = size * q + r
  OBVIOUS
<1>2. r \in 0 .. size - 1
  BY SlotInRing
<1>3. e \in Int /\ r + b = size * e + f
  BY <1>2
<1>4. f \in 0 .. size - 1
  BY <1>2, SlotInRing
<1>5. a + b = size * (q + e) + f
  <2> HIDE DEF q, r, e, f
  <2> QED
    BY <1>1, <1>2, <1>3, <1>4
<1>6. (size * (q + e) + f) % size = f
  <2> HIDE DEF q, e, f
  <2>1. q + e \in Int
    BY <1>1, <1>3
  <2> QED
    BY <1>4, <2>1, RemainderUnique
<1> QED
  BY <1>5, <1>6

(***************************************************************************)
(* Once round the ring is the same place.                                  *)
(***************************************************************************)
LEMMA OnceRound ==
  ASSUME NEW size \in Nat \ {0}, NEW a \in Int
  PROVE  (a + size) % size = a % size
<1> DEFINE q == a \div size
           r == a % size
<1>1. q \in Int /\ a = size * q + r
  OBVIOUS
<1>2. r \in 0 .. size - 1
  BY SlotInRing
<1> HIDE DEF q, r
<1>3. a + size = size * (q + 1) + r
  BY <1>1, <1>2
<1>4. (size * (q + 1) + r) % size = r
  BY <1>1, <1>2, RemainderUnique
<1>5. (a + size) % size = r
  BY <1>3, <1>4
<1> QED
  BY <1>5 DEF r

(***************************************************************************)
(* A set of numbers has a least one.                                       *)
(***************************************************************************)
LEMMA Least ==
  ASSUME NEW T, T \subseteq Nat, T # {}
  PROVE  \E x \in T : \A y \in T : x <= y
<1> DEFINE R == OpToRel(<, Nat)
<1>1. IsWellFoundedOn(R, Nat)
  BY NatLessThanWellFounded
<1>2. \A x, y \in Nat : <<y, x>> \in R <=> y < x
  BY DEF OpToRel
<1> HIDE DEF R
<1>3. PICK x \in T : \A y \in T : ~ (<<y, x>> \in R)
  BY <1>1, WFMin
<1>4. ASSUME NEW y \in T PROVE x <= y
  <2>1. ~ (<<y, x>> \in R)
    BY <1>3
  <2>2. x \in Nat /\ y \in Nat
    OBVIOUS
  <2>3. ~ (y < x)
    BY <1>2, <2>1, <2>2
  <2> QED
    BY <2>2, <2>3
<1> QED
  BY <1>4

(***************************************************************************)
(* Induction.  The library states it for predicates, which the provers do  *)
(* not instantiate; this is for the set of numbers that satisfy one.       *)
(***************************************************************************)
LEMMA Induction ==
  ASSUME NEW T, 0 \in T, \A n \in Nat : n \in T => n + 1 \in T
  PROVE  Nat \subseteq T
<1> DEFINE U == {n \in Nat : n \notin T}
<1> SUFFICES ASSUME U # {} PROVE FALSE
  OBVIOUS
<1>1. PICK x \in U : \A y \in U : x <= y
  BY Least
<1>2. x # 0
  OBVIOUS
<1>3. x - 1 \in Nat /\ x - 1 \notin U
  BY <1>1, <1>2
<1> QED
  BY <1>3

(***************************************************************************)
(* Sums: adding the numbers c to x one after the other.                    *)
(***************************************************************************)
IsSum(g, a, b, x, c) == g = [v \in a .. b |-> IF v = a THEN x ELSE g[v - 1] + c[v - 1]]

(***************************************************************************)
(* Any finitely many numbers have such sums.                               *)
(***************************************************************************)
LEMMA SumExists ==
  ASSUME NEW a \in Int, NEW x, NEW c, NEW k \in Nat
  PROVE  \E g : IsSum(g, a, a + k, x, c)
<1> DEFINE T == {n \in Nat : \E g : IsSum(g, a, a + n, x, c)}
<1>1. 0 \in T
  <2> DEFINE g == [v \in a .. a + 0 |-> x]
  <2>1. \A v \in a .. a + 0 : v = a
    OBVIOUS
  <2>2. IsSum(g, a, a + 0, x, c)
    BY <2>1 DEF IsSum
  <2> HIDE DEF g
  <2> QED
    BY <2>2
<1>2. ASSUME NEW n \in Nat, n \in T PROVE n + 1 \in T
  <2>1. PICK g : IsSum(g, a, a + n, x, c)
    BY <1>2
  <2> DEFINE h == [v \in a .. a + (n + 1) |-> IF v = a THEN x ELSE g[v - 1] + c[v - 1]]
  <2>2. \A v \in a .. a + n : g[v] = IF v = a THEN x ELSE g[v - 1] + c[v - 1]
    BY <2>1 DEF IsSum
  <2>3. \A v \in a .. a + n : h[v] = g[v]
    BY <2>2
  <2>4. h = [v \in a .. a + (n + 1) |-> IF v = a THEN x ELSE h[v - 1] + c[v - 1]]
    <3>1. ASSUME NEW v \in a .. a + (n + 1), v # a PROVE v - 1 \in a .. a + n
      BY <3>1
    <3> QED
      BY <2>3, <3>1
  <2>5. IsSum(h, a, a + (n + 1), x, c)
    BY <2>4 DEF IsSum
  <2> QED
    BY <2>5
<1>3. k \in T
  BY <1>1, <1>2, Induction
<1> QED
  BY <1>3

(***************************************************************************)
(* Two such sums are the same if their terms are.                          *)
(***************************************************************************)
LEMMA SumUnique ==
  ASSUME NEW a \in Int, NEW b \in Int, NEW x, NEW c, NEW d, NEW g, NEW h,
         IsSum(g, a, b, x, c), IsSum(h, a, b, x, d),
         \A v \in a .. b - 1 : c[v] = d[v]
  PROVE  \A v \in a .. b : g[v] = h[v]
<1> DEFINE T == {n \in Nat : a + n <= b => g[a + n] = h[a + n]}
<1>1. \A v \in a .. b : /\ g[v] = IF v = a THEN x ELSE g[v - 1] + c[v - 1]
                       /\ h[v] = IF v = a THEN x ELSE h[v - 1] + d[v - 1]
  BY DEF IsSum
<1>2. 0 \in T
  BY <1>1
<1>3. ASSUME NEW n \in Nat, n \in T PROVE n + 1 \in T
  <2> SUFFICES ASSUME a + (n + 1) <= b PROVE g[a + (n + 1)] = h[a + (n + 1)]
    OBVIOUS
  <2>1. g[a + n] = h[a + n] /\ c[a + n] = d[a + n]
    BY <1>3
  <2>2. a + (n + 1) \in a .. b /\ a + (n + 1) # a /\ (a + (n + 1)) - 1 = a + n
    OBVIOUS
  <2> QED
    BY <1>1, <2>1, <2>2
<1>4. Nat \subseteq T
  BY <1>2, <1>3, Induction
<1>5. ASSUME NEW v \in a .. b PROVE g[v] = h[v]
  <2>1. v - a \in Nat /\ a + (v - a) = v
    OBVIOUS
  <2>2. v - a \in T
    BY <1>4, <2>1
  <2> QED
    BY <2>1, <2>2
<1> QED
  BY <1>5
=============================================================================
