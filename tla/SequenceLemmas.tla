--------------------------- MODULE SequenceLemmas ---------------------------
(* Facts about numbers and sequences. *)
EXTENDS Integers, SequencesExt, FiniteSetTheorems, SequenceTheorems, WellFoundedInduction, TLAPS

Below == OpToRel(<, Nat)

(* The order of the numbers as a relation, which the well-foundedness theorem *)
(* is about.                                                                  *)
LEMMA BelowDef == \A x, y \in Nat : <<x, y>> \in Below <=> x < y
BY Zenon DEF Below, OpToRel

(* There is no infinite descent in the natural numbers. *)
LEMMA BelowWellFounded == IsWellFoundedOn(Below, Nat)
BY NatLessThanWellFounded, Zenon DEF Below

(* Every nonempty set of numbers has a least element. A proof by least *)
(* counterexample uses it where one would use induction.               *)
LEMMA LeastNumber ==
    ASSUME NEW T, T \subseteq Nat, T # {}
    PROVE  \E m \in T : \A n \in T : m <= n
<1>1. \E x \in T : \A y \in T : ~ (<<y, x>> \in Below)
  BY BelowWellFounded, WFMin
<1>2. PICK m \in T : \A y \in T : ~ (<<y, m>> \in Below)
  BY <1>1
<1>3. \A n \in T : m \in Nat /\ n \in Nat /\ ~(n < m)
  BY <1>2, BelowDef
<1>4. \A n \in T : m <= n
  BY <1>3
<1> QED
  BY <1>4

-----------------------------------------------------------------------------
(* A finite set of numbers in increasing order. *)

PlaceIn(S, x) == Cardinality({y \in S : y <= x})

Increasing(s) == \A i, j \in DOMAIN s : i < j => s[i] < s[j]

(* The place of an element is between 1 and the size of the set, and grows *)
(* with it.                                                                *)
LEMMA PlaceInProperties ==
    ASSUME NEW S, \A x \in S : x \in Int, IsFiniteSet(S)
    PROVE  /\ \A x \in S : PlaceIn(S, x) \in 1..Cardinality(S)
           /\ \A x, y \in S : x < y => PlaceIn(S, x) < PlaceIn(S, y)
<1> DEFINE upTo(x) == {y \in S : y <= x}
<1>1. \A x \in Int : upTo(x) \in SUBSET S /\ IsFiniteSet(upTo(x)) /\ Cardinality(upTo(x)) \in Nat
                 /\ Cardinality(upTo(x)) <= Cardinality(S)
  BY FS_Subset, FS_CardinalityType
<1>2. Cardinality(S) \in Nat
  BY FS_CardinalityType
<1>3. ASSUME NEW x \in S PROVE PlaceIn(S, x) \in 1..Cardinality(S)
  <2>1. upTo(x) # {}
    OBVIOUS
  <2>2. Cardinality(upTo(x)) # 0
    BY <2>1, <1>1, FS_EmptySet
  <2> QED
    BY <2>2, <1>1, <1>2 DEF PlaceIn
<1>4. ASSUME NEW x \in S, NEW y \in S, x < y PROVE PlaceIn(S, x) < PlaceIn(S, y)
  <2>0. /\ x \in Int /\ y \in Int /\ x < y
        /\ \A z \in S : z \in Int /\ (z <= x => z <= y)
    BY <1>4
  <2>1. upTo(x) \in SUBSET upTo(y)
    BY <2>0
  <2>2. upTo(x) # upTo(y)
    BY <1>4
  <2>3. /\ Cardinality(upTo(x)) <= Cardinality(upTo(y))
        /\ Cardinality(upTo(y)) = Cardinality(upTo(x)) => upTo(y) = upTo(x)
    BY <2>1, <1>1, FS_Subset
  <2> QED
    BY <2>2, <2>3, <1>1 DEF PlaceIn
<1> QED
  BY <1>3, <1>4

(* Every place is some element's. *)
LEMMA PlaceInOnto ==
    ASSUME NEW S, \A x \in S : x \in Int, IsFiniteSet(S)
    PROVE  \A k \in 1..Cardinality(S) : \E x \in S : PlaceIn(S, x) = k
<1> DEFINE n == Cardinality(S)
           f == [x \in S |-> PlaceIn(S, x)]
<1>1. n \in Nat
  BY FS_CardinalityType
<1>2. IsFiniteSet(1..n) /\ Cardinality(1..n) = n
  BY <1>1, FS_Interval
<1>3. f \in [S -> 1..n] /\ \A x, y \in S : f[x] = f[y] => x = y
  <2>1. f \in [S -> 1..n] /\ \A x \in S : f[x] = PlaceIn(S, x) /\ f[x] \in Nat /\ x \in Int
    BY <1>1, PlaceInProperties
  <2> HIDE DEF f
  <2>2. \A x, y \in S : x < y => f[x] < f[y]
    BY <2>1, PlaceInProperties
  <2>3. \A x, y \in S : f[x] = f[y] => ~(x < y) /\ ~(y < x)
    BY <2>1, <2>2
  <2> QED
    BY <2>1, <2>3
<1>4. f \in Injection(S, 1..n)
  BY <1>3 DEF Injection, IsInjective
<1>5. f \in Surjection(S, 1..n)
  BY <1>4, <1>2, FS_Injection
<1> QED
  BY <1>5 DEF Surjection

(* A finite set of numbers can be listed in increasing order. *)
LEMMA InOrderExists ==
    ASSUME NEW S, \A x \in S : x \in Int, IsFiniteSet(S)
    PROVE  \E s \in [1..Cardinality(S) -> S] : Increasing(s)
<1> DEFINE n == Cardinality(S)
           s == [k \in 1..n |-> CHOOSE x \in S : PlaceIn(S, x) = k]
<1>1. \A k \in 1..n : s[k] \in S /\ PlaceIn(S, s[k]) = k
  BY PlaceInOnto
<1>2. ASSUME NEW i \in 1..n, NEW j \in 1..n, i < j PROVE s[i] < s[j]
  <2>1. n \in Nat
    BY FS_CardinalityType
  <2>2. s[i] \in S /\ s[j] \in S /\ PlaceIn(S, s[i]) = i /\ PlaceIn(S, s[j]) = j
    BY <1>1
  <2> HIDE DEF s
  <2>3. i \in Int /\ j \in Int /\ ~(j < i) /\ i # j
    BY <1>2, <2>1
  <2>4. ~(s[j] < s[i]) /\ s[i] # s[j]
    BY <2>2, <2>3, PlaceInProperties
  <2> QED
    BY <2>2, <2>4
<1> QED
  BY <1>1, <1>2 DEF Increasing

(* There is only one, and it has every number of the set. *)
LEMMA InOrderProperties ==
    ASSUME NEW S, \A x \in S : x \in Int, IsFiniteSet(S),
           NEW s \in [1..Cardinality(S) -> S], Increasing(s)
    PROVE  /\ \A i, j \in DOMAIN s : s[i] = s[j] => i = j
           /\ \A x \in S : \E i \in DOMAIN s : s[i] = x
           /\ s \in Seq(S) /\ Len(s) = Cardinality(S)
<1> DEFINE n == Cardinality(S)
<1>1. n \in Nat
  BY FS_CardinalityType
<1>2. \A i, j \in 1..n : s[i] = s[j] => i = j
  <2>1. \A i \in 1..n : i \in Int /\ s[i] \in Int
    BY <1>1
  <2>2. \A i, j \in 1..n : i < j => s[i] < s[j]
    BY DEF Increasing
  <2> HIDE DEF n
  <2> QED
    BY <2>1, <2>2
<1>3. s \in Injection(1..n, S)
  BY <1>2 DEF Injection, IsInjective
<1>4. Cardinality(1..n) = n
  BY <1>1, FS_Interval
<1>5. s \in Surjection(1..n, S)
  BY <1>3, <1>4, FS_Injection
<1> QED
  BY <1>1, <1>2, <1>5 DEF Surjection

-----------------------------------------------------------------------------
(* A longer sequence as a function on its places. *)
LEMMA AppendAsFunction ==
    ASSUME NEW A, NEW s \in Seq(A), NEW x \in A, NEW n, n = Len(s)
    PROVE  Append(s, x) = [k \in 1..(n + 1) |-> IF k = n + 1 THEN x ELSE s[k]]
<1> DEFINE t == Append(s, x)
<1>1. t \in Seq(A) /\ Len(t) = n + 1 /\ n \in Nat
      /\ \A k \in 1..(n + 1) : t[k] = IF k = n + 1 THEN x ELSE s[k]
  BY AppendProperties
<1> HIDE DEF t
<1>2. t = [k \in 1..(n + 1) |-> t[k]]
  BY <1>1
<1> QED
  BY <1>1, <1>2 DEF t

(* FlattenSeq is defined by a recursive function: there is one, and only one. *)

IsFlat(g, s) == g = [i \in 1..Len(s) |-> IF i = 1 THEN s[i] ELSE g[i - 1] \o s[i]]

(* Only one function can be the running concatenation of a sequence. *)
LEMMA FlatUnique ==
    ASSUME NEW s, Len(s) \in Nat, NEW g, NEW h, IsFlat(g, s), IsFlat(h, s)
    PROVE  g = h
<1> DEFINE n == Len(s)
           T == {i \in 1..n : g[i] # h[i]}
<1>1. SUFFICES ASSUME T # {} PROVE FALSE
  <2>1. g = [i \in 1..n |-> g[i]] /\ h = [i \in 1..n |-> h[i]]
    BY DEF IsFlat
  <2>2. T = {} => \A i \in 1..n : g[i] = h[i]
    OBVIOUS
  <2> QED
    BY <1>1, <2>1, <2>2
<1>2. \A i \in T : i \in Nat
  OBVIOUS
<1>3. T \subseteq Nat
  BY <1>2
<1>4. PICK m \in T : \A i \in T : m <= i
  BY <1>1, <1>3, LeastNumber
<1>5. m \in 1..n /\ g[m] # h[m]
  BY <1>4
<1>6. \A i \in 1..n : /\ g[i] = IF i = 1 THEN s[i] ELSE g[i - 1] \o s[i]
                      /\ h[i] = IF i = 1 THEN s[i] ELSE h[i - 1] \o s[i]
  BY DEF IsFlat
<1>7. m # 1
  BY <1>5, <1>6
<1>8. m - 1 \in 1..n /\ m - 1 < m
  BY <1>5, <1>7
<1>9. m - 1 \notin T
  <2> HIDE DEF T
  <2> QED
    BY <1>4, <1>8, <1>2
<1>10. g[m - 1] = h[m - 1]
  BY <1>8, <1>9
<1> QED
  BY <1>5, <1>6, <1>7, <1>10

(* And one exists: a least place it cannot be extended to would be a *)
(* contradiction.                                                    *)
LEMMA FlatExists ==
    ASSUME NEW A, NEW s \in Seq(Seq(A))
    PROVE  \E g \in [1..Len(s) -> Seq(A)] : IsFlat(g, s)
<1> DEFINE n == Len(s)
           Upto(g, k) == /\ g \in [1..k -> Seq(A)]
                         /\ \A i \in 1..k : g[i] = IF i = 1 THEN s[i] ELSE g[i - 1] \o s[i]
           T == {k \in 0..n : ~\E g : Upto(g, k)}
<1>0. n \in Nat /\ \A i \in 1..n : s[i] \in Seq(A)
  OBVIOUS
<1>1. T = {}
  <2>1. SUFFICES ASSUME T # {} PROVE FALSE
    OBVIOUS
  <2>2. \A k \in T : k \in Nat
    OBVIOUS
  <2>3. PICK m \in T : \A k \in T : m <= k
    <3>1. T \subseteq Nat
      BY <2>2
    <3> QED
      BY <2>1, <3>1, LeastNumber
  <2>4. m # 0
    <3>1. Upto([i \in 1..0 |-> <<>>], 0)
      OBVIOUS
    <3> QED
      BY <3>1, <2>3
  <2>5. m \in 1..n /\ m - 1 \in 0..n /\ m - 1 < m
    BY <2>3, <2>4, <1>0
  <2>6. m - 1 \notin T
    <3> HIDE DEF T
    <3> QED
      BY <2>3, <2>5, <2>2
  <2>7. PICK g : Upto(g, m - 1)
    BY <2>5, <2>6
  <2> DEFINE h == [i \in 1..m |-> IF i < m THEN g[i]
                                  ELSE IF m = 1 THEN s[m] ELSE g[m - 1] \o s[m]]
  <2>8. \A i \in 1..m : i < m => i \in 1..(m - 1)
    BY <2>5
  <2>9. h \in [1..m -> Seq(A)]
    <3>1. \A i \in 1..m : i < m => g[i] \in Seq(A)
      BY <2>7, <2>8
    <3>2. m # 1 => m - 1 \in 1..(m - 1)
      BY <2>5
    <3>3. m # 1 => g[m - 1] \o s[m] \in Seq(A)
      <4>1. m # 1 => g[m - 1] \in Seq(A)
        BY <3>2, <2>7
      <4> QED
        BY <4>1, <1>0, <2>5, ConcatProperties
    <3> QED
      BY <3>1, <3>3, <1>0, <2>5
  <2>10. \A i \in 1..m : h[i] = IF i = 1 THEN s[i] ELSE h[i - 1] \o s[i]
    <3> SUFFICES ASSUME NEW i \in 1..m PROVE h[i] = IF i = 1 THEN s[i] ELSE h[i - 1] \o s[i]
      OBVIOUS
    <3>1. CASE i < m
      <4>1. i \in 1..(m - 1) /\ (i # 1 => i - 1 \in 1..m /\ i - 1 < m)
        BY <3>1, <2>5
      <4>2. h[i] = g[i] /\ (i # 1 => h[i - 1] = g[i - 1])
        BY <4>1, <3>1
      <4>3. g[i] = IF i = 1 THEN s[i] ELSE g[i - 1] \o s[i]
        BY <4>1, <2>7
      <4> QED
        BY <4>2, <4>3
    <3>2. CASE i = m
      <4>1. m # 1 => m - 1 \in 1..m /\ m - 1 < m
        BY <2>5
      <4>2. m # 1 => h[m - 1] = g[m - 1]
        BY <4>1
      <4>3. h[m] = IF m = 1 THEN s[m] ELSE g[m - 1] \o s[m]
        BY <2>5
      <4> QED
        BY <3>2, <4>2, <4>3
    <3> QED
      BY <3>1, <3>2, <2>5
  <2>11. Upto(h, m)
    BY <2>9, <2>10
  <2> QED
    BY <2>11, <2>3
<1>2. n \in 0..n
  BY <1>0
<1>3. PICK g : Upto(g, n)
  BY <1>1, <1>2
<1>4. g = [i \in 1..n |-> IF i = 1 THEN s[i] ELSE g[i - 1] \o s[i]]
  BY <1>3
<1> QED
  BY <1>3, <1>4 DEF IsFlat

(* So the concatenation of a sequence of sequences is the last value of that *)
(* function.                                                                 *)
LEMMA FlattenBy ==
    ASSUME NEW A, NEW s \in Seq(Seq(A)), s # <<>>, NEW g, IsFlat(g, s)
    PROVE  FlattenSeq(s) = g[Len(s)]
<1> DEFINE f == CHOOSE f : IsFlat(f, s)
<1>1. Len(s) # 0 /\ Len(s) \in Nat
  OBVIOUS
<1>2. IsFlat(f, s)
  OBVIOUS
<1>3. f = g
  <2> HIDE DEF f
  <2> QED
    BY <1>1, <1>2, FlatUnique
<1>4. FlattenSeq(s) = f[Len(s)]
  BY <1>1 DEF FlattenSeq, IsFlat
<1> QED
  BY <1>3, <1>4

(* What it computes. *)
LEMMA FlattenEmpty == FlattenSeq(<<>>) = <<>>
BY DEF FlattenSeq

(* A concatenation of sequences over a set is a sequence over it. *)
LEMMA FlattenType ==
    ASSUME NEW A, NEW s \in Seq(Seq(A)) PROVE FlattenSeq(s) \in Seq(A)
<1>1. CASE s = <<>>
  <2>1. FlattenSeq(s) = <<>>
    BY <1>1, FlattenEmpty
  <2> QED
    BY <2>1
<1>2. CASE s # <<>>
  <2>1. PICK g \in [1..Len(s) -> Seq(A)] : IsFlat(g, s)
    BY FlatExists
  <2>2. Len(s) \in 1..Len(s)
    BY <1>2
  <2>3. g[Len(s)] \in Seq(A)
    BY <2>1, <2>2
  <2>4. FlattenSeq(s) = g[Len(s)]
    BY <1>2, <2>1, FlattenBy
  <2> QED
    BY <2>3, <2>4
<1> QED
  BY <1>1, <1>2

(* One piece more is appended to the concatenation. *)
LEMMA FlattenAppend ==
    ASSUME NEW A, NEW s \in Seq(Seq(A)), NEW x \in Seq(A)
    PROVE  FlattenSeq(Append(s, x)) = FlattenSeq(s) \o x
<1> DEFINE t == Append(s, x)
           n == Len(s)
<1>0. n \in Nat /\ t \in Seq(Seq(A)) /\ Len(t) = n + 1 /\ t # <<>> /\ t[n + 1] = x
      /\ \A i \in 1..n : t[i] = s[i]
  BY AppendProperties
<1> HIDE DEF t
<1>1. PICK g \in [1..Len(t) -> Seq(A)] : IsFlat(g, t)
  BY <1>0, FlatExists
<1>2. FlattenSeq(t) = g[n + 1]
  BY <1>0, <1>1, FlattenBy
<1>3. g[n + 1] = IF n = 0 THEN x ELSE g[n] \o x
  <2>1. n + 1 \in 1..Len(t) /\ (n + 1 = 1 <=> n = 0) /\ (n + 1) - 1 = n
    BY <1>0
  <2>2. g[n + 1] = IF n + 1 = 1 THEN t[n + 1] ELSE g[(n + 1) - 1] \o t[n + 1]
    BY <2>1, <1>1 DEF IsFlat
  <2> QED
    BY <2>1, <2>2, <1>0
<1>4. CASE s = <<>>
  <2>1. n = 0 /\ FlattenSeq(s) = <<>>
    BY <1>4, FlattenEmpty
  <2> QED
    BY <2>1, <1>2, <1>3, ConcatEmptySeq DEF t
<1>5. CASE s # <<>>
  <2>1. n # 0 /\ n \in 1..Len(t)
    BY <1>5, <1>0
  <2> DEFINE h == [i \in 1..n |-> g[i]]
  <2>2. ASSUME NEW i \in 1..n PROVE h[i] = IF i = 1 THEN s[i] ELSE h[i - 1] \o s[i]
    <3>1. i \in 1..Len(t) /\ t[i] = s[i] /\ (i # 1 => i - 1 \in 1..n)
      BY <1>0
    <3>2. g[i] = IF i = 1 THEN t[i] ELSE g[i - 1] \o t[i]
      BY <3>1, <1>1 DEF IsFlat
    <3>3. h[i] = g[i] /\ (i # 1 => h[i - 1] = g[i - 1])
      BY <3>1
    <3> QED
      BY <3>1, <3>2, <3>3
  <2>3. IsFlat(h, s)
    <3>1. h = [i \in 1..n |-> h[i]]
      OBVIOUS
    <3> HIDE DEF h
    <3> QED
      BY <3>1, <2>2 DEF IsFlat
  <2>4. FlattenSeq(s) = h[n]
    <3> HIDE DEF h
    <3> QED
      BY <2>3, <1>5, FlattenBy
  <2>5. h[n] = g[n]
    BY <2>1, <1>0
  <2> QED
    BY <2>1, <2>4, <2>5, <1>2, <1>3 DEF t
<1> QED
  BY <1>4, <1>5
-----------------------------------------------------------------------------
(* A remainder is smaller than the divisor. *)
LEMMA DivMod ==
    ASSUME NEW a \in Nat, NEW b \in Nat, b > 0
    PROVE  a \div b \in Nat /\ a % b \in 0..(b - 1) /\ a = b * (a \div b) + (a % b)
OBVIOUS

(* And there is only one such quotient and remainder. *)
LEMMA DivUnique ==
    ASSUME NEW a \in Nat, NEW b \in Nat, NEW q \in Nat, NEW r \in 0..(b - 1), a = b * q + r
    PROVE  a \div b = q /\ a % b = r
OBVIOUS

(* A quotient of less than a product is less than its other factor. *)
LEMMA DivBelow ==
    ASSUME NEW x \in Nat, NEW p \in Nat, NEW r \in Nat, r > 0, x < p * r
    PROVE  x \div r \in Nat /\ x \div r < p
<1> DEFINE t == x \div r
<1>1. t \in Nat /\ x % r \in Nat /\ x = r * t + (x % r)
  BY DivMod
<1> HIDE DEF t
<1>2. t >= p => r * t >= r * p
  BY <1>1
<1>3. t < p
  BY <1>1, <1>2
<1> QED
  BY <1>1, <1>3 DEF t

(* A multiple keeps its remainder when it is reduced by a larger multiple. *)
LEMMA ModProduct ==
    ASSUME NEW c \in Nat, NEW p \in Nat, NEW r \in Nat, NEW t \in 0..(p - 1), r > 0
    PROVE  \E d \in Nat : (c * p + t) % (p * r) = d * p + t
<1> DEFINE k == c \div r
           d == c % r
<1>1. k \in Nat /\ d \in 0..(r - 1) /\ c = r * k + d
  BY DivMod
<1> HIDE DEF k, d
<1>2. /\ p * r \in Nat /\ d * p + t \in Nat /\ c * p + t \in Nat
      /\ c * p + t = (p * r) * k + (d * p + t)
  BY <1>1
<1>3. (d + 1) * p <= r * p
  <2>1. d + 1 <= r /\ d + 1 \in Nat
    BY <1>1
  <2> HIDE DEF d
  <2> QED
    BY <2>1
<1>4. d * p + t \in 0..(p * r - 1)
  BY <1>1, <1>2, <1>3
<1>5. (c * p + t) % (p * r) = d * p + t
  BY <1>1, <1>2, <1>4, DivUnique
<1> QED
  BY <1>1, <1>5

(* Dividing twice is dividing by the product. *)
LEMMA DivDiv ==
    ASSUME NEW a \in Nat, NEW b \in Nat, NEW c \in Nat, b > 0, c > 0
    PROVE  b * c \in Nat /\ b * c > 0 /\ (a \div b) \div c = a \div (b * c)
<1>1. b * c \in Nat /\ b * c > 0
  OBVIOUS
<1> DEFINE m == a \div b
           r == a % b
           k == m \div c
           s == m % c
<1>2. m \in Nat /\ r \in 0..(b - 1) /\ a = b * m + r
  BY DivMod
<1>3. k \in Nat /\ s \in 0..(c - 1) /\ m = c * k + s
  BY <1>2, DivMod
<1> HIDE DEF m, r, k, s
<1>4. a = (b * c) * k + (b * s + r)
  BY <1>2, <1>3
<1>5. b * s + r \in 0..(b * c - 1)
  <2>1. s + 1 <= c
    BY <1>3
  <2>2. b * (s + 1) <= b * c
    BY <2>1, <1>3
  <2> QED
    BY <1>1, <1>2, <1>3, <2>2
<1>6. a \div (b * c) = k
  BY <1>1, <1>3, <1>4, <1>5, DivUnique
<1> QED
  BY <1>1, <1>6 DEF k, m

(* Functions defined by recursion over numbers: each value is F[i] of the one *)
(* before it.                                                                *)
IsStep(F, N, A) == F \in [1..N -> [A -> A]]

Iterates(g, F, N, A, a) ==
    g \in [0..N -> A] /\ g[0] = a /\ \A i \in 1..N : g[i] = F[i][g[i - 1]]

(* There is such a function. *)
LEMMA IterationExists ==
    ASSUME NEW N \in Nat, NEW A, NEW a \in A, NEW F, IsStep(F, N, A)
    PROVE  \E g : Iterates(g, F, N, A, a)
<1> DEFINE Upto(g, k) == /\ g \in [0..k -> A] /\ g[0] = a
                         /\ \A i \in 1..k : g[i] = F[i][g[i - 1]]
           T == {k \in 0..N : ~\E g : Upto(g, k)}
<1>0. F \in [1..N -> [A -> A]]
  BY DEF IsStep
<1>1. SUFFICES ASSUME T # {} PROVE FALSE
  <2>1. N \in 0..N
    OBVIOUS
  <2>2. T = {} => \E g : Upto(g, N)
    BY <2>1
  <2> QED
    BY <2>2 DEF Iterates
<1>2. T \subseteq Nat
  OBVIOUS
<1>3. PICK m \in T : \A n \in T : m <= n
  BY <1>1, <1>2, LeastNumber
<1>4. m # 0
  <2>1. Upto([i \in 0..0 |-> a], 0)
    OBVIOUS
  <2>2. 0 \notin T
    BY <2>1
  <2> QED
    BY <2>2
<1>5. m \in 1..N /\ m - 1 \in 0..N /\ m - 1 \notin T
  <2>1. m \in 0..N
    OBVIOUS
  <2> HIDE DEF T
  <2>2. m \in 1..N /\ m - 1 \in 0..N /\ ~(m <= m - 1)
    BY <1>4, <2>1
  <2> QED
    BY <1>3, <2>2
<1>6. PICK g : Upto(g, m - 1)
  BY <1>5
<1> DEFINE h == [i \in 0..m |-> IF i = m THEN F[m][g[m - 1]] ELSE g[i]]
<1>7. Upto(h, m)
  <2>1. m \in Nat /\ m - 1 \in 0..(m - 1) /\ 0 \in 0..(m - 1)
    BY <1>5
  <2>2. F[m][g[m - 1]] \in A /\ \A i \in 0..(m - 1) : g[i] \in A
    BY <1>5, <1>6, <1>0, <2>1
  <2>3. h \in [0..m -> A] /\ h[0] = a /\ h[m] = F[m][g[m - 1]]
        /\ \A i \in 0..(m - 1) : h[i] = g[i]
    BY <1>6, <2>1, <2>2
  <2> HIDE DEF h
  <2>4. ASSUME NEW i \in 1..m PROVE h[i] = F[i][h[i - 1]]
    <3>1. i - 1 \in 0..(m - 1) /\ (i # m => i \in 1..(m - 1) /\ i \in 0..(m - 1))
      BY <2>1
    <3>2. CASE i = m
      BY <2>3, <3>1, <3>2
    <3>3. CASE i # m
      BY <1>6, <2>3, <3>1, <3>3
    <3> QED
      BY <3>2, <3>3
  <2> QED
    BY <2>3, <2>4
<1> QED
  BY <1>3, <1>7
=============================================================================
