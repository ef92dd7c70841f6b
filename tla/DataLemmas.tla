----------------------------- MODULE DataLemmas -----------------------------
(* What the proofs of the components need to know of natural numbers and   *)
(* sums: a set of naturals has a least element, a bounded one a greatest,  *)
(* and a sum over one entry more is the sum plus that entry.  The library's*)
(* induction theorems take an operator, which the provers cannot           *)
(* instantiate; the least counterexample takes its place here.             *)
EXTENDS Sums, FiniteSetTheorems, WellFoundedInduction, TLAPS

(* A set of natural numbers has a least element.                           *)
LEMMA LeastElement ==
    ASSUME NEW T, T \subseteq Nat, T # {}
    PROVE  \E x \in T : \A y \in T : x <= y
<1> DEFINE R == OpToRel(<, Nat)
<1>1. IsWellFoundedOn(R, Nat)
  BY NatLessThanWellFounded
<1>2. \E x \in T : \A y \in T : ~ (<< y, x >> \in R)
  <2> HIDE DEF R
  <2> QED BY <1>1, WFMin
<1>3. \A x, y \in Nat : << y, x >> \in R <=> y < x
  BY DEF OpToRel
<1> HIDE DEF R
<1>4. PICK x \in T : \A y \in T : ~ (<< y, x >> \in R)
  BY <1>2
<1>5. \A y \in T : x <= y
  <2> TAKE y \in T
  <2>1. x \in Nat /\ y \in Nat
    OBVIOUS
  <2>2. ~ (y < x)
    BY <1>3, <1>4, <2>1
  <2> QED BY <2>1, <2>2
<1> QED BY <1>5

(* A bounded one has a greatest.                                           *)
LEMMA GreatestElement ==
    ASSUME NEW n \in Nat, NEW S, S \subseteq 0 .. n, S # {}
    PROVE  \E x \in S : \A y \in S : y <= x
<1> DEFINE T == {n - s : s \in S}
<1>1. T \subseteq Nat /\ T # {}
  <2>1. \A s \in S : s \in 0 .. n
    OBVIOUS
  <2>2. \A s \in S : n - s \in Nat
    BY <2>1
  <2> QED BY <2>2
<1>2. PICK t \in T : \A u \in T : t <= u
  BY <1>1, LeastElement
<1>3. PICK x \in S : t = n - x
  OBVIOUS
<1>4. \A y \in S : y <= x
  <2>1. \A s \in S : s \in 0 .. n
    OBVIOUS
  <2> QED BY <1>2, <1>3, <2>1
<1> QED BY <1>4

(* s lists the partial sums of f up to n: the recursive function in SumTo. *)
IsSum(s, f, n) == s = [i \in 0 .. n |-> IF i = 0 THEN 0 ELSE s[i - 1] + f[i]]

(* There are partial sums,                                                 *)
LEMMA SumExists ==
    ASSUME NEW f, NEW n \in Nat
    PROVE  \E s : IsSum(s, f, n)
<1> DEFINE T == {m \in Nat : ~ \E s : IsSum(s, f, m)}
<1>1. SUFFICES ASSUME T # {} PROVE FALSE
  OBVIOUS
<1>2. PICK m \in T : \A y \in T : m <= y
  BY <1>1, LeastElement
<1>3. CASE m = 0
  <2>1. IsSum([i \in 0 .. 0 |-> 0], f, 0)
    BY DEF IsSum
  <2> QED BY <2>1, <1>3
<1>4. CASE m # 0
  <2>1. m - 1 \in Nat /\ m - 1 \notin T
    BY <1>2, <1>4
  <2>2. PICK s : IsSum(s, f, m - 1)
    BY <2>1
  <2> DEFINE t == [i \in 0 .. m |-> IF i = m THEN s[m - 1] + f[m] ELSE s[i]]
  <2>3. IsSum(t, f, m)
    BY <2>2, <2>1, <1>4 DEF IsSum
  <2> QED BY <2>3
<1> QED BY <1>3, <1>4

(* and those of two functions agree as far as the functions do.            *)
LEMMA SumUnique ==
    ASSUME NEW f, NEW g, NEW n \in Nat, NEW m \in Nat, NEW s, NEW t, m <= n,
           IsSum(s, f, n), IsSum(t, g, m), \A i \in 1 .. m : f[i] = g[i]
    PROVE  \A i \in 0 .. m : s[i] = t[i]
<1> DEFINE T == {i \in 0 .. m : s[i] # t[i]}
<1>1. SUFFICES ASSUME T # {} PROVE FALSE
  OBVIOUS
<1>2. PICK i \in T : \A j \in T : i <= j
  <2>1. T \subseteq Nat
    OBVIOUS
  <2> QED BY <1>1, <2>1, LeastElement
<1>3. i # 0
  BY DEF IsSum
<1>4. i - 1 \in 0 .. m /\ i - 1 \notin T
  BY <1>2, <1>3
<1> QED BY <1>2, <1>3, <1>4 DEF IsSum

(* So SumTo is the last of them:                                           *)
LEMMA SumDefined ==
    ASSUME NEW f, NEW n \in Nat
    PROVE  \E s : IsSum(s, f, n) /\ SumTo(f, n) = s[n]
<1> DEFINE c == CHOOSE s : IsSum(s, f, n)
<1>1. IsSum(c, f, n)
  BY SumExists
<1>2. SumTo(f, n) = c[n]
  BY DEF SumTo, IsSum
<1> HIDE DEF c
<1> QED BY <1>1, <1>2

(* a sum of nothing is zero,                                               *)
LEMMA SumEmpty == ASSUME NEW f PROVE SumTo(f, 0) = 0
BY SumDefined DEF IsSum

(* and one more entry adds itself.                                         *)
LEMMA SumExtends ==
    ASSUME NEW f, NEW g, NEW n \in Nat, \A i \in 1 .. n : f[i] = g[i]
    PROVE  SumTo(g, n + 1) = SumTo(f, n) + g[n + 1]
<1>1. PICK s : IsSum(s, g, n + 1) /\ SumTo(g, n + 1) = s[n + 1]
  BY SumDefined
<1>2. PICK t : IsSum(t, f, n) /\ SumTo(f, n) = t[n]
  BY SumDefined
<1>3. s[n] = t[n]
  <2>1. \A i \in 0 .. n : s[i] = t[i]
    <3>1. n + 1 \in Nat /\ n <= n + 1 /\ \A i \in 1 .. n : g[i] = f[i]
      OBVIOUS
    <3>2. IsSum(s, g, n + 1) /\ IsSum(t, f, n)
      BY <1>1, <1>2
    <3> HIDE <1>1, <1>2
    <3> QED BY <3>1, <3>2, SumUnique
  <2> QED BY <2>1
<1>4. s[n + 1] = s[n] + g[n + 1]
  BY <1>1 DEF IsSum
<1> QED BY <1>1, <1>2, <1>3, <1>4

(* A sum of naturals is a natural.                                         *)
LEMMA SumNat ==
    ASSUME NEW f, NEW n \in Nat, \A i \in 1 .. n : f[i] \in Nat
    PROVE  SumTo(f, n) \in Nat
<1>1. PICK s : IsSum(s, f, n) /\ SumTo(f, n) = s[n]
  BY SumDefined
<1> DEFINE T == {i \in 0 .. n : s[i] \notin Nat}
<1>2. SUFFICES ASSUME T # {} PROVE FALSE
  BY <1>1
<1>3. PICK i \in T : \A j \in T : i <= j
  <2>1. T \subseteq Nat
    OBVIOUS
  <2> QED BY <1>2, <2>1, LeastElement
<1>4. i # 0
  BY <1>1 DEF IsSum
<1>5. i - 1 \in 0 .. n /\ i - 1 \notin T
  BY <1>3, <1>4
<1>6. s[i] = s[i - 1] + f[i] /\ f[i] \in Nat
  BY <1>1, <1>4 DEF IsSum
<1> QED BY <1>5, <1>6
(* Nothing sums to nothing.                                                *)
LEMMA SumZero ==
    ASSUME NEW f, NEW n \in Nat, \A i \in 1 .. n : f[i] = 0
    PROVE  SumTo(f, n) = 0
<1>1. PICK s : IsSum(s, f, n) /\ SumTo(f, n) = s[n]
  BY SumDefined
<1> DEFINE T == {i \in 0 .. n : s[i] # 0}
<1>2. SUFFICES ASSUME T # {} PROVE FALSE
  BY <1>1
<1>3. PICK i \in T : \A j \in T : i <= j
  <2>1. T \subseteq Nat
    OBVIOUS
  <2> QED BY <1>2, <2>1, LeastElement
<1>4. i # 0
  BY <1>1 DEF IsSum
<1>5. i - 1 \in 0 .. n /\ i - 1 \notin T /\ i \in 1 .. n
  BY <1>3, <1>4
<1>6. s[i] = s[i - 1] + f[i]
  BY <1>1, <1>4 DEF IsSum
<1> QED BY <1>5, <1>6

(* Partial sums of integers are integers.                                  *)
LEMMA PartialInt ==
    ASSUME NEW f, NEW n \in Nat, NEW s, IsSum(s, f, n), \A i \in 1 .. n : f[i] \in Int
    PROVE  \A i \in 0 .. n : s[i] \in Int
<1> DEFINE T == {i \in 0 .. n : s[i] \notin Int}
<1>1. SUFFICES ASSUME T # {} PROVE FALSE
  OBVIOUS
<1>2. PICK i \in T : \A j \in T : i <= j
  <2>1. T \subseteq Nat
    OBVIOUS
  <2> QED BY <1>1, <2>1, LeastElement
<1>3. i # 0
  BY DEF IsSum
<1>4. i - 1 \in 0 .. n /\ i - 1 \notin T
  BY <1>2, <1>3
<1>5. s[i] = s[i - 1] + f[i] /\ f[i] \in Int
  BY <1>3 DEF IsSum
<1> QED BY <1>4, <1>5

(* A sum of integers is an integer.                                        *)
LEMMA SumInt ==
    ASSUME NEW f, NEW n \in Nat, \A i \in 1 .. n : f[i] \in Int
    PROVE  SumTo(f, n) \in Int
<1>1. PICK s : IsSum(s, f, n) /\ SumTo(f, n) = s[n]
  BY SumDefined
<1> QED BY <1>1, PartialInt

(* Changing one entry changes the sum by the difference.                   *)
LEMMA SumChange ==
    ASSUME NEW f, NEW g, NEW n \in Nat, NEW k \in 1 .. n,
           \A i \in 1 .. n : f[i] \in Int /\ g[i] \in Int,
           \A i \in 1 .. n : i # k => f[i] = g[i]
    PROVE  SumTo(g, n) = SumTo(f, n) + (g[k] - f[k])
<1>1. PICK s : IsSum(s, f, n) /\ SumTo(f, n) = s[n]
  BY SumDefined
<1>2. PICK t : IsSum(t, g, n) /\ SumTo(g, n) = t[n]
  BY SumDefined
<1>3. \A i \in 0 .. n : s[i] \in Int /\ t[i] \in Int
  BY <1>1, <1>2, PartialInt
<1> DEFINE T == {i \in 0 .. n : t[i] # s[i] + (IF i < k THEN 0 ELSE g[k] - f[k])}
<1>4. SUFFICES ASSUME T # {} PROVE FALSE
  <2>1. n \in 0 .. n /\ ~ (n < k)
    OBVIOUS
  <2> QED BY <1>1, <1>2, <2>1
<1>5. PICK i \in T : \A j \in T : i <= j
  <2>1. T \subseteq Nat
    OBVIOUS
  <2> QED BY <1>4, <2>1, LeastElement
<1>6. i # 0
  BY <1>1, <1>2 DEF IsSum
<1>7. i - 1 \in 0 .. n /\ i - 1 \notin T /\ i \in 1 .. n
  BY <1>5, <1>6
<1>8. s[i] = s[i - 1] + f[i] /\ t[i] = t[i - 1] + g[i]
  BY <1>1, <1>2, <1>6 DEF IsSum
<1>9. t[i - 1] = s[i - 1] + (IF i - 1 < k THEN 0 ELSE g[k] - f[k])
  BY <1>7
<1>10. t[i] = s[i] + (IF i < k THEN 0 ELSE g[k] - f[k])
  <2>1. CASE i = k
    BY <1>3, <1>7, <1>8, <1>9, <2>1
  <2>2. CASE i # k
    BY <1>3, <1>7, <1>8, <1>9, <2>2
  <2> QED BY <2>1, <2>2
<1> QED BY <1>10

(* Larger entries, larger sum.                                             *)
LEMMA SumLeq ==
    ASSUME NEW f, NEW g, NEW n \in Nat,
           \A i \in 1 .. n : f[i] \in Int /\ g[i] \in Int /\ f[i] <= g[i]
    PROVE  SumTo(f, n) <= SumTo(g, n)
<1>1. PICK s : IsSum(s, f, n) /\ SumTo(f, n) = s[n]
  BY SumDefined
<1>2. PICK t : IsSum(t, g, n) /\ SumTo(g, n) = t[n]
  BY SumDefined
<1>3. \A i \in 0 .. n : s[i] \in Int /\ t[i] \in Int
  BY <1>1, <1>2, PartialInt
<1> DEFINE T == {i \in 0 .. n : ~ (s[i] <= t[i])}
<1>4. SUFFICES ASSUME T # {} PROVE FALSE
  BY <1>1, <1>2
<1>5. PICK i \in T : \A j \in T : i <= j
  <2>1. T \subseteq Nat
    OBVIOUS
  <2> QED BY <1>4, <2>1, LeastElement
<1>6. i # 0
  BY <1>1, <1>2 DEF IsSum
<1>7. i - 1 \in 0 .. n /\ i - 1 \notin T /\ i \in 1 .. n
  BY <1>5, <1>6
<1>8. s[i] = s[i - 1] + f[i] /\ t[i] = t[i - 1] + g[i]
  BY <1>1, <1>2, <1>6 DEF IsSum
<1> QED BY <1>3, <1>7, <1>8
-----------------------------------------------------------------------------
(* A finite set can be listed,                                             *)
LEMMA ListOfSet ==
    ASSUME NEW S, IsFiniteSet(S), NEW list, list = ListOf(S)
    PROVE  /\ Cardinality(S) \in Nat /\ Len(list) = Cardinality(S)
           /\ list \in [1 .. Len(list) -> S]
           /\ \A i, j \in 1 .. Len(list) : list[i] = list[j] => i = j
           /\ \A x \in S : \E i \in 1 .. Len(list) : list[i] = x
<1> DEFINE n == Cardinality(S)
<1>1. n \in Nat
  BY FS_CardinalityType
<1>2. \E l \in [1 .. n -> S] : Lists(l, S)
  <2>1. ExistsBijection(1 .. n, S)
    BY FS_CardinalityType
  <2> QED BY <2>1 DEF ExistsBijection, Bijection, Injection, IsInjective, Lists
<1>3. list \in [1 .. n -> S] /\ Lists(list, S)
  BY <1>2 DEF ListOf
<1>4. Len(list) = n
  BY <1>1, <1>3
<1>5. list \in Surjection(1 .. n, S)
  <2>1. IsFiniteSet(1 .. n) /\ Cardinality(1 .. n) = n
    BY <1>1, FS_Interval
  <2>2. list \in Injection(1 .. n, S)
    BY <1>3 DEF Injection, IsInjective, Lists
  <2> QED BY <2>1, <2>2, FS_Injection
<1> QED BY <1>1, <1>3, <1>4, <1>5 DEF Lists, Surjection

(* and the sum along the list is one over the set: of integers an integer, *)
LEMMA SetSumInt ==
    ASSUME NEW S, IsFiniteSet(S), NEW f, \A x \in S : f[x] \in Int
    PROVE  SumAlong(ListOf(S), f) \in Int
<1> DEFINE list == ListOf(S)
           a == [i \in 1 .. Len(list) |-> f[list[i]]]
<1>1. Len(list) \in Nat /\ list \in [1 .. Len(list) -> S]
  BY ListOfSet
<1>2. \A i \in 1 .. Len(list) : a[i] \in Int
  BY <1>1
<1> HIDE DEF a
<1>3. SumTo(a, Len(list)) \in Int
  BY <1>1, <1>2, SumInt
<1> QED BY <1>3 DEF SumAlong, a

(* larger for larger entries,                                              *)
LEMMA SetSumLeq ==
    ASSUME NEW S, IsFiniteSet(S), NEW f, NEW g,
           \A x \in S : f[x] \in Int /\ g[x] \in Int /\ f[x] <= g[x]
    PROVE  SumAlong(ListOf(S), f) <= SumAlong(ListOf(S), g)
<1> DEFINE list == ListOf(S)
           a == [i \in 1 .. Len(list) |-> f[list[i]]]
           b == [i \in 1 .. Len(list) |-> g[list[i]]]
<1>1. Len(list) \in Nat /\ list \in [1 .. Len(list) -> S]
  BY ListOfSet
<1>2. \A i \in 1 .. Len(list) : a[i] \in Int /\ b[i] \in Int /\ a[i] <= b[i]
  BY <1>1
<1> HIDE DEF a, b
<1>3. SumTo(a, Len(list)) <= SumTo(b, Len(list))
  BY <1>1, <1>2, SumLeq
<1> QED BY <1>3 DEF SumAlong, a, b

(* and changed by the difference where one entry changes.                  *)
LEMMA SetSumChange ==
    ASSUME NEW S, IsFiniteSet(S), NEW f, NEW g, NEW x \in S,
           \A y \in S : f[y] \in Int /\ g[y] \in Int,
           \A y \in S : y # x => f[y] = g[y]
    PROVE  SumAlong(ListOf(S), g) = SumAlong(ListOf(S), f) + (g[x] - f[x])
<1> DEFINE list == ListOf(S)
           a == [i \in 1 .. Len(list) |-> f[list[i]]]
           b == [i \in 1 .. Len(list) |-> g[list[i]]]
<1>1. /\ Len(list) \in Nat /\ list \in [1 .. Len(list) -> S]
      /\ \A i, j \in 1 .. Len(list) : list[i] = list[j] => i = j
      /\ \A y \in S : \E i \in 1 .. Len(list) : list[i] = y
  BY ListOfSet
<1>2. PICK k \in 1 .. Len(list) : list[k] = x
  BY <1>1
<1>3. \A i \in 1 .. Len(list) : a[i] \in Int /\ b[i] \in Int
  BY <1>1
<1>4. \A i \in 1 .. Len(list) : i # k => a[i] = b[i]
  BY <1>1, <1>2
<1>5. a[k] = f[x] /\ b[k] = g[x]
  BY <1>2
<1> HIDE DEF a, b
<1>6. SumTo(b, Len(list)) = SumTo(a, Len(list)) + (b[k] - a[k])
  BY <1>1, <1>3, <1>4, SumChange
<1> QED BY <1>5, <1>6 DEF SumAlong, a, b

(* The sum of nothing is nothing.                                          *)
LEMMA SetSumZero ==
    ASSUME NEW S, IsFiniteSet(S), NEW f, \A x \in S : f[x] = 0
    PROVE  SumAlong(ListOf(S), f) = 0
<1> DEFINE list == ListOf(S)
           a == [i \in 1 .. Len(list) |-> f[list[i]]]
<1>1. Len(list) \in Nat /\ list \in [1 .. Len(list) -> S]
  BY ListOfSet
<1>2. \A i \in 1 .. Len(list) : a[i] = 0
  BY <1>1
<1> HIDE DEF a
<1>3. SumTo(a, Len(list)) = 0
  BY <1>1, <1>2, SumZero
<1> QED BY <1>3 DEF SumAlong, a

(* A sum of naturals is a natural, and has room for each of them.          *)
LEMMA SetSumNat ==
    ASSUME NEW S, IsFiniteSet(S), NEW f, \A x \in S : f[x] \in Nat
    PROVE  /\ SumAlong(ListOf(S), f) \in Nat
           /\ \A x \in S : f[x] <= SumAlong(ListOf(S), f)
<1>1. SumAlong(ListOf(S), f) \in Int
  BY SetSumInt
<1> DEFINE zero == [y \in S |-> 0]
<1>2. SumAlong(ListOf(S), zero) = 0
  BY SetSumZero
<1>3. ASSUME NEW x \in S PROVE f[x] <= SumAlong(ListOf(S), f)
  <2> DEFINE only == [y \in S |-> IF y = x THEN f[x] ELSE 0]
  <2>1. SumAlong(ListOf(S), only) = SumAlong(ListOf(S), zero) + (only[x] - zero[x])
    <3>1. \A y \in S : zero[y] \in Int /\ only[y] \in Int
      OBVIOUS
    <3>2. \A y \in S : y # x => zero[y] = only[y]
      OBVIOUS
    <3> HIDE DEF zero, only
    <3> QED BY <3>1, <3>2, SetSumChange
  <2>2. SumAlong(ListOf(S), only) <= SumAlong(ListOf(S), f)
    <3>1. \A y \in S : only[y] \in Int /\ f[y] \in Int /\ only[y] <= f[y]
      OBVIOUS
    <3> HIDE DEF only
    <3> QED BY <3>1, SetSumLeq
  <2> QED BY <1>1, <1>2, <2>1, <2>2
<1>4. SumAlong(ListOf(S), f) >= 0
  <2>1. \A y \in S : zero[y] \in Int /\ f[y] \in Int /\ zero[y] <= f[y]
    OBVIOUS
  <2> HIDE DEF zero
  <2>2. SumAlong(ListOf(S), zero) <= SumAlong(ListOf(S), f)
    BY <2>1, SetSumLeq
  <2> QED BY <1>1, <1>2, <2>2
<1> QED BY <1>1, <1>3, <1>4
-----------------------------------------------------------------------------
(* A table with one row written keeps its other rows.                      *)
LEMMA SeqUpdate ==
    ASSUME NEW S, NEW s \in Seq(S), NEW i \in DOMAIN s, NEW e \in S,
           NEW t, t = [s EXCEPT ![i] = e]
    PROVE  /\ t \in Seq(S) /\ Len(t) = Len(s) /\ DOMAIN t = DOMAIN s
           /\ \A j \in DOMAIN s : t[j] = IF j = i THEN e ELSE s[j]
OBVIOUS

(* A table with one row appended keeps those it has.                       *)
LEMMA SeqAppend ==
    ASSUME NEW S, NEW s \in Seq(S), NEW e \in S, NEW t, t = Append(s, e)
    PROVE  /\ t \in Seq(S) /\ Len(t) = Len(s) + 1
           /\ DOMAIN s = 1 .. Len(s) /\ Len(s) \in Nat
           /\ DOMAIN t = DOMAIN s \cup {Len(s) + 1}
           /\ Len(s) + 1 \notin DOMAIN s
           /\ \A j \in DOMAIN s : t[j] = s[j]
           /\ t[Len(s) + 1] = e
OBVIOUS
=============================================================================
