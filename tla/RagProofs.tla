----------------------------- MODULE RagProofs -----------------------------
(***************************************************************************)
(* What is proved of the retrieval (Retrieval.tla) and of the cutting of        *)
(* texts (Chunking.tla), for every corpus, ranking, role and text.             *)
(***************************************************************************)
EXTENDS Retrieval, Chunking, FiniteSetTheorems, SequenceTheorems, TLAPS

(***************************************************************************)
(* Numbers and finite sets.  Induction is stated for a set that is given,      *)
(* since the library's theorems take an operator.                            *)
(***************************************************************************)
\* Every nonempty set of numbers has a least one.
LEMMA LeastExists == \A T \in SUBSET Nat : T # {} => \E x \in T : \A y \in T : x <= y
<1> SUFFICES ASSUME NEW T \in SUBSET Nat, T # {} PROVE \E x \in T : \A y \in T : x <= y
  OBVIOUS
<1> DEFINE R == {p \in Nat \X Nat : p[1] < p[2]}
<1>1. IsWellFoundedOn(R, Nat)
  BY NatLessThanWellFounded DEF OpToRel
<1>2. \A x, y \in Nat : <<y, x>> \in R <=> y < x
  OBVIOUS
<1> HIDE DEF R
<1>3. \E x \in T : \A y \in T : ~ (<<y, x>> \in R)
  BY <1>1, WFMin
<1>4. PICK x \in T : \A y \in T : ~ (<<y, x>> \in R)
  BY <1>3
<1>5. \A y \in T : ~ (y < x)
  BY <1>2, <1>4
<1> QED
  BY <1>5

\* A set with zero and all successors holds every number.
LEMMA Inductive ==
  ASSUME NEW S, 0 \in S, \A n \in Nat : n \in S => n + 1 \in S
  PROVE  Nat \subseteq S
<1> SUFFICES ASSUME Nat \ S # {} PROVE FALSE
  OBVIOUS
<1>1. PICK x \in Nat \ S : \A y \in Nat \ S : x <= y
  BY LeastExists
<1>2. x - 1 \in Nat /\ x - 1 \notin S
  BY <1>1
<1> QED
  BY <1>1, <1>2

\* Every nonempty set of numbers with a bound has a largest one.
LEMMA MaxExists ==
  ASSUME NEW n \in Nat, NEW T \in SUBSET (0..n), T # {}
  PROVE  Max(T) \in T /\ \A y \in T : y <= Max(T)
<1> DEFINE U == {n - x : x \in T}
<1>1. U \in SUBSET Nat /\ U # {}
  <2>1. \A x \in 0..n : n - x \in Nat
    OBVIOUS
  <2>2. \A u \in U : u \in Nat
    BY <2>1
  <2>3. PICK x \in T : TRUE
    OBVIOUS
  <2>4. n - x \in U
    OBVIOUS
  <2> QED
    BY <2>2, <2>4
<1>2. PICK u \in U : \A v \in U : u <= v
  <2> HIDE DEF U
  <2> QED
    BY <1>1, LeastExists
<1>3. PICK x \in T : u = n - x
  BY <1>2
<1>4. \A y \in T : x >= y
  <2> TAKE y \in T
  <2>1. n - y \in U
    OBVIOUS
  <2>2. n - x <= n - y
    BY <1>2, <1>3, <2>1
  <2>3. x \in Nat /\ y \in Nat
    OBVIOUS
  <2> QED
    BY <2>2, <2>3
<1>5. Max(T) \in T /\ \A y \in T : Max(T) >= y
  <2>1. \E z \in T : \A y \in T : z >= y
    BY <1>4
  <2> QED
    BY <2>1 DEF Max
<1>6. \A y \in T : y \in 0..n
  OBVIOUS
<1>7. \A y, z \in 0..n : z >= y => y <= z
  OBVIOUS
<1> QED
  BY <1>5, <1>6, <1>7

\* A larger divisor leaves no larger quotient.
LEMMA QuotientFalls ==
  ASSUME NEW s \in Nat, NEW a \in Nat \ {0}, NEW b \in Nat \ {0}, a <= b
  PROVE  s \div b <= s \div a /\ s \div a \in Nat /\ s \div b \in Nat
<1> DEFINE q == s \div a
           r == s \div b
<1>1. q \in Nat /\ r \in Nat
  OBVIOUS
<1>2. s < a * (q + 1)
  OBVIOUS
<1>3. b * r <= s
  OBVIOUS
<1>4. a * r <= b * r
  <2>1. \A m \in Nat : a * m <= b * m
    OBVIOUS
  <2> QED
    BY <1>1, <2>1
<1> HIDE DEF q, r
<1>5. a * r < a * (q + 1)
  <2>1. a * r \in Nat /\ b * r \in Nat /\ a * (q + 1) \in Nat
    BY <1>1
  <2> QED
    BY <1>2, <1>3, <1>4, <2>1
<1>6. r < q + 1
  <2>1. SUFFICES ASSUME q + 1 <= r PROVE FALSE
    BY <1>1
  <2>2. PICK t \in Nat : r = q + 1 + t
    <3>1. r - (q + 1) \in Nat
      BY <1>1, <2>1
    <3> QED
      BY <1>1, <3>1
  <2>3. a * r = a * (q + 1) + a * t /\ a * t \in Nat /\ a * (q + 1) \in Nat
    BY <1>1, <2>2
  <2> QED
    BY <1>5, <2>3
<1>7. r <= q
  BY <1>1, <1>6
<1> QED
  BY <1>1, <1>7 DEF q, r

(***************************************************************************)
(* Sorting                                                                 *)
(***************************************************************************)
\* A strict and total order of the members of S.
Orders(before, S) ==
  /\ \A x \in S : <<x, x>> \notin before
  /\ \A x, y, z \in S : <<x, y>> \in before /\ <<y, z>> \in before => <<x, z>> \in before
  /\ \A x, y \in S : x = y \/ <<x, y>> \in before \/ <<y, x>> \in before

\* Each member of S once, none before one that precedes it.
Sorted(a, S, before) ==
  /\ a \in [1..Cardinality(S) -> S]
  /\ \A x \in S : \E n \in 1..Cardinality(S) : a[n] = x
  /\ \A m, n \in 1..Cardinality(S) : m < n => <<a[m], a[n]>> \in before

LEMMA ArrangedSorts ==
  ASSUME NEW S, IsFiniteSet(S), NEW before, Orders(before, S)
  PROVE  Sorted(Arranged(S, before), S, before) /\ Cardinality(S) \in Nat
<1> DEFINE N == Cardinality(S)
           Below(x) == {y \in S : <<y, x>> \in before}
           place == [x \in S |-> Cardinality(Below(x))]
           a == Arranged(S, before)
<1>1. N \in Nat
  BY FS_CardinalityType
<1>2. ASSUME NEW x \in S
      PROVE  IsFiniteSet(Below(x)) /\ Cardinality(Below(x)) \in 0..(N - 1)
  <2>1. Below(x) \in SUBSET S /\ x \notin Below(x)
    BY DEF Orders
  <2>2. /\ IsFiniteSet(Below(x)) /\ Cardinality(Below(x)) <= N
        /\ N = Cardinality(Below(x)) => S = Below(x)
    <3> HIDE DEF Below
    <3> QED
      BY <2>1, FS_Subset
  <2>3. Cardinality(Below(x)) \in Nat
    BY <2>2, FS_CardinalityType
  <2>4. N # Cardinality(Below(x))
    BY <2>1, <2>2
  <2> HIDE DEF Below, N
  <2> QED
    BY <1>1, <2>2, <2>3, <2>4
<1>3. ASSUME NEW x \in S, NEW y \in S, <<x, y>> \in before
      PROVE  Cardinality(Below(x)) < Cardinality(Below(y))
  <2>1. Below(x) \in SUBSET Below(y)
    BY <1>3 DEF Orders
  <2>2. x \in Below(y) /\ x \notin Below(x)
    BY <1>3 DEF Orders
  <2> HIDE DEF Below
  <2>3. /\ Cardinality(Below(x)) <= Cardinality(Below(y))
        /\ Cardinality(Below(y)) = Cardinality(Below(x)) => Below(y) = Below(x)
    BY <1>2, <2>1, FS_Subset
  <2>4. Cardinality(Below(x)) # Cardinality(Below(y))
    BY <2>2, <2>3
  <2>5. Cardinality(Below(x)) \in Nat /\ Cardinality(Below(y)) \in Nat
    BY <1>2, FS_CardinalityType
  <2> QED
    BY <2>3, <2>4, <2>5
<1>4. place \in [S -> 0..(N - 1)] /\ \A x \in S : place[x] = Cardinality(Below(x))
  <2> HIDE DEF Below
  <2> QED
    BY <1>2
<1> HIDE DEF Below, place
<1>5. \A x, y \in S : place[x] < place[y] <=> <<x, y>> \in before
  <2> TAKE x, y \in S
  <2>1. place[x] \in Nat /\ place[y] \in Nat
    BY <1>4
  <2>2. <<x, y>> \in before => place[x] < place[y]
    BY <1>3, <1>4
  <2>3. <<y, x>> \in before => place[y] < place[x]
    BY <1>3, <1>4
  <2>4. x = y \/ <<x, y>> \in before \/ <<y, x>> \in before
    BY DEF Orders
  <2> QED
    BY <2>1, <2>2, <2>3, <2>4
<1>6. \A x, y \in S : place[x] = place[y] => x = y
  <2> TAKE x, y \in S
  <2>1. place[x] \in Nat /\ place[y] \in Nat
    BY <1>4
  <2>2. x = y \/ <<x, y>> \in before \/ <<y, x>> \in before
    BY DEF Orders
  <2> QED
    BY <1>5, <2>1, <2>2
<1>7. \A n \in 0..(N - 1) : \E x \in S : place[x] = n
  <2>1. IsFiniteSet(0..(N - 1)) /\ Cardinality(0..(N - 1)) = N
    <3>1. N - 1 \in Int /\ (IF 0 > N - 1 THEN 0 ELSE (N - 1) - 0 + 1) = N
      BY <1>1
    <3> HIDE DEF N
    <3> QED
      BY <3>1, FS_Interval
  <2>2. place \in Injection(S, 0..(N - 1))
    BY <1>4, <1>6 DEF Injection, IsInjective
  <2>3. place \in Surjection(S, 0..(N - 1))
    BY <2>1, <2>2, FS_Injection
  <2> QED
    BY <2>3 DEF Surjection
<1>8. ASSUME NEW n \in 1..N PROVE a[n] \in S /\ place[a[n]] = n - 1
  <2>1. n - 1 \in 0..(N - 1)
    BY <1>1
  <2>2. \E x \in S : Cardinality(Below(x)) = n - 1
    BY <1>4, <1>7, <2>1
  <2>3. a[n] = CHOOSE x \in S : Cardinality(Below(x)) = n - 1
    BY DEF Arranged, Below
  <2>4. a[n] \in S /\ Cardinality(Below(a[n])) = n - 1
    <3> HIDE DEF a
    <3> QED
      BY <2>2, <2>3
  <2> QED
    BY <1>4, <2>4
<1>9. a \in [1..N -> S]
  <2> DEFINE e(n) == CHOOSE x \in S : Cardinality({y \in S : <<y, x>> \in before}) = n - 1
  <2>1. a = [n \in 1..N |-> e(n)]
    BY DEF Arranged
  <2> HIDE DEF a, e
  <2> QED
    BY <1>8, <2>1
<1>10. \A x \in S : \E n \in 1..N : a[n] = x
  <2> TAKE x \in S
  <2>1. place[x] \in 0..(N - 1)
    BY <1>4
  <2>2. place[x] + 1 \in 1..N /\ (place[x] + 1) - 1 = place[x]
    BY <1>1, <2>1
  <2>3. a[place[x] + 1] \in S /\ place[a[place[x] + 1]] = place[x]
    BY <1>8, <2>2
  <2> HIDE DEF a
  <2> QED
    BY <1>6, <2>2, <2>3
<1>11. \A m, n \in 1..N : m < n => <<a[m], a[n]>> \in before
  <2> TAKE m, n \in 1..N
  <2>1. /\ a[m] \in S /\ a[n] \in S
        /\ place[a[m]] = m - 1 /\ place[a[n]] = n - 1
    BY <1>8
  <2> HIDE DEF a
  <2> QED
    BY <1>5, <2>1
<1>12. Sorted(a, S, before)
  <2> HIDE DEF a
  <2> QED
    BY <1>9, <1>10, <1>11 DEF Sorted
<1> QED
  BY <1>1, <1>12

\* The positions _is_permitted leaves.
Kept(ranking) == {i \in DOMAIN ranking : Permitted(ranking[i])}

\* The filter leaves what is permitted, all of it, and in its order (hybrid_retriever.py,
\* 135-136).
LEMMA FilteredKeeps ==
  ASSUME NEW ranking \in Seq(Chunks)
  PROVE  /\ Filtered(ranking) \in Seq(Chunks)
         /\ \E at \in [1..Len(Filtered(ranking)) -> Kept(ranking)] :
              /\ \A n \in 1..Len(Filtered(ranking)) : Filtered(ranking)[n] = ranking[at[n]]
              /\ \A i \in Kept(ranking) : \E n \in 1..Len(Filtered(ranking)) : at[n] = i
              /\ \A m, n \in 1..Len(Filtered(ranking)) : m < n => at[m] < at[n]
<1> DEFINE kept == Kept(ranking)
           before == {p \in kept \X kept : p[1] < p[2]}
           at == Arranged(kept, before)
           N == Cardinality(kept)
<1>1. DOMAIN ranking = 1..Len(ranking) /\ Len(ranking) \in Nat /\ \A i \in 1..Len(ranking) : ranking[i] \in Chunks
  BY LenProperties, ElementOfSeq
<1>2. kept \in SUBSET (1..Len(ranking))
  BY <1>1 DEF Kept
<1>3. IsFiniteSet(kept)
  <2>1. IsFiniteSet(1..Len(ranking))
    BY <1>1, FS_Interval
  <2> HIDE DEF kept
  <2> QED
    BY <1>2, <2>1, FS_Subset
<1>4. \A x, y \in kept : <<x, y>> \in before <=> x < y
  <2> HIDE DEF kept
  <2> QED
    OBVIOUS
<1>5. Orders(before, kept)
  <2>1. \A x \in kept : x \in Nat
    BY <1>2
  <2> HIDE DEF kept, before
  <2> QED
    BY <1>4, <2>1 DEF Orders
<1>6. Sorted(at, kept, before) /\ N \in Nat
  <2> HIDE DEF kept, before
  <2> QED
    BY <1>3, <1>5, ArrangedSorts
<1>7. at \in [1..N -> kept]
  <2> HIDE DEF kept, before, at
  <2> QED
    BY <1>6 DEF Sorted
<1>8. Filtered(ranking) = [n \in DOMAIN at |-> ranking[at[n]]]
  BY DEF Filtered, Kept
<1>9. \A i \in kept : \E n \in 1..N : at[n] = i
  <2> HIDE DEF kept, before, at
  <2> QED
    BY <1>6 DEF Sorted
<1>10. \A m, n \in 1..N : m < n => at[m] < at[n]
  <2>1. \A m, n \in 1..N : m < n => <<at[m], at[n]>> \in before
    <3> HIDE DEF kept, before, at
    <3> QED
      BY <1>6 DEF Sorted
  <2> HIDE DEF kept, before, at
  <2> QED
    BY <1>4, <1>7, <2>1
<1> HIDE DEF at, before, N
<1>11. Filtered(ranking) = [n \in 1..N |-> ranking[at[n]]]
  BY <1>7, <1>8
<1>12. \A n \in 1..N : at[n] \in 1..Len(ranking) /\ ranking[at[n]] \in Chunks
  <2> HIDE DEF kept
  <2> QED
    BY <1>1, <1>2, <1>7
<1>13. Filtered(ranking) \in Seq(Chunks) /\ Len(Filtered(ranking)) = N
  <2> DEFINE e(n) == ranking[at[n]]
  <2>1. \A n \in 1..N : e(n) \in Chunks
    BY <1>12
  <2>2. Filtered(ranking) = [n \in 1..N |-> e(n)]
    BY <1>11
  <2> HIDE DEF e
  <2>3. [n \in 1..N |-> e(n)] \in Seq(Chunks)
    BY <1>6, <2>1, IsASeq
  <2>4. DOMAIN Filtered(ranking) = 1..N
    BY <2>2
  <2>5. Filtered(ranking) \in Seq(Chunks)
    BY <2>2, <2>3
  <2> QED
    BY <1>6, <2>4, <2>5, LenProperties
<1> HIDE DEF kept
<1>14. \A n \in 1..N : Filtered(ranking)[n] = ranking[at[n]]
  BY <1>11
<1> QED
  BY <1>7, <1>9, <1>10, <1>13, <1>14 DEF kept

(***************************************************************************)
(* Scores                                                                  *)
(***************************************************************************)
\* Any product of consecutive numbers is a number.
LEMMA ProductExists ==
  ASSUME NEW n \in Nat
  PROVE  \E f \in [0..n -> Nat] :
           f = [r \in 0..n |-> IF r = 0 THEN 1 ELSE f[r - 1] * (RankOffset + r)]
<1> DEFINE Products(m) == {f \in [0..m -> Nat] :
                             \A r \in 0..m : f[r] = IF r = 0 THEN 1 ELSE f[r - 1] * (RankOffset + r)}
           S == {m \in Nat : Products(m) # {}}
<1>1. 0 \in S
  <2>1. [r \in 0..0 |-> 1] \in Products(0)
    OBVIOUS
  <2> QED
    BY <2>1
<1>2. ASSUME NEW m \in Nat, m \in S PROVE m + 1 \in S
  <2>1. PICK f \in [0..m -> Nat] : \A r \in 0..m : f[r] = IF r = 0 THEN 1 ELSE f[r - 1] * (RankOffset + r)
    BY <1>2
  <2> DEFINE last == f[m] * (RankOffset + (m + 1))
             g == [r \in 0..(m + 1) |-> IF r <= m THEN f[r] ELSE last]
  <2>2. last \in Nat
    BY <2>1, RetrievalAssumption
  <2>3. g \in [0..(m + 1) -> Nat]
    <3> HIDE DEF last
    <3> QED
      BY <2>1, <2>2
  <2>4. \A r \in 0..m : g[r] = f[r] /\ (r # 0 => g[r - 1] = f[r - 1])
    <3> HIDE DEF last
    <3> QED
      OBVIOUS
  <2>5. g[m + 1] = g[m] * (RankOffset + (m + 1))
    <3>1. g[m] = f[m]
      BY <2>4
    <3>2. g[m + 1] = last
      OBVIOUS
    <3> HIDE DEF g
    <3> QED
      BY <3>1, <3>2
  <2> HIDE DEF g, last
  <2>6. ASSUME NEW r \in 0..(m + 1)
        PROVE  g[r] = IF r = 0 THEN 1 ELSE g[r - 1] * (RankOffset + r)
    <3>1. CASE r = m + 1
      BY <2>5, <3>1
    <3>2. CASE r \in 0..m
      BY <2>1, <2>4, <3>2
    <3> QED
      BY <3>1, <3>2
  <2> QED
    BY <2>3, <2>6
<1>3. n \in S
  <2> HIDE DEF S
  <2> QED
    BY <1>1, <1>2, Inductive
<1>4. PICK f \in [0..n -> Nat] : \A r \in 0..n : f[r] = IF r = 0 THEN 1 ELSE f[r - 1] * (RankOffset + r)
  BY <1>3
<1> QED
  BY <1>4

LEMMA ScaleTyped == Scale \in Nat
<1> DEFINE f == CHOOSE f : f = [r \in 0..Candidates |-> IF r = 0 THEN 1 ELSE f[r - 1] * (RankOffset + r)]
           S == {m \in Nat : m <= Candidates => f[m] \in Nat}
<1>1. Scale = f[Candidates]
  BY DEF Scale
<1>2. f = [r \in 0..Candidates |-> IF r = 0 THEN 1 ELSE f[r - 1] * (RankOffset + r)]
  BY RetrievalAssumption, ProductExists
<1> HIDE DEF f
<1>3. 0 \in S
  BY <1>2, RetrievalAssumption
<1>4. ASSUME NEW m \in Nat, m \in S PROVE m + 1 \in S
  <2>1. SUFFICES ASSUME m + 1 <= Candidates PROVE f[m + 1] \in Nat
    OBVIOUS
  <2>2. m <= Candidates /\ m + 1 \in 0..Candidates /\ m + 1 # 0 /\ (m + 1) - 1 = m
    BY <2>1, RetrievalAssumption
  <2>3. f[m] \in Nat
    BY <1>4, <2>2
  <2>4. f[m + 1] = f[m] * (RankOffset + (m + 1))
    BY <1>2, <2>2
  <2> QED
    BY <2>3, <2>4, RetrievalAssumption
<1>5. Candidates \in S
  <2> HIDE DEF S
  <2> QED
    BY <1>3, <1>4, Inductive, RetrievalAssumption
<1> QED
  BY <1>1, <1>5, RetrievalAssumption

\* A better rank weighs no less.
LEMMA GainFalls ==
  /\ \A i \in Nat \ {0} : Gain(i) \in Nat
  /\ \A i, j \in Nat \ {0} : i <= j => Gain(j) <= Gain(i)
<1>1. ASSUME NEW i \in Nat \ {0}, NEW j \in Nat \ {0}, i <= j
      PROVE  Gain(i) \in Nat /\ Gain(j) <= Gain(i)
  <2>1. /\ RankOffset + i \in Nat \ {0} /\ RankOffset + j \in Nat \ {0}
        /\ RankOffset + i <= RankOffset + j
    BY <1>1, RetrievalAssumption
  <2> QED
    BY <2>1, ScaleTyped, QuotientFalls DEF Gain
<1>2. \A i \in Nat \ {0} : i <= i
  OBVIOUS
<1> QED
  BY <1>1, <1>2

\* What rank i adds to the score of a key.
Adds(ranking, k, i) == IF Key(ranking[i]) = k THEN Gain(i) ELSE 0

LEMMA SumExists ==
  ASSUME NEW ranking, NEW k, NEW n \in Nat
  PROVE  \E f : f = [i \in 0..n |-> IF i = 0 THEN 0 ELSE f[i - 1] + Adds(ranking, k, i)]
<1> DEFINE Sums(m) == {f \in [0..m -> Nat] :
                         \A i \in 0..m : f[i] = IF i = 0 THEN 0 ELSE f[i - 1] + Adds(ranking, k, i)}
           S == {m \in Nat : Sums(m) # {}}
<1>0. \A i \in Nat \ {0} : Adds(ranking, k, i) \in Nat
  BY GainFalls DEF Adds
<1>1. 0 \in S
  <2>1. [i \in 0..0 |-> 0] \in Sums(0)
    OBVIOUS
  <2> QED
    BY <2>1
<1>2. ASSUME NEW m \in Nat, m \in S PROVE m + 1 \in S
  <2>1. PICK f \in [0..m -> Nat] : \A i \in 0..m : f[i] = IF i = 0 THEN 0 ELSE f[i - 1] + Adds(ranking, k, i)
    BY <1>2
  <2> DEFINE last == f[m] + Adds(ranking, k, m + 1)
             g == [i \in 0..(m + 1) |-> IF i <= m THEN f[i] ELSE last]
  <2>2. last \in Nat
    BY <1>0, <2>1
  <2>3. g \in [0..(m + 1) -> Nat]
    <3> HIDE DEF last
    <3> QED
      BY <2>1, <2>2
  <2>4. \A i \in 0..m : g[i] = f[i] /\ (i # 0 => g[i - 1] = f[i - 1])
    <3> HIDE DEF last
    <3> QED
      OBVIOUS
  <2>5. g[m + 1] = g[m] + Adds(ranking, k, m + 1)
    <3>1. g[m] = f[m]
      BY <2>4
    <3>2. g[m + 1] = last
      OBVIOUS
    <3> HIDE DEF g
    <3> QED
      BY <3>1, <3>2
  <2> HIDE DEF g, last
  <2>6. ASSUME NEW i \in 0..(m + 1)
        PROVE  g[i] = IF i = 0 THEN 0 ELSE g[i - 1] + Adds(ranking, k, i)
    <3>1. CASE i = m + 1
      BY <2>5, <3>1
    <3>2. CASE i \in 0..m
      BY <2>1, <2>4, <3>2
    <3> QED
      BY <3>1, <3>2
  <2> QED
    BY <2>3, <2>6
<1>3. n \in S
  <2> HIDE DEF S
  <2> QED
    BY <1>1, <1>2, Inductive
<1>4. PICK f \in [0..n -> Nat] : \A i \in 0..n : f[i] = IF i = 0 THEN 0 ELSE f[i - 1] + Adds(ranking, k, i)
  BY <1>3
<1> QED
  BY <1>4

\* The score a ranking gives to a key is a number; it is nothing if the key is not in it,
\* and the weight of its rank if it is there once (merge_rankings).
LEMMA WeightOfKey ==
  ASSUME NEW ranking, Len(ranking) \in Nat, NEW k
  PROVE  /\ Weight(ranking, k) \in Nat
         /\ (\A i \in 1..Len(ranking) : Key(ranking[i]) # k) => Weight(ranking, k) = 0
         /\ \A p \in 1..Len(ranking) :
              Key(ranking[p]) = k /\ (\A i \in 1..Len(ranking) : i # p => Key(ranking[i]) # k)
              => Weight(ranking, k) = Gain(p)
<1> DEFINE n == Len(ranking)
           f == CHOOSE f : f = [i \in 0..n |-> IF i = 0 THEN 0 ELSE f[i - 1] + IF Key(ranking[i]) = k THEN Gain(i) ELSE 0]
<1>0. \A i \in Nat \ {0} : Adds(ranking, k, i) \in Nat
  BY GainFalls DEF Adds
<1>1. Weight(ranking, k) = f[n]
  BY DEF Weight
<1>2. f = [i \in 0..n |-> IF i = 0 THEN 0 ELSE f[i - 1] + IF Key(ranking[i]) = k THEN Gain(i) ELSE 0]
  <2>1. \E h : h = [i \in 0..n |-> IF i = 0 THEN 0 ELSE h[i - 1] + IF Key(ranking[i]) = k THEN Gain(i) ELSE 0]
    <3>1. \E h : h = [i \in 0..n |-> IF i = 0 THEN 0 ELSE h[i - 1] + Adds(ranking, k, i)]
      BY SumExists
    <3> QED
      BY <3>1 DEF Adds
  <2> QED
    BY <2>1
<1> HIDE DEF f
<1>3. f[0] = 0
  BY <1>2
<1>4. \A i \in 0..n : i # 0 => f[i] = f[i - 1] + Adds(ranking, k, i)
  BY <1>2 DEF Adds
<1>5. \A m \in Nat : m + 1 <= n => m <= n /\ m \in 0..n /\ f[m + 1] = f[m] + Adds(ranking, k, m + 1)
  <2> TAKE m \in Nat
  <2>1. SUFFICES ASSUME m + 1 <= n PROVE m <= n /\ m \in 0..n /\ f[m + 1] = f[m] + Adds(ranking, k, m + 1)
    OBVIOUS
  <2>2. m <= n /\ m \in 0..n /\ m + 1 \in 0..n /\ m + 1 # 0 /\ (m + 1) - 1 = m
    BY <2>1
  <2> QED
    BY <1>4, <2>2
<1>6. \A m \in Nat : m <= n => f[m] \in Nat
  <2> DEFINE S == {m \in Nat : m <= n => f[m] \in Nat}
  <2>1. 0 \in S
    BY <1>3
  <2>2. ASSUME NEW m \in Nat, m \in S PROVE m + 1 \in S
    BY <1>0, <1>5, <2>2
  <2>3. Nat \subseteq S
    <3> HIDE DEF S
    <3> QED
      BY <2>1, <2>2, Inductive
  <2> QED
    BY <2>3
<1>7. ASSUME \A i \in 1..n : Key(ranking[i]) # k PROVE f[n] = 0
  <2> DEFINE S == {m \in Nat : m <= n => f[m] = 0}
  <2>1. 0 \in S
    BY <1>3
  <2>2. ASSUME NEW m \in Nat, m \in S PROVE m + 1 \in S
    <3>1. SUFFICES ASSUME m + 1 <= n PROVE f[m + 1] = 0
      OBVIOUS
    <3>2. m + 1 \in 1..n
      BY <3>1
    <3>3. Adds(ranking, k, m + 1) = 0
      BY <1>7, <3>2 DEF Adds
    <3> QED
      BY <1>5, <2>2, <3>1, <3>3
  <2>3. n \in S
    <3> HIDE DEF S
    <3> QED
      BY <2>1, <2>2, Inductive
  <2> QED
    BY <2>3
<1>8. ASSUME NEW p \in 1..n, Key(ranking[p]) = k, \A i \in 1..n : i # p => Key(ranking[i]) # k
      PROVE  f[n] = Gain(p)
  <2> DEFINE S == {m \in Nat : m <= n => f[m] = IF m < p THEN 0 ELSE Gain(p)}
  <2>0. Gain(p) \in Nat
    BY GainFalls
  <2>1. 0 \in S
    BY <1>3
  <2>2. ASSUME NEW m \in Nat, m \in S PROVE m + 1 \in S
    <3>1. SUFFICES ASSUME m + 1 <= n PROVE f[m + 1] = IF m + 1 < p THEN 0 ELSE Gain(p)
      OBVIOUS
    <3>2. m + 1 \in 1..n
      BY <3>1
    <3>3. f[m + 1] = f[m] + Adds(ranking, k, m + 1) /\ f[m] = IF m < p THEN 0 ELSE Gain(p)
      BY <1>5, <2>2, <3>1
    <3>4. CASE m + 1 = p
      <4>1. Adds(ranking, k, m + 1) = Gain(p)
        BY <1>8, <3>4 DEF Adds
      <4> QED
        BY <2>0, <3>3, <3>4, <4>1
    <3>5. CASE m + 1 # p
      <4>1. Adds(ranking, k, m + 1) = 0
        BY <1>8, <3>2, <3>5 DEF Adds
      <4> QED
        BY <2>0, <3>3, <3>5, <4>1
    <3> QED
      BY <3>4, <3>5
  <2>3. n \in S
    <3> HIDE DEF S
    <3> QED
      BY <2>1, <2>2, Inductive
  <2> QED
    BY <2>3
<1> QED
  BY <1>1, <1>6, <1>7, <1>8

(***************************************************************************)
(* The fusion                                                              *)
(***************************************************************************)
\* Every key that is found is led by its first position, and by no other.
LEMMA LeadsOfKeys ==
  ASSUME NEW found \in Seq(Chunks)
  PROVE  /\ Leads(found) \in SUBSET (1..Len(found)) /\ IsFiniteSet(Leads(found))
         /\ \A i \in 1..Len(found) : \E l \in Leads(found) : l <= i /\ Key(found[l]) = Key(found[i])
         /\ \A l, m \in Leads(found) : Key(found[l]) = Key(found[m]) => l = m
<1>1. DOMAIN found = 1..Len(found) /\ Len(found) \in Nat
  BY LenProperties
<1>2. Leads(found) \in SUBSET (1..Len(found))
  BY <1>1 DEF Leads
<1>3. IsFiniteSet(Leads(found))
  <2>1. IsFiniteSet(1..Len(found))
    BY <1>1, FS_Interval
  <2> QED
    BY <1>2, <2>1, FS_Subset
<1>4. ASSUME NEW i \in 1..Len(found)
      PROVE  \E l \in Leads(found) : l <= i /\ Key(found[l]) = Key(found[i])
  <2> DEFINE T == {j \in 1..Len(found) : Key(found[j]) = Key(found[i])}
  <2>1. T \in SUBSET Nat /\ T # {} /\ i \in T
    <3>1. 1..Len(found) \subseteq Nat
      BY <1>1
    <3> QED
      BY <3>1
  <2>2. PICK l \in T : \A j \in T : l <= j
    <3> HIDE DEF T
    <3> QED
      BY <2>1, LeastExists
  <2>3. l \in 1..Len(found) /\ Key(found[l]) = Key(found[i]) /\ l <= i
    BY <2>1, <2>2
  <2>4. \A j \in 1..(l - 1) : Key(found[j]) # Key(found[l])
    <3> TAKE j \in 1..(l - 1)
    <3>1. j \in 1..Len(found) /\ ~ (l <= j)
      BY <1>1, <2>3
    <3>2. j \notin T
      BY <2>2, <3>1
    <3> QED
      BY <2>3, <3>1, <3>2
  <2>5. l \in Leads(found)
    BY <1>1, <2>3, <2>4 DEF Leads
  <2> QED
    BY <2>3, <2>5
<1>5. ASSUME NEW l \in Leads(found), NEW m \in Leads(found), Key(found[l]) = Key(found[m])
      PROVE  l = m
  <2>1. l \in Nat /\ m \in Nat /\ l >= 1 /\ m >= 1
    BY <1>1, <1>2
  <2>2. l < m => l \in 1..(m - 1)
    BY <2>1
  <2>3. m < l => m \in 1..(l - 1)
    BY <2>1
  <2>4. ~ (l < m) /\ ~ (m < l)
    BY <1>5, <2>2, <2>3 DEF Leads
  <2> QED
    BY <2>1, <2>4
<1> QED
  BY <1>2, <1>3, <1>4, <1>5

\* A key is borne by a chunk that is found, and has it.
LEMMA BearerHasKey ==
  ASSUME NEW found \in Seq(Chunks), NEW i \in 1..Len(found)
  PROVE  \E j \in 1..Len(found) :
           Bearer(found, Key(found[i])) = found[j] /\ Key(found[j]) = Key(found[i])
<1> DEFINE T == {j \in DOMAIN found : Key(found[j]) = Key(found[i])}
<1>1. DOMAIN found = 1..Len(found) /\ Len(found) \in Nat
  BY LenProperties
<1>2. T \in SUBSET (0..Len(found)) /\ T # {}
  BY <1>1
<1>3. Max(T) \in T
  <2> HIDE DEF T
  <2> QED
    BY <1>1, <1>2, MaxExists
<1>4. Bearer(found, Key(found[i])) = found[Max(T)]
  BY DEF Bearer
<1>5. Max(T) \in 1..Len(found) /\ Key(found[Max(T)]) = Key(found[i])
  BY <1>1, <1>3
<1> HIDE DEF T
<1> QED
  BY <1>4, <1>5

\* One position before another in the order of the fusion.
ScoreAt(first, second, i) == Score(first, second, Key((first \o second)[i]))
Above(first, second, i, j) ==
  \/ ScoreAt(first, second, i) > ScoreAt(first, second, j)
  \/ ScoreAt(first, second, i) = ScoreAt(first, second, j) /\ i < j

\* The merged ranking holds the bearer of each key once, in that order.
LEMMA MergeSorts ==
  ASSUME NEW first \in Seq(Chunks), NEW second \in Seq(Chunks)
  PROVE  /\ MergeRankings(first, second) \in Seq(Chunks)
         /\ \E order \in [1..Len(MergeRankings(first, second)) -> Leads(first \o second)] :
              /\ \A n \in 1..Len(MergeRankings(first, second)) :
                   MergeRankings(first, second)[n]
                     = Bearer(first \o second, Key((first \o second)[order[n]]))
              /\ \A l \in Leads(first \o second) :
                   \E n \in 1..Len(MergeRankings(first, second)) : order[n] = l
              /\ \A m, n \in 1..Len(MergeRankings(first, second)) :
                   m < n => Above(first, second, order[m], order[n])
<1> DEFINE found == first \o second
           leads == Leads(found)
           score == [i \in leads |-> Score(first, second, Key(found[i]))]
           above == {p \in leads \X leads : \/ score[p[1]] > score[p[2]]
                                            \/ score[p[1]] = score[p[2]] /\ p[1] < p[2]}
           order == Arranged(leads, above)
           N == Cardinality(leads)
           M == MergeRankings(first, second)
<1>1. found \in Seq(Chunks)
  BY ConcatProperties
<1>2. leads \in SUBSET (1..Len(found)) /\ IsFiniteSet(leads)
  <2> HIDE DEF found
  <2> QED
    BY <1>1, LeadsOfKeys
<1>3. Len(found) \in Nat
  <2> HIDE DEF found
  <2> QED
    BY <1>1, LenProperties
<1>4. \A i \in leads : score[i] \in Nat /\ score[i] = ScoreAt(first, second, i)
  <2>1. Len(first) \in Nat /\ Len(second) \in Nat
    BY LenProperties
  <2>2. \A k : Score(first, second, k) \in Nat
    <3> TAKE k
    <3>1. Weight(first, k) \in Nat /\ Weight(second, k) \in Nat
      BY <2>1, WeightOfKey
    <3> QED
      BY <3>1 DEF Score
  <2>3. \A i \in leads : score[i] = ScoreAt(first, second, i)
    BY DEF ScoreAt
  <2>4. \A i : ScoreAt(first, second, i) \in Nat
    BY <2>2 DEF ScoreAt
  <2> HIDE DEF score, leads
  <2> QED
    BY <2>3, <2>4
<1>5. \A i, j \in leads : <<i, j>> \in above <=> Above(first, second, i, j)
  <2> HIDE DEF score, leads
  <2> QED
    BY <1>4 DEF Above
<1>6. Orders(above, leads)
  <2> DEFINE at(i) == ScoreAt(first, second, i)
  <2>1. \A i \in leads : i \in Nat /\ at(i) \in Nat
    <3>1. 1..Len(found) \subseteq Nat
      BY <1>3
    <3>2. \A i \in leads : at(i) \in Nat
      BY <1>4
    <3> HIDE DEF leads, found, at
    <3> QED
      BY <1>2, <3>1, <3>2
  <2>2. \A i, j \in leads : <<i, j>> \in above <=> at(i) > at(j) \/ (at(i) = at(j) /\ i < j)
    BY <1>5 DEF Above
  <2> HIDE DEF at, above, leads
  <2>3. \A i \in leads : <<i, i>> \notin above
    BY <2>1, <2>2
  <2>4. \A i, j, l \in leads : <<i, j>> \in above /\ <<j, l>> \in above => <<i, l>> \in above
    <3> TAKE i, j, l \in leads
    <3>1. /\ i \in Nat /\ j \in Nat /\ l \in Nat
          /\ at(i) \in Nat /\ at(j) \in Nat /\ at(l) \in Nat
      BY <2>1
    <3>2. /\ <<i, j>> \in above <=> at(i) > at(j) \/ (at(i) = at(j) /\ i < j)
          /\ <<j, l>> \in above <=> at(j) > at(l) \/ (at(j) = at(l) /\ j < l)
          /\ <<i, l>> \in above <=> at(i) > at(l) \/ (at(i) = at(l) /\ i < l)
      BY <2>2
    <3> QED
      BY <3>1, <3>2
  <2>5. \A i, j \in leads : i = j \/ <<i, j>> \in above \/ <<j, i>> \in above
    <3> TAKE i, j \in leads
    <3>1. i \in Nat /\ j \in Nat /\ at(i) \in Nat /\ at(j) \in Nat
      BY <2>1
    <3>2. /\ <<i, j>> \in above <=> at(i) > at(j) \/ (at(i) = at(j) /\ i < j)
          /\ <<j, i>> \in above <=> at(j) > at(i) \/ (at(j) = at(i) /\ j < i)
      BY <2>2
    <3> QED
      BY <3>1, <3>2
  <2> QED
    BY <2>3, <2>4, <2>5 DEF Orders
<1>7. Sorted(order, leads, above) /\ N \in Nat
  <2> HIDE DEF leads, above
  <2> QED
    BY <1>2, <1>6, ArrangedSorts
<1>8. /\ order \in [1..N -> leads]
      /\ \A l \in leads : \E n \in 1..N : order[n] = l
      /\ \A m, n \in 1..N : m < n => <<order[m], order[n]>> \in above
  <2> HIDE DEF leads, above, order
  <2> QED
    BY <1>7 DEF Sorted
<1>9. M = [n \in DOMAIN order |-> Bearer(found, Key(found[order[n]]))]
  BY DEF MergeRankings
<1> HIDE DEF order, above, score
<1>10. \A i \in leads : Bearer(found, Key(found[i])) \in Chunks
  <2> TAKE i \in leads
  <2>1. i \in 1..Len(found)
    <3> HIDE DEF leads, found
    <3> QED
      BY <1>2
  <2> HIDE DEF leads, found
  <2>2. PICK j \in 1..Len(found) : Bearer(found, Key(found[i])) = found[j]
    BY <1>1, <2>1, BearerHasKey
  <2> QED
    BY <1>1, <2>2, ElementOfSeq
<1> DEFINE e(n) == Bearer(found, Key(found[order[n]]))
<1>11. M = [n \in 1..N |-> e(n)] /\ \A n \in 1..N : e(n) \in Chunks
  <2> HIDE DEF leads, found, N, M
  <2> QED
    BY <1>8, <1>9, <1>10
<1>12. M \in Seq(Chunks) /\ Len(M) = N /\ \A n \in 1..N : M[n] = e(n)
  <2> HIDE DEF M, e, N
  <2>1. [n \in 1..N |-> e(n)] \in Seq(Chunks)
    BY <1>7, <1>11, IsASeq
  <2>2. M \in Seq(Chunks) /\ DOMAIN M = 1..N /\ \A n \in 1..N : M[n] = e(n)
    BY <1>11, <2>1
  <2>3. Len(M) \in Nat /\ DOMAIN M = 1..Len(M)
    BY <2>2, LenProperties
  <2>4. Len(M) = N
    BY <1>7, <2>2, <2>3
  <2> QED
    BY <2>2, <2>4
<1>13. \A m, n \in 1..N : m < n => Above(first, second, order[m], order[n])
  <2> HIDE DEF leads, N
  <2> QED
    BY <1>5, <1>8
<1> HIDE DEF N
<1>14. \A n \in 1..N : M[n] = Bearer(found, Key(found[order[n]]))
  BY <1>12
<1> HIDE DEF M
<1> QED
  BY <1>8, <1>12, <1>13, <1>14 DEF M

(***************************************************************************)
(* The references                                                          *)
(***************************************************************************)
\* A mention is a place in the list of references of a chunk, and leads to a section.
LEMMA MentionsAre ==
  ASSUME NEW chunks \in Seq(Chunks)
  PROVE  /\ IsFiniteSet(Mentions(chunks))
         /\ \A m \in Mentions(chunks) :
              /\ m = <<m[1], m[2]>> /\ m[1] \in 1..Len(chunks) /\ m[2] \in Nat
              /\ Of[chunks[m[1]]].refs # <<>>
              /\ Mentioned(chunks, m) \in Chunks
              /\ Of[Mentioned(chunks, m)].framework = Of[chunks[m[1]]].framework
              /\ Of[Mentioned(chunks, m)].section # NoSection
<1> DEFINE Places(i) == {i} \X DOMAIN Of[chunks[i]].refs
           all == {Places(i) : i \in DOMAIN chunks}
<1>1. DOMAIN chunks = 1..Len(chunks) /\ Len(chunks) \in Nat /\ \A i \in 1..Len(chunks) : chunks[i] \in Chunks
  BY LenProperties, ElementOfSeq
<1>2. ASSUME NEW i \in 1..Len(chunks)
      PROVE  /\ DOMAIN Of[chunks[i]].refs = 1..Len(Of[chunks[i]].refs)
             /\ Len(Of[chunks[i]].refs) \in Nat
  <2>1. Of[chunks[i]].refs \in Seq(ToSet(Of[chunks[i]].refs))
    BY <1>1, RetrievalAssumption
  <2> QED
    BY <2>1, LenProperties
<1>3. IsFiniteSet(Mentions(chunks))
  <2>1. \A i \in 1..Len(chunks) : IsFiniteSet(Places(i))
    <3> TAKE i \in 1..Len(chunks)
    <3>1. IsFiniteSet({i})
      BY FS_Singleton
    <3>2. IsFiniteSet(DOMAIN Of[chunks[i]].refs)
      <4>1. \A n \in Nat : IsFiniteSet(1..n)
        BY FS_Interval
      <4> QED
        BY <1>2, <4>1
    <3> QED
      BY <3>1, <3>2, FS_Product
  <2>2. IsFiniteSet(all)
    <3>1. IsFiniteSet(1..Len(chunks))
      BY <1>1, FS_Interval
    <3> DEFINE f == [i \in 1..Len(chunks) |-> Places(i)]
    <3>2. f \in Surjection(1..Len(chunks), all)
      <4> HIDE DEF Places
      <4>1. f \in [1..Len(chunks) -> all]
        BY <1>1
      <4>2. \A T \in all : \E i \in 1..Len(chunks) : f[i] = T
        BY <1>1
      <4> HIDE DEF f, all
      <4> QED
        BY <4>1, <4>2 DEF Surjection
    <3> HIDE DEF f, all
    <3> QED
      BY <3>1, <3>2, FS_Surjection
  <2>3. \A T \in all : IsFiniteSet(T)
    <3> HIDE DEF Places
    <3> QED
      BY <1>1, <2>1
  <2>4. IsFiniteSet(UNION all)
    <3> HIDE DEF all
    <3> QED
      BY <2>2, <2>3, FS_UNION
  <2>5. Mentions(chunks) \in SUBSET UNION all
    BY DEF Mentions
  <2> HIDE DEF all
  <2> QED
    BY <2>4, <2>5, FS_Subset
<1>4. ASSUME NEW m \in Mentions(chunks)
      PROVE  /\ m = <<m[1], m[2]>> /\ m[1] \in 1..Len(chunks) /\ m[2] \in Nat
             /\ Of[chunks[m[1]]].refs # <<>>
             /\ Sections(Of[chunks[m[1]]].framework, Of[chunks[m[1]]].refs[m[2]]) # {}
  <2>1. PICK i \in DOMAIN chunks : m \in Places(i)
    BY DEF Mentions
  <2>2. m = <<m[1], m[2]>> /\ m[1] = i /\ m[2] \in DOMAIN Of[chunks[i]].refs
    BY <2>1
  <2>3. i \in 1..Len(chunks)
    BY <1>1
  <2>4. m[2] \in 1..Len(Of[chunks[i]].refs)
    BY <1>2, <2>2, <2>3
  <2>5. Of[chunks[i]].refs # <<>>
    <3>1. SUFFICES ASSUME Of[chunks[i]].refs = <<>> PROVE FALSE
      OBVIOUS
    <3>2. Len(Of[chunks[i]].refs) = 0
      BY <3>1
    <3> QED
      BY <2>4, <3>2
  <2>6. Sections(Of[chunks[m[1]]].framework, Of[chunks[m[1]]].refs[m[2]]) # {}
    BY DEF Mentions
  <2> QED
    BY <1>2, <2>2, <2>3, <2>4, <2>5, <2>6
<1>5. ASSUME NEW framework, NEW id, Sections(framework, id) # {}
      PROVE  /\ Section(framework, id) \in Chunks
             /\ Of[Section(framework, id)].framework = framework
             /\ Of[Section(framework, id)].section # NoSection
  <2>1. DOMAIN Corpus = 1..Len(Corpus) /\ Len(Corpus) \in Nat
    BY RetrievalAssumption, LenProperties
  <2>2. Sections(framework, id) \in SUBSET (0..Len(Corpus))
    BY <2>1 DEF Sections
  <2>3. Max(Sections(framework, id)) \in Sections(framework, id)
    BY <1>5, <2>1, <2>2, MaxExists
  <2>4. Max(Sections(framework, id)) \in DOMAIN Corpus
    BY <2>3 DEF Sections
  <2>5. Section(framework, id) \in Chunks
    BY <2>4 DEF Section, Chunks, ToSet
  <2> QED
    BY <2>3, <2>5 DEF Sections, Section
<1> QED
  BY <1>3, <1>4, <1>5 DEF Mentioned

\* Two sections at most are injected, each of the framework of a chunk that refers to it
\* (inject_references).
LEMMA SecondaryAre ==
  ASSUME NEW chunks \in Seq(Chunks)
  PROVE  /\ Secondary(chunks) \in Seq(Chunks) /\ Len(Secondary(chunks)) \in 0..2
         /\ \A n \in 1..Len(Secondary(chunks)) :
              /\ Of[Secondary(chunks)[n]].section # NoSection
              /\ \E i \in 1..Len(chunks) :
                   /\ Of[chunks[i]].refs # <<>>
                   /\ Of[Secondary(chunks)[n]].framework = Of[chunks[i]].framework
<1> DEFINE M == Mentions(chunks)
           order == ReadingOrder(M)
           Again(m) == \E p \in order : p[2] = m /\ Mentioned(chunks, p[1]) = Mentioned(chunks, m)
           new == {m \in M : ~Again(m)}
           all == Arranged(new, order)
           N == Cardinality(new)
           L == Min({2, N})
<1>1. \A m \in M : m = <<m[1], m[2]>> /\ m[1] \in Nat /\ m[2] \in Nat
  <2>1. 1..Len(chunks) \subseteq Nat
    BY LenProperties
  <2> HIDE DEF M
  <2> QED
    BY <2>1, MentionsAre DEF M
<1>2. \A m, n \in M : <<m, n>> \in order <=> m[1] < n[1] \/ (m[1] = n[1] /\ m[2] < n[2])
  <2> HIDE DEF M
  <2> QED
    BY DEF ReadingOrder
<1>3. new \in SUBSET M /\ IsFiniteSet(new)
  <2>1. new \in SUBSET M
    OBVIOUS
  <2>2. IsFiniteSet(M)
    BY MentionsAre
  <2> HIDE DEF M, new
  <2> QED
    BY <2>1, <2>2, FS_Subset
<1>4. Orders(order, new)
  <2> HIDE DEF order, M, new
  <2>1. \A x \in new : x \in M /\ x = <<x[1], x[2]>> /\ x[1] \in Nat /\ x[2] \in Nat
    BY <1>1, <1>3
  <2>2. \A x \in new : <<x, x>> \notin order
    BY <1>2, <2>1
  <2>3. \A x, y, z \in new : <<x, y>> \in order /\ <<y, z>> \in order => <<x, z>> \in order
    <3> TAKE x, y, z \in new
    <3>1. /\ x[1] \in Nat /\ y[1] \in Nat /\ z[1] \in Nat
          /\ x[2] \in Nat /\ y[2] \in Nat /\ z[2] \in Nat
      BY <2>1
    <3>2. /\ <<x, y>> \in order <=> x[1] < y[1] \/ (x[1] = y[1] /\ x[2] < y[2])
          /\ <<y, z>> \in order <=> y[1] < z[1] \/ (y[1] = z[1] /\ y[2] < z[2])
          /\ <<x, z>> \in order <=> x[1] < z[1] \/ (x[1] = z[1] /\ x[2] < z[2])
      BY <1>2, <2>1
    <3> QED
      BY <3>1, <3>2
  <2>4. \A x, y \in new : x = y \/ <<x, y>> \in order \/ <<y, x>> \in order
    <3> TAKE x, y \in new
    <3>1. x[1] \in Nat /\ y[1] \in Nat /\ x[2] \in Nat /\ y[2] \in Nat
      BY <2>1
    <3>2. /\ <<x, y>> \in order <=> x[1] < y[1] \/ (x[1] = y[1] /\ x[2] < y[2])
          /\ <<y, x>> \in order <=> y[1] < x[1] \/ (y[1] = x[1] /\ y[2] < x[2])
      BY <1>2, <2>1
    <3>3. x[1] = y[1] /\ x[2] = y[2] => x = y
      BY <2>1
    <3> QED
      BY <3>1, <3>2, <3>3
  <2> QED
    BY <2>2, <2>3, <2>4 DEF Orders
<1>5. all \in [1..N -> new] /\ N \in Nat
  <2> HIDE DEF order, M, new
  <2>1. Sorted(all, new, order) /\ N \in Nat
    BY <1>3, <1>4, ArrangedSorts
  <2> HIDE DEF all
  <2> QED
    BY <2>1 DEF Sorted
<1>6. Secondary(chunks) = [n \in 1..Min({2, Len(all)}) |-> Mentioned(chunks, all[n])]
  BY DEF Secondary, FirstMentions
<1>7. Len(all) = N
  <2> HIDE DEF all, N, new
  <2>1. all \in Seq(new)
    BY <1>5
  <2>2. Len(all) \in Nat /\ DOMAIN all = 1..Len(all)
    BY <2>1, LenProperties
  <2> QED
    BY <1>5, <2>2
<1>8. L \in 0..2 /\ L <= N
  <2> HIDE DEF N
  <2>1. \E x \in {2, N} : \A y \in {2, N} : x <= y
    BY <1>5
  <2>2. L \in {2, N} /\ \A y \in {2, N} : L <= y
    BY <2>1 DEF Min
  <2> HIDE DEF L
  <2> QED
    BY <1>5, <2>2
<1> DEFINE e(n) == Mentioned(chunks, all[n])
<1>9. ASSUME NEW n \in 1..L
      PROVE  /\ e(n) \in Chunks /\ Of[e(n)].section # NoSection
             /\ \E i \in 1..Len(chunks) : Of[chunks[i]].refs # <<>> /\ Of[e(n)].framework = Of[chunks[i]].framework
  <2>1. all[n] \in M
    <3> HIDE DEF all, new, L, N, M
    <3>1. n \in 1..N
      BY <1>5, <1>8
    <3> QED
      BY <1>3, <1>5, <3>1
  <2> HIDE DEF all
  <2> QED
    BY <2>1, MentionsAre
<1>10. Secondary(chunks) = [n \in 1..L |-> e(n)]
  BY <1>6, <1>7
<1> HIDE DEF e, L
<1>11. Secondary(chunks) \in Seq(Chunks) /\ Len(Secondary(chunks)) = L
  <2>1. [n \in 1..L |-> e(n)] \in Seq(Chunks)
    BY <1>8, <1>9, IsASeq
  <2>2. DOMAIN Secondary(chunks) = 1..L
    BY <1>10
  <2>3. Len(Secondary(chunks)) \in Nat /\ DOMAIN Secondary(chunks) = 1..Len(Secondary(chunks))
    BY <1>10, <2>1, LenProperties
  <2> QED
    BY <1>8, <1>10, <2>1, <2>2, <2>3
<1>12. \A n \in 1..L : Secondary(chunks)[n] = e(n)
  BY <1>10
<1> QED
  BY <1>8, <1>9, <1>11, <1>12

(***************************************************************************)
(* What is retrieved                                                       *)
(***************************************************************************)
\* A ranking names no chunk twice, and not more than were asked for.
Ranks(ranking) ==
  ranking \in Seq(Chunks) /\ IsInjective(ranking) /\ Len(ranking) <= Candidates

\* No other chunk has the key of this one.
Alone(c) == \A e \in Chunks : e = c \/ Key(e) # Key(c)

LEMMA RankIs ==
  ASSUME NEW ranking, Ranks(ranking), NEW c
  PROVE  /\ \A i \in 1..Len(ranking) : ranking[i] = c => Rank(ranking, c) = i
         /\ Rank(ranking, c) <= Candidates =>
              Rank(ranking, c) \in 1..Len(ranking) /\ ranking[Rank(ranking, c)] = c
<1>1. DOMAIN ranking = 1..Len(ranking) /\ Len(ranking) \in Nat
  BY LenProperties DEF Ranks
<1>2. ASSUME NEW i \in 1..Len(ranking), ranking[i] = c
      PROVE  Rank(ranking, c) = i
  <2>1. \A j \in DOMAIN ranking : ranking[j] = c => j = i
    BY <1>1, <1>2 DEF Ranks, IsInjective
  <2>2. c \in ToSet(ranking)
    BY <1>1, <1>2 DEF ToSet
  <2> QED
    BY <1>1, <1>2, <2>1, <2>2 DEF Rank
<1>3. ASSUME Rank(ranking, c) <= Candidates
      PROVE  Rank(ranking, c) \in 1..Len(ranking) /\ ranking[Rank(ranking, c)] = c
  <2>1. c \in ToSet(ranking)
    BY <1>3, RetrievalAssumption DEF Rank
  <2>2. PICK i \in 1..Len(ranking) : ranking[i] = c
    BY <1>1, <2>1 DEF ToSet
  <2> QED
    BY <1>2, <2>2
<1> QED
  BY <1>2, <1>3

\* The filter keeps the order of two chunks, and the weights follow it.
LEMMA FilteredRank ==
  ASSUME NEW ranking, Ranks(ranking), NEW c \in Chunks, NEW d \in Chunks, c # d,
         Alone(c), Alone(d), Permitted(c), Rank(ranking, c) <= Rank(ranking, d)
  PROVE  /\ Weight(Filtered(ranking), Key(d)) <= Weight(Filtered(ranking), Key(c))
         /\ \A q \in 1..Len(Filtered(ranking)) :
              Filtered(ranking)[q] = d => \E p \in 1..(q - 1) : Filtered(ranking)[p] = c
<1> DEFINE h == Filtered(ranking)
<1>1. /\ ranking \in Seq(Chunks) /\ DOMAIN ranking = 1..Len(ranking)
      /\ Len(ranking) \in Nat /\ Len(ranking) <= Candidates
  BY LenProperties DEF Ranks
<1>2. h \in Seq(Chunks)
  BY <1>1, FilteredKeeps
<1>3. PICK at \in [1..Len(h) -> Kept(ranking)] :
        /\ \A n \in 1..Len(h) : h[n] = ranking[at[n]]
        /\ \A i \in Kept(ranking) : \E n \in 1..Len(h) : at[n] = i
        /\ \A m, n \in 1..Len(h) : m < n => at[m] < at[n]
  BY <1>1, FilteredKeeps
<1> HIDE DEF h
<1>4. Len(h) \in Nat /\ \A n \in 1..Len(h) : h[n] \in Chunks
  BY <1>2, LenProperties, ElementOfSeq
<1>5. \A n \in 1..Len(h) : at[n] \in 1..Len(ranking)
  BY <1>1, <1>3 DEF Kept
<1>6. ASSUME NEW q \in 1..Len(h), h[q] = d
      PROVE  \E p \in 1..Len(h) : p < q /\ h[p] = c
  <2>1. Rank(ranking, d) = at[q]
    BY <1>3, <1>5, <1>6, RankIs
  <2>2. Rank(ranking, c) <= Candidates
    <3>1. at[q] \in Nat /\ at[q] <= Candidates
      BY <1>1, <1>5, RetrievalAssumption
    <3>2. Rank(ranking, c) <= at[q]
      BY <2>1
    <3>3. Rank(ranking, c) \in Int
      <4>1. CASE c \in ToSet(ranking)
        <5>1. PICK i \in 1..Len(ranking) : ranking[i] = c
          BY <1>1, <4>1 DEF ToSet
        <5> QED
          BY <5>1, RankIs
      <4>2. CASE c \notin ToSet(ranking)
        BY <4>2, RetrievalAssumption DEF Rank
      <4> QED
        BY <4>1, <4>2
    <3> QED
      BY <3>1, <3>2, <3>3, RetrievalAssumption
  <2>3. Rank(ranking, c) \in 1..Len(ranking) /\ ranking[Rank(ranking, c)] = c
    BY <2>2, RankIs
  <2>4. Rank(ranking, c) \in Kept(ranking)
    BY <1>1, <2>3 DEF Kept
  <2>5. PICK p \in 1..Len(h) : at[p] = Rank(ranking, c)
    BY <1>3, <2>4
  <2>6. h[p] = c /\ at[p] <= at[q]
    BY <1>3, <2>1, <2>3, <2>5
  <2>7. p # q
    BY <1>6, <2>6
  <2>8. ~ (q < p)
    <3>1. q < p => at[q] < at[p]
      BY <1>3
    <3>2. at[p] \in Nat /\ at[q] \in Nat
      BY <1>5
    <3> QED
      BY <2>6, <3>1, <3>2
  <2>9. p < q
    BY <1>4, <2>7, <2>8
  <2> QED
    BY <2>6, <2>9
<1>7. ASSUME NEW i \in 1..Len(h), NEW j \in 1..Len(h), h[i] = h[j]
      PROVE  i = j
  <2>1. at[i] = at[j]
    BY <1>1, <1>3, <1>5, <1>7 DEF Ranks, IsInjective
  <2>2. at[i] \in Nat /\ at[j] \in Nat
    BY <1>5
  <2>3. ~ (i < j) /\ ~ (j < i)
    BY <1>3, <2>1, <2>2
  <2> QED
    BY <1>4, <2>3
<1>8. ASSUME NEW p \in 1..Len(h), NEW e \in Chunks, Alone(e), h[p] = e
      PROVE  Weight(h, Key(e)) = Gain(p)
  <2>1. \A i \in 1..Len(h) : i # p => Key(h[i]) # Key(e)
    BY <1>4, <1>7, <1>8 DEF Alone
  <2>2. Key(h[p]) = Key(e)
    BY <1>8
  <2> QED
    BY <1>4, <2>1, <2>2, WeightOfKey
<1>9. Weight(h, Key(d)) <= Weight(h, Key(c))
  <2>1. CASE \E q \in 1..Len(h) : h[q] = d
    <3>1. PICK q \in 1..Len(h) : h[q] = d
      BY <2>1
    <3>2. PICK p \in 1..Len(h) : p < q /\ h[p] = c
      BY <1>6, <3>1
    <3>3. Weight(h, Key(d)) = Gain(q) /\ Weight(h, Key(c)) = Gain(p)
      BY <1>8, <3>1, <3>2
    <3>4. p \in Nat \ {0} /\ q \in Nat \ {0} /\ p <= q
      BY <1>4, <3>2
    <3> QED
      BY <3>3, <3>4, GainFalls
  <2>2. CASE ~ \E q \in 1..Len(h) : h[q] = d
    <3>1. \A i \in 1..Len(h) : Key(h[i]) # Key(d)
      BY <1>4, <2>2 DEF Alone
    <3>2. Weight(h, Key(d)) = 0 /\ Weight(h, Key(c)) \in Nat
      BY <1>4, <3>1, WeightOfKey
    <3> QED
      BY <3>2
  <2> QED
    BY <2>1, <2>2
<1>10. \A q \in 1..Len(h) : h[q] = d => \E p \in 1..(q - 1) : h[p] = c
  <2> TAKE q \in 1..Len(h)
  <2>1. \A p \in 1..Len(h) : p < q => p \in 1..(q - 1)
    BY <1>4
  <2> QED
    BY <1>6, <2>1
<1> QED
  BY <1>9, <1>10 DEF h

\* The head of the merged ranking is what is returned (retrieve).
LEMMA RetrievedAre ==
  ASSUME dense \in Seq(Chunks), sparse \in Seq(Chunks)
  PROVE  /\ Merged \in Seq(Chunks) /\ Retrieved \in Seq(Chunks)
         /\ Len(Retrieved) <= Limit /\ Len(Retrieved) <= Len(Merged)
         /\ \A n \in 1..Len(Retrieved) : Retrieved[n] = Merged[n]
<1>1. Filtered(dense) \in Seq(Chunks) /\ Filtered(sparse) \in Seq(Chunks)
  BY FilteredKeeps
<1>2. Merged \in Seq(Chunks)
  BY <1>1, MergeSorts DEF Merged
<1> DEFINE n == IF Len(Merged) < Limit THEN Len(Merged) ELSE Limit
<1>3. Len(Merged) \in Nat /\ \A i \in 1..Len(Merged) : Merged[i] \in Chunks
  BY <1>2, LenProperties, ElementOfSeq
<1>4. n \in Nat /\ n <= Limit /\ n <= Len(Merged)
  BY <1>3, RetrievalAssumption
<1>5. Retrieved = SubSeq(Merged, 1, n)
  BY DEF Retrieved
<1> HIDE DEF n
<1>6. \A i \in 1..n : Merged[i] \in Chunks
  BY <1>3, <1>4
<1>7. /\ SubSeq(Merged, 1, n) \in Seq(Chunks)
      /\ Len(SubSeq(Merged, 1, n)) = IF 1 <= n THEN n - 1 + 1 ELSE 0
      /\ \A i \in 1..(n - 1 + 1) : SubSeq(Merged, 1, n)[i] = Merged[1 + i - 1]
  <2>1. 1 \in Int /\ n \in Int
    BY <1>4
  <2> QED
    BY <1>6, <2>1, SubSeqProperties
<1>8. Len(SubSeq(Merged, 1, n)) = n
  BY <1>4, <1>7
<1>9. \A i \in 1..n : SubSeq(Merged, 1, n)[i] = Merged[i]
  BY <1>4, <1>7
<1> QED
  BY <1>2, <1>3, <1>4, <1>5, <1>7, <1>8, <1>9

\* What is found is permitted, and what is merged is found.
LEMMA RetrievedPermitted ==
  ASSUME dense \in Seq(Chunks), sparse \in Seq(Chunks)
  PROVE  \A n \in 1..Len(Retrieved) : Permitted(Retrieved[n])
<1> DEFINE f == Filtered(dense)
           g == Filtered(sparse)
           found == f \o g
<1>1. /\ f \in Seq(Chunks) /\ \A n \in 1..Len(f) : Permitted(f[n])
      /\ g \in Seq(Chunks) /\ \A n \in 1..Len(g) : Permitted(g[n])
  <2>1. ASSUME NEW ranking \in Seq(Chunks)
        PROVE  Filtered(ranking) \in Seq(Chunks) /\ \A n \in 1..Len(Filtered(ranking)) : Permitted(Filtered(ranking)[n])
    BY FilteredKeeps DEF Kept
  <2> QED
    BY <2>1
<1> HIDE DEF f, g
<1>2. found \in Seq(Chunks) /\ \A i \in 1..Len(found) : Permitted(found[i])
  <2>1. /\ found \in Seq(Chunks) /\ Len(found) = Len(f) + Len(g)
        /\ \A i \in 1..(Len(f) + Len(g)) : found[i] = IF i <= Len(f) THEN f[i] ELSE g[i - Len(f)]
    BY <1>1, ConcatProperties
  <2>2. Len(f) \in Nat /\ Len(g) \in Nat
    BY <1>1, LenProperties
  <2>3. ASSUME NEW i \in 1..(Len(f) + Len(g)) PROVE Permitted(found[i])
    <3>1. CASE i <= Len(f)
      <4>1. i \in 1..Len(f) /\ found[i] = f[i]
        BY <2>1, <2>2, <3>1
      <4> HIDE DEF found
      <4> QED
        BY <1>1, <4>1
    <3>2. CASE ~ (i <= Len(f))
      <4>1. i - Len(f) \in 1..Len(g) /\ found[i] = g[i - Len(f)]
        BY <2>1, <2>2, <3>2
      <4> HIDE DEF found
      <4> QED
        BY <1>1, <4>1
    <3> QED
      BY <3>1, <3>2
  <2> HIDE DEF found
  <2> QED
    BY <2>1, <2>3
<1>3. PICK order \in [1..Len(MergeRankings(f, g)) -> Leads(found)] :
        \A n \in 1..Len(MergeRankings(f, g)) : MergeRankings(f, g)[n] = Bearer(found, Key(found[order[n]]))
  BY <1>1, MergeSorts
<1> HIDE DEF found
<1>4. \A n \in 1..Len(MergeRankings(f, g)) : Permitted(MergeRankings(f, g)[n])
  <2> TAKE n \in 1..Len(MergeRankings(f, g))
  <2>1. order[n] \in 1..Len(found)
    BY <1>2, <1>3, LeadsOfKeys
  <2>2. PICK j \in 1..Len(found) : Bearer(found, Key(found[order[n]])) = found[j]
    BY <1>2, <2>1, BearerHasKey
  <2> QED
    BY <1>2, <1>3, <2>2
<1>5. MergeRankings(f, g) = Merged
  BY DEF Merged, f, g
<1>6. Len(Merged) \in Nat /\ Len(Retrieved) \in Nat
  BY RetrievedAre, LenProperties
<1> QED
  BY <1>4, <1>5, <1>6, RetrievedAre

\* A chunk that the rankings put first is returned first, and none is returned twice.
LEMMA RetrievedRespects ==
  ASSUME Ranks(dense), Ranks(sparse)
  PROVE  \A j \in 1..Len(Retrieved) :
           /\ \A i \in 1..(j - 1) : Retrieved[i] # Retrieved[j]
           /\ \A c \in Chunks :
                /\ c # Retrieved[j] /\ Alone(c) /\ Alone(Retrieved[j]) /\ Permitted(c)
                /\ Rank(dense, c) <= Rank(dense, Retrieved[j])
                /\ Rank(sparse, c) <= Rank(sparse, Retrieved[j])
                => \E i \in 1..(j - 1) : Retrieved[i] = c
<1> DEFINE f == Filtered(dense)
           g == Filtered(sparse)
           found == f \o g
           leads == Leads(found)
           at(i) == ScoreAt(f, g, i)
<1>1. dense \in Seq(Chunks) /\ sparse \in Seq(Chunks)
  BY DEF Ranks
<1>2. f \in Seq(Chunks) /\ g \in Seq(Chunks) /\ Len(f) \in Nat /\ Len(g) \in Nat
  BY <1>1, FilteredKeeps, LenProperties
<1>3. Merged = MergeRankings(f, g)
  BY DEF Merged
<1> HIDE DEF f, g
<1>4. /\ found \in Seq(Chunks) /\ Len(found) = Len(f) + Len(g)
      /\ \A i \in 1..(Len(f) + Len(g)) : found[i] = IF i <= Len(f) THEN f[i] ELSE g[i - Len(f)]
  BY <1>2, ConcatProperties
<1>5. PICK order \in [1..Len(Merged) -> leads] :
        /\ \A n \in 1..Len(Merged) : Merged[n] = Bearer(found, Key(found[order[n]]))
        /\ \A l \in leads : \E n \in 1..Len(Merged) : order[n] = l
        /\ \A m, n \in 1..Len(Merged) : m < n => Above(f, g, order[m], order[n])
  <2>1. \E order \in [1..Len(MergeRankings(f, g)) -> leads] :
          /\ \A n \in 1..Len(MergeRankings(f, g)) :
               MergeRankings(f, g)[n] = Bearer(found, Key(found[order[n]]))
          /\ \A l \in leads : \E n \in 1..Len(MergeRankings(f, g)) : order[n] = l
          /\ \A m, n \in 1..Len(MergeRankings(f, g)) : m < n => Above(f, g, order[m], order[n])
    BY <1>2, MergeSorts
  <2> QED
    BY <1>3, <2>1
<1>6. \A i : at(i) \in Nat /\ at(i) = Weight(f, Key(found[i])) + Weight(g, Key(found[i]))
  <2>1. \A k : Weight(f, k) \in Nat /\ Weight(g, k) \in Nat
    BY <1>2, WeightOfKey
  <2>2. \A i : at(i) = Weight(f, Key(found[i])) + Weight(g, Key(found[i]))
    BY DEF ScoreAt, Score
  <2> HIDE DEF at, found
  <2> QED
    BY <2>1, <2>2
<1>7. \A i, j : Above(f, g, i, j) <=> at(i) > at(j) \/ (at(i) = at(j) /\ i < j)
  BY DEF Above
<1> HIDE DEF found, at
<1>8. /\ leads \in SUBSET (1..Len(found))
      /\ \A i \in 1..Len(found) : \E l \in leads : l <= i /\ Key(found[l]) = Key(found[i])
      /\ \A l, m \in leads : Key(found[l]) = Key(found[m]) => l = m
  BY <1>4, LeadsOfKeys
<1> HIDE DEF leads
<1>9. \A i \in 1..Len(found) : i \in Nat /\ found[i] \in Chunks
  BY <1>4, ElementOfSeq, LenProperties
<1>10. \A n \in 1..Len(Merged) : Merged[n] \in Chunks /\ Key(Merged[n]) = Key(found[order[n]])
  <2> TAKE n \in 1..Len(Merged)
  <2>1. order[n] \in 1..Len(found)
    BY <1>5, <1>8
  <2>2. PICK j \in 1..Len(found) : Bearer(found, Key(found[order[n]])) = found[j] /\ Key(found[j]) = Key(found[order[n]])
    BY <1>4, <2>1, BearerHasKey
  <2> QED
    BY <1>5, <1>9, <2>2
<1>11. Len(Retrieved) \in Nat /\ Len(Merged) \in Nat /\ Len(Retrieved) <= Len(Merged)
       /\ \A n \in 1..Len(Retrieved) : Retrieved[n] = Merged[n]
  BY <1>1, RetrievedAre, LenProperties
<1>12. ASSUME NEW j \in 1..Len(Merged), NEW i \in 1..Len(Merged), i < j
       PROVE  Merged[i] # Merged[j]
  <2>1. SUFFICES ASSUME Merged[i] = Merged[j] PROVE FALSE
    OBVIOUS
  <2>2. order[i] = order[j] /\ order[i] \in 1..Len(found)
    <3>1. order[i] \in leads /\ order[j] \in leads
      BY <1>5
    <3>2. Key(found[order[i]]) = Key(found[order[j]])
      BY <1>10, <2>1
    <3> QED
      BY <1>8, <3>1, <3>2
  <2>3. Above(f, g, order[i], order[i])
    BY <1>5, <1>12, <2>2
  <2> QED
    BY <1>6, <1>7, <1>9, <2>2, <2>3
<1>13. ASSUME NEW j \in 1..Len(Merged), NEW c \in Chunks, c # Merged[j], Alone(c), Alone(Merged[j]),
              Permitted(c), Rank(dense, c) <= Rank(dense, Merged[j]),
              Rank(sparse, c) <= Rank(sparse, Merged[j])
       PROVE  \E i \in 1..Len(Merged) : i < j /\ Merged[i] = c
  <2> DEFINE d == Merged[j]
             ld == order[j]
  <2>1. d \in Chunks /\ ld \in leads /\ ld \in 1..Len(found) /\ ld \in Nat
    BY <1>5, <1>8, <1>9, <1>10
  <2>2. found[ld] = d
    BY <1>9, <1>10, <1>13, <2>1 DEF Alone
  <2>3. /\ Weight(f, Key(d)) <= Weight(f, Key(c))
        /\ \A q \in 1..Len(f) : f[q] = d => \E p \in 1..(q - 1) : f[p] = c
        /\ Weight(g, Key(d)) <= Weight(g, Key(c))
        /\ \A q \in 1..Len(g) : g[q] = d => \E p \in 1..(q - 1) : g[p] = c
    <3>1. c # d /\ Alone(d) /\ Rank(dense, c) <= Rank(dense, d) /\ Rank(sparse, c) <= Rank(sparse, d)
      BY <1>13
    <3> HIDE DEF d
    <3>2. /\ Weight(Filtered(dense), Key(d)) <= Weight(Filtered(dense), Key(c))
          /\ \A q \in 1..Len(Filtered(dense)) :
               Filtered(dense)[q] = d => \E p \in 1..(q - 1) : Filtered(dense)[p] = c
      BY <1>13, <2>1, <3>1, FilteredRank
    <3>3. /\ Weight(Filtered(sparse), Key(d)) <= Weight(Filtered(sparse), Key(c))
          /\ \A q \in 1..Len(Filtered(sparse)) :
               Filtered(sparse)[q] = d => \E p \in 1..(q - 1) : Filtered(sparse)[p] = c
      BY <1>13, <2>1, <3>1, FilteredRank
    <3> QED
      BY <3>2, <3>3 DEF f, g
  <2> HIDE DEF d, ld
  <2>4. \E p \in 1..Len(found) : p < ld /\ found[p] = c
    <3>1. CASE ld <= Len(f)
      <4>1. ld \in 1..Len(f) /\ f[ld] = d
        BY <1>2, <1>4, <2>1, <2>2, <3>1
      <4>2. PICK p \in 1..(ld - 1) : f[p] = c
        BY <2>3, <4>1
      <4>3. p \in 1..(Len(f) + Len(g)) /\ p <= Len(f) /\ p < ld
        BY <1>2, <3>1, <2>1, <4>2
      <4> QED
        BY <1>4, <4>2, <4>3
    <3>2. CASE ~ (ld <= Len(f))
      <4>1. ld - Len(f) \in 1..Len(g) /\ g[ld - Len(f)] = d
        BY <1>2, <1>4, <2>1, <2>2, <3>2
      <4>2. PICK p \in 1..(ld - Len(f) - 1) : g[p] = c
        BY <2>3, <4>1
      <4>3. /\ Len(f) + p \in 1..(Len(f) + Len(g)) /\ ~ (Len(f) + p <= Len(f))
            /\ Len(f) + p < ld /\ (Len(f) + p) - Len(f) = p
        BY <1>2, <2>1, <4>1, <4>2
      <4> QED
        BY <1>4, <4>2, <4>3
    <3> QED
      BY <3>1, <3>2
  <2>5. PICK lc \in leads : lc < ld /\ Key(found[lc]) = Key(c) /\ lc \in 1..Len(found)
    <3>1. PICK p \in 1..Len(found) : p < ld /\ found[p] = c
      BY <2>4
    <3>2. PICK lc \in leads : lc <= p /\ Key(found[lc]) = Key(c)
      BY <1>8, <3>1
    <3>3. lc \in 1..Len(found) /\ lc \in Nat /\ p \in Nat
      BY <1>8, <1>9, <3>1
    <3>4. lc < ld
      BY <2>1, <3>1, <3>2, <3>3
    <3> QED
      BY <3>2, <3>3, <3>4
  <2>6. at(ld) <= at(lc)
    <3>1. /\ at(lc) = Weight(f, Key(c)) + Weight(g, Key(c))
          /\ at(ld) = Weight(f, Key(d)) + Weight(g, Key(d))
      BY <1>6, <2>2, <2>5
    <3>2. \A k : Weight(f, k) \in Nat /\ Weight(g, k) \in Nat
      BY <1>2, WeightOfKey
    <3>3. /\ Weight(f, Key(c)) \in Nat /\ Weight(g, Key(c)) \in Nat
          /\ Weight(f, Key(d)) \in Nat /\ Weight(g, Key(d)) \in Nat
      BY <3>2
    <3> QED
      BY <2>3, <3>1, <3>3
  <2>7. ~ Above(f, g, ld, lc)
    BY <1>6, <1>7, <1>9, <2>1, <2>5, <2>6
  <2>8. PICK n \in 1..Len(Merged) : order[n] = lc
    BY <1>5, <2>5
  <2>9. ~ (j < n) /\ n # j
    <3>1. j < n => Above(f, g, ld, lc)
      BY <1>5, <2>8 DEF ld
    <3>2. n = j => lc = ld
      BY <2>8 DEF ld
    <3> QED
      BY <1>9, <2>1, <2>5, <2>7, <3>1, <3>2
  <2>10. n < j
    BY <1>11, <2>9
  <2>11. Merged[n] = c
    <3>1. Merged[n] \in Chunks /\ Key(Merged[n]) = Key(c)
      BY <1>10, <2>5, <2>8
    <3> QED
      BY <1>13, <3>1 DEF Alone
  <2> QED
    BY <2>10, <2>11
<1>14. ASSUME NEW j \in 1..Len(Retrieved)
       PROVE  /\ j \in 1..Len(Merged) /\ Retrieved[j] = Merged[j]
              /\ \A i \in 1..Len(Merged) : i < j => i \in 1..(j - 1) /\ Retrieved[i] = Merged[i]
              /\ \A i \in 1..(j - 1) : i \in 1..Len(Merged) /\ i < j /\ Retrieved[i] = Merged[i]
  <2>1. j \in 1..Len(Merged)
    BY <1>11
  <2>2. \A i \in 1..Len(Merged) : i < j => i \in 1..(j - 1) /\ i \in 1..Len(Retrieved)
    BY <1>11
  <2>3. \A i \in 1..(j - 1) : i \in 1..Len(Merged) /\ i < j /\ i \in 1..Len(Retrieved)
    BY <1>11
  <2> QED
    BY <1>11, <2>1, <2>2, <2>3
<1> QED
  BY <1>12, <1>13, <1>14

\* The context holds what was retrieved, and sections that some of it refers to.
LEMMA ContextsAre ==
  ASSUME NEW p \in Seq(Chunks), NEW x \in Contexts(p, Secondary(p))
  PROVE  /\ x \in Seq(Chunks) /\ Len(x) <= Len(p) + 2
         /\ \A c \in ToSet(x) :
              /\ c \in Chunks
              /\ \/ \E i \in 1..Len(p) : c = p[i]
                 \/ /\ Of[c].section # NoSection
                    /\ \E i \in 1..Len(p) :
                         Of[p[i]].refs # <<>> /\ Of[c].framework = Of[p[i]].framework
<1> DEFINE s == Secondary(p)
<1>1. s \in Seq(Chunks) /\ Len(s) \in 0..2 /\ Len(p) \in Nat
  BY SecondaryAre, LenProperties
<1>2. \A n \in 1..Len(s) : /\ Of[s[n]].section # NoSection
                           /\ \E i \in 1..Len(p) : Of[p[i]].refs # <<>> /\ Of[s[n]].framework = Of[p[i]].framework
  BY SecondaryAre
<1>3. PICK n \in 0..Len(s) : x = p \o SubSeq(s, 1, n)
  BY DEF Contexts
<1> HIDE DEF s
<1> DEFINE t == SubSeq(s, 1, n)
<1>4. t \in Seq(Chunks) /\ Len(t) = n /\ \A i \in 1..n : t[i] = s[i]
  <2>1. n \in Nat /\ 1 \in Int /\ n \in Int
    BY <1>1
  <2>2. \A i \in 1..n : s[i] \in Chunks
    BY <1>1, ElementOfSeq
  <2>3. /\ t \in Seq(Chunks) /\ Len(t) = IF 1 <= n THEN n - 1 + 1 ELSE 0
        /\ \A i \in 1..(n - 1 + 1) : t[i] = s[1 + i - 1]
    BY <2>1, <2>2, SubSeqProperties
  <2> HIDE DEF t
  <2> QED
    BY <2>1, <2>3
<1> HIDE DEF t
<1>5. /\ x \in Seq(Chunks) /\ Len(x) = Len(p) + n
      /\ \A i \in 1..(Len(p) + n) : x[i] = IF i <= Len(p) THEN p[i] ELSE t[i - Len(p)]
  BY <1>3, <1>4, ConcatProperties DEF t
<1>6. ASSUME NEW c \in ToSet(x)
      PROVE  /\ c \in Chunks
             /\ \/ \E i \in 1..Len(p) : c = p[i]
                \/ \E i \in 1..Len(s) : c = s[i]
  <2>1. DOMAIN x = 1..Len(x)
    BY <1>5, LenProperties
  <2>2. PICK i \in 1..(Len(p) + n) : c = x[i]
    BY <1>5, <2>1 DEF ToSet
  <2>3. c \in Chunks
    BY <1>5, <2>2, ElementOfSeq
  <2>4. CASE i <= Len(p)
    BY <1>1, <1>5, <2>2, <2>3, <2>4
  <2>5. CASE ~ (i <= Len(p))
    <3>1. i - Len(p) \in 1..n /\ i - Len(p) \in 1..Len(s)
      BY <1>1, <2>5
    <3>2. c = s[i - Len(p)]
      BY <1>4, <1>5, <2>2, <2>5, <3>1
    <3> QED
      BY <2>3, <3>1, <3>2
  <2> QED
    BY <2>4, <2>5
<1>7. Len(x) <= Len(p) + 2
  <2>0. \A k \in 0..2 : k \in Nat /\ k <= 2
    OBVIOUS
  <2>1. Len(s) \in Nat /\ Len(s) <= 2
    BY <1>1, <2>0
  <2>2. n \in Nat /\ n <= Len(s)
    BY <2>1
  <2> QED
    BY <1>1, <1>5, <2>1, <2>2
<1> QED
  BY <1>2, <1>5, <1>6, <1>7

\* What a chunk must be to reach the model.
Admitted(c) ==
  /\ Of[c].institution \in {Everyone, asker.institution}
  /\ Of[c].institution = Everyone /\ RoleFrameworks[asker.role] # {}
     /\ Of[c].framework # NoFramework =>
       \E p \in RoleFrameworks[asker.role] : <<Of[c].framework, p>> \in Matches

\* Neither the filtered results nor the sections they refer to are foreign: an upload has
\* no references, and no section that another chunk could refer to.
LEMMA ContextAdmitted ==
  ASSUME NEW p \in Seq(Chunks), \A i \in 1..Len(p) : Permitted(p[i]),
         NEW x \in Contexts(p, Secondary(p))
  PROVE  \A c \in ToSet(x) : Admitted(c)
<1>1. \A c \in Chunks : Permitted(c) => Admitted(c)
  BY DEF Permitted, InFrameworks, Admitted
<1>2. ASSUME NEW c \in Chunks, NEW i \in 1..Len(p), Of[c].section # NoSection,
             Of[p[i]].refs # <<>>, Of[c].framework = Of[p[i]].framework
      PROVE  Admitted(c)
  <2>1. p[i] \in Chunks
    BY ElementOfSeq
  <2>2. Of[p[i]].institution = Everyone /\ Of[c].institution = Everyone
    BY <1>2, <2>1, RetrievalAssumption
  <2> QED
    BY <1>2, <2>2 DEF Admitted, Permitted, InFrameworks
<1> QED
  BY <1>1, <1>2, ContextsAre, ElementOfSeq

(***************************************************************************)
(* The invariant of the retrieval                                          *)
(***************************************************************************)
RetrievalTyped ==
  /\ asker \in [role : Roles, institution : Institutions]
  /\ Ranks(dense) /\ Ranks(sparse)
  /\ primary \in Seq(Chunks) /\ Len(primary) <= Limit
  /\ context \in Seq(Chunks) /\ Len(context) <= Limit + 2
  /\ stage \in {"asked", "answering", "refused", "not covered"}

RetrievalInv == RetrievalTyped /\ NoForeignChunks /\ FusionRespectsRankings

\* Before anything is retrieved.
LEMMA NothingRetrieved ==
  /\ asker \in [role : Roles, institution : Institutions]
  /\ Ranks(dense) /\ Ranks(sparse) /\ primary = <<>> /\ context = <<>>
  /\ stage \in {"asked", "not covered"}
  => RetrievalInv
<1>1. <<>> \in Seq(Chunks) /\ Len(<<>>) = 0
  BY EmptySeq
<1>2. 0 <= Limit /\ 0 <= Limit + 2
  BY RetrievalAssumption
<1>3. \A s \in Seq(Chunks) : Len(s) = 0 => DOMAIN s = {} /\ ToSet(s) = {}
  <2> TAKE s \in Seq(Chunks)
  <2>1. DOMAIN s = 1..Len(s)
    BY LenProperties
  <2> QED
    BY <2>1 DEF ToSet
<1> SUFFICES ASSUME asker \in [role : Roles, institution : Institutions],
                    Ranks(dense), Ranks(sparse), primary = <<>>, context = <<>>,
                    stage \in {"asked", "not covered"}
             PROVE  RetrievalInv
  OBVIOUS
<1>4. primary \in Seq(Chunks) /\ context \in Seq(Chunks) /\ Len(primary) = 0 /\ Len(context) = 0
  BY <1>1
<1>5. RetrievalTyped
  BY <1>2, <1>4 DEF RetrievalTyped
<1>6. NoForeignChunks
  BY <1>3, <1>4 DEF NoForeignChunks
<1>7. FusionRespectsRankings
  BY <1>3, <1>4 DEF FusionRespectsRankings
<1> QED
  BY <1>5, <1>6, <1>7 DEF RetrievalInv

LEMMA RetrievalStart == RetrievalInit => RetrievalInv
<1> SUFFICES ASSUME RetrievalInit PROVE RetrievalInv
  OBVIOUS
<1>1. ASSUME NEW n \in 0..Candidates, NEW s \in Rankings(n) PROVE Ranks(s)
  <2>1. n \in Nat /\ n <= Candidates /\ s \in [1..n -> Chunks] /\ IsInjective(s)
    BY RetrievalAssumption DEF Rankings
  <2>2. s \in Seq(Chunks) /\ Len(s) = n
    BY <2>1
  <2> QED
    BY <2>1, <2>2 DEF Ranks
<1>2. Ranks(dense) /\ Ranks(sparse)
  <2>1. Candidates \in 0..Candidates
    BY RetrievalAssumption
  <2>2. dense \in Rankings(Candidates)
    BY DEF RetrievalInit
  <2>3. PICK n \in 0..Candidates : sparse \in Rankings(n)
    BY DEF RetrievalInit
  <2> QED
    BY <1>1, <2>1, <2>2, <2>3
<1> QED
  BY <1>2, NothingRetrieved DEF RetrievalInit

LEMMA RetrieveStep == RetrievalInv /\ [Retrieve]_retrievalVars => RetrievalInv'
<1> SUFFICES ASSUME RetrievalInv, [Retrieve]_retrievalVars PROVE RetrievalInv'
  OBVIOUS
<1> USE DEF RetrievalInv
<1>1. asker' = asker /\ dense' = dense /\ sparse' = sparse
  BY DEF Retrieve, retrievalVars
<1>2. \A c \in Chunks : Permitted(c)' <=> Permitted(c)
  BY <1>1 DEF Permitted, InFrameworks
<1>3. ASSUME NEW p, primary' = p,
             \A j \in DOMAIN p, c \in Chunks :
               /\ \A i \in 1..(j - 1) : p[i] # p[j]
               /\ /\ c # p[j]
                  /\ \A e \in Chunks : /\ e = c \/ Key(e) # Key(c)
                                       /\ e = p[j] \/ Key(e) # Key(p[j])
                  /\ Permitted(c)
                  /\ Rank(dense, c) <= Rank(dense, p[j])
                  /\ Rank(sparse, c) <= Rank(sparse, p[j])
                  => \E i \in 1..(j - 1) : p[i] = c
      PROVE  FusionRespectsRankings'
  <2>1. ASSUME NEW j \in DOMAIN p, NEW c \in Chunks
        PROVE  /\ \A i \in 1..(j - 1) : p[i] # p[j]
               /\ /\ c # p[j]
                  /\ \A e \in Chunks : /\ e = c \/ Key(e) # Key(c)
                                       /\ e = p[j] \/ Key(e) # Key(p[j])
                  /\ Permitted(c)'
                  /\ Rank(dense', c) <= Rank(dense', p[j])
                  /\ Rank(sparse', c) <= Rank(sparse', p[j])
                  => \E i \in 1..(j - 1) : p[i] = c
    BY <1>1, <1>2, <1>3
  <2> QED
    BY <1>3, <2>1 DEF FusionRespectsRankings
<1>4. CASE UNCHANGED <<primary, context>> /\ stage' \in {"asked", "answering", "refused", "not covered"}
  <2>1. RetrievalTyped'
    BY <1>1, <1>4 DEF RetrievalTyped, Ranks
  <2>2. NoForeignChunks'
    BY <1>1, <1>4 DEF NoForeignChunks
  <2>3. FusionRespectsRankings'
    <3>1. \A j \in DOMAIN primary, c \in Chunks :
            /\ \A i \in 1..(j - 1) : primary[i] # primary[j]
            /\ /\ c # primary[j]
               /\ \A e \in Chunks : /\ e = c \/ Key(e) # Key(c)
                                    /\ e = primary[j] \/ Key(e) # Key(primary[j])
               /\ Permitted(c)
               /\ Rank(dense, c) <= Rank(dense, primary[j])
               /\ Rank(sparse, c) <= Rank(sparse, primary[j])
               => \E i \in 1..(j - 1) : primary[i] = c
      BY DEF FusionRespectsRankings
    <3> QED
      BY <1>3, <1>4, <3>1
  <2> QED
    BY <2>1, <2>2, <2>3
<1>5. CASE /\ primary' = Retrieved /\ context' \in Contexts(primary', Secondary(primary'))
           /\ stage' \in {"answering", "not covered"}
  <2>1. Ranks(dense) /\ Ranks(sparse) /\ dense \in Seq(Chunks) /\ sparse \in Seq(Chunks)
    BY DEF RetrievalTyped, Ranks
  <2>2. Retrieved \in Seq(Chunks) /\ Len(Retrieved) <= Limit /\ Len(Retrieved) \in Nat
    BY <2>1, RetrievedAre, LenProperties
  <2>3. \A i \in 1..Len(Retrieved) : Permitted(Retrieved[i])
    BY <2>1, RetrievedPermitted
  <2>4. context' \in Contexts(Retrieved, Secondary(Retrieved))
    BY <1>5
  <2>5. context' \in Seq(Chunks) /\ Len(context') <= Len(Retrieved) + 2 /\ Len(context') \in Nat
    BY <2>2, <2>4, ContextsAre, LenProperties
  <2>6. \A c \in ToSet(context') : Admitted(c)
    BY <2>2, <2>3, <2>4, ContextAdmitted
  <2>7. RetrievalTyped'
    <3>1. Len(context') <= Limit + 2
      BY <2>2, <2>5, RetrievalAssumption
    <3> QED
      BY <1>1, <1>5, <2>2, <2>5, <3>1 DEF RetrievalTyped, Ranks
  <2>8. NoForeignChunks'
    BY <1>1, <2>6 DEF NoForeignChunks, Admitted
  <2>9. FusionRespectsRankings'
    <3>1. DOMAIN Retrieved = 1..Len(Retrieved) /\ \A j \in 1..Len(Retrieved) : Retrieved[j] \in Chunks
      BY <2>2, LenProperties, ElementOfSeq
    <3>2. ASSUME NEW j \in 1..Len(Retrieved), NEW c \in Chunks
          PROVE  /\ \A i \in 1..(j - 1) : Retrieved[i] # Retrieved[j]
                 /\ /\ c # Retrieved[j]
                    /\ \A e \in Chunks : /\ e = c \/ Key(e) # Key(c)
                                         /\ e = Retrieved[j] \/ Key(e) # Key(Retrieved[j])
                    /\ Permitted(c)
                    /\ Rank(dense, c) <= Rank(dense, Retrieved[j])
                    /\ Rank(sparse, c) <= Rank(sparse, Retrieved[j])
                    => \E i \in 1..(j - 1) : Retrieved[i] = c
      BY <2>1, <3>1, RetrievedRespects DEF Alone
    <3> QED
      BY <1>3, <1>5, <3>1, <3>2
  <2> QED
    BY <2>7, <2>8, <2>9
<1>6. \/ UNCHANGED <<primary, context>> /\ stage' \in {"asked", "answering", "refused", "not covered"}
      \/ /\ primary' = Retrieved /\ context' \in Contexts(primary', Secondary(primary'))
         /\ stage' \in {"answering", "not covered"}
  <2>1. CASE Retrieve
    BY <2>1 DEF Retrieve
  <2>2. CASE UNCHANGED retrievalVars
    BY <2>2 DEF retrievalVars, RetrievalTyped
  <2> QED
    BY <2>1, <2>2
<1> QED
  BY <1>4, <1>5, <1>6

LEMMA RetrievalTypeFollows == RetrievalInv => RetrievalTypeOK
<1> SUFFICES ASSUME RetrievalInv PROVE RetrievalTypeOK
  OBVIOUS
<1>1. \A s \in Seq(Chunks) : ToSet(s) \subseteq Chunks
  BY ElementOfSeq, LenProperties DEF ToSet
<1> QED
  BY <1>1 DEF RetrievalInv, RetrievalTyped, RetrievalTypeOK, Ranks

\* Rankings, results and context are of the corpus and within their limits, whatever the
\* rankings are (retrieve, inject_references).
THEOREM RetrievalTypes == RetrievalSpec => []RetrievalTypeOK
<1>1. RetrievalSpec => []RetrievalInv
  BY RetrievalStart, RetrieveStep, PTL DEF RetrievalSpec
<1> QED
  BY <1>1, RetrievalTypeFollows, PTL

\* For every corpus, role and institution: nothing of another institution, or of a
\* framework the role has not, reaches the model (retrieve, inject_references).
THEOREM ForeignSafe == RetrievalSpec => []NoForeignChunks
<1>1. RetrievalInv => NoForeignChunks
  BY DEF RetrievalInv
<1> QED
  BY <1>1, RetrievalStart, RetrieveStep, PTL DEF RetrievalSpec

\* For every pair of rankings, of any length: the fusion never turns round two chunks on
\* which the rankings agree, and returns none twice (merge_rankings).
THEOREM FusionSafe == RetrievalSpec => []FusionRespectsRankings
<1>1. RetrievalInv => FusionRespectsRankings
  BY DEF RetrievalInv
<1> QED
  BY <1>1, RetrievalStart, RetrieveStep, PTL DEF RetrievalSpec

(***************************************************************************)
(* The cutting of texts                                                    *)
(***************************************************************************)
Letters == {"a", " ", "."}

\* How far the text has been cut, and whether a part holds a position.
Done == IF cutting THEN start ELSE Len(text)
Holds(part, i) == part[1] <= i /\ i < part[2]

ChunkTyped ==
  /\ text \in Seq(Letters) /\ start \in Nat /\ (cutting => start <= Len(text))
  /\ passes \in {0, 1} /\ cutting \in BOOLEAN

\* The parts lie within what has been cut, and leave out only spaces.
ChunkInv ==
  /\ ChunkTyped
  /\ \A part \in parts : /\ part[1] \in Nat /\ part[2] \in Nat
                         /\ part[1] < part[2] /\ part[2] <= Done
  /\ \A i \in 0..(Done - 1) : At(i) # " " => \E part \in parts : Holds(part, i)

LEMMA LargestExists ==
  ASSUME NEW n \in Nat, NEW T \in SUBSET (0..n), T # {}
  PROVE  Largest(T) \in T
<1>1. Max(T) \in T /\ \A y \in T : y <= Max(T)
  BY MaxExists
<1> QED
  BY <1>1 DEF Largest

\* A split lies in the window, at the latest at its end.
LEMMA SplitIn ==
  ASSUME start \in Nat
  PROVE  SplitAt \in Nat /\ start <= SplitAt /\ SplitAt <= End
<1>1. Target \in Nat /\ Target > 0 /\ Spaces \in SUBSET (0..Target) /\ Stops \in SUBSET (0..Target)
  <2>1. Target \in Nat /\ Target > 0
    BY ChunkingAssumption
  <2>2. 0..(Target - 1) \subseteq 0..Target /\ 0..(Target - 2) \subseteq 0..Target
    BY <2>1
  <2> QED
    BY <2>1, <2>2 DEF Spaces, Stops
<1>2. End \in Nat /\ start <= End
  BY <1>1 DEF End
<1>3. CASE Stops # {} /\ Largest(Stops) > Target \div 2
  <2>1. Largest(Stops) \in Stops
    BY <1>1, <1>3, LargestExists
  <2>2. Largest(Stops) \in 0..(Target - 2)
    BY <2>1 DEF Stops
  <2>3. SplitAt = start + Largest(Stops) + 1
    BY <1>3 DEF SplitAt
  <2> QED
    BY <1>1, <2>2, <2>3 DEF End
<1>4. CASE ~ (Stops # {} /\ Largest(Stops) > Target \div 2) /\ Spaces # {}
  <2>1. Largest(Spaces) \in Spaces
    BY <1>1, <1>4, LargestExists
  <2>2. Largest(Spaces) \in 0..(Target - 1)
    BY <2>1 DEF Spaces
  <2>3. SplitAt = start + Largest(Spaces)
    BY <1>4 DEF SplitAt
  <2> QED
    BY <1>1, <2>2, <2>3 DEF End
<1>5. CASE ~ (Stops # {} /\ Largest(Stops) > Target \div 2) /\ Spaces = {}
  <2>1. SplitAt = End
    BY <1>5 DEF SplitAt
  <2> QED
    BY <1>2, <2>1
<1> QED
  BY <1>3, <1>4, <1>5

\* One more part, from where the last cut ended.
LEMMA PartAdded ==
  ASSUME ChunkInv, cutting, NEW to \in Nat, start <= to, parts' = parts \cup Part(start, to),
         text' = text, Done' = to
  PROVE  /\ \A part \in parts' : /\ part[1] \in Nat /\ part[2] \in Nat
                                 /\ part[1] < part[2] /\ part[2] <= Done'
         /\ \A i \in 0..(Done' - 1) : At(i)' # " " => \E part \in parts' : Holds(part, i)
<1> DEFINE new == <<start, to>>
<1>1. Done = start /\ start \in Nat
  BY DEF Done, ChunkInv, ChunkTyped
<1>2. Part(start, to) \in SUBSET {new} /\ (Part(start, to) # {} => start < to)
  <2>1. \A i \in start..(to - 1) : start < to
    BY <1>1
  <2> QED
    BY <2>1 DEF Part
<1>3. \A p \in parts' : p \in parts \/ (p = new /\ start < to)
  BY <1>2
<1>4. new[1] = start /\ new[2] = to
  OBVIOUS
<1>5. ASSUME NEW part \in parts'
      PROVE  /\ part[1] \in Nat /\ part[2] \in Nat
             /\ part[1] < part[2] /\ part[2] <= Done'
  <2>1. CASE part \in parts
    <3>1. part[1] \in Nat /\ part[2] \in Nat /\ part[1] < part[2] /\ part[2] <= start
      BY <1>1, <2>1 DEF ChunkInv
    <3> QED
      BY <1>1, <3>1
  <2>2. CASE part = new /\ start < to
    <3> HIDE DEF new
    <3> QED
      BY <1>1, <1>4, <2>2
  <2> QED
    BY <1>3, <2>1, <2>2
<1>6. ASSUME NEW i \in 0..(to - 1), At(i) # " "
      PROVE  \E part \in parts' : Holds(part, i)
  <2>1. CASE i < start
    <3>1. i \in 0..(Done - 1)
      BY <1>1, <2>1
    <3> QED
      BY <1>6, <3>1 DEF ChunkInv
  <2>2. CASE ~ (i < start)
    <3>1. i \in start..(to - 1) /\ start <= i /\ i < to
      BY <1>1, <2>2
    <3>2. new \in parts'
      BY <1>6, <3>1 DEF Part
    <3>3. Holds(new, i)
      BY <1>4, <3>1 DEF Holds
    <3> QED
      BY <3>2, <3>3
  <2> QED
    BY <2>1, <2>2
<1>7. \A i : At(i)' = At(i)
  BY DEF At
<1> QED
  BY <1>5, <1>6, <1>7

\* No text, or one that has not been cut yet.
LEMMA NothingCut ==
  text \in Seq(Letters) /\ start = 0 /\ parts = {} /\ passes = 0 /\ cutting \in BOOLEAN
    /\ (cutting \/ text = <<>>)
  => ChunkInv
<1> SUFFICES ASSUME text \in Seq(Letters), start = 0, parts = {}, passes = 0, cutting \in BOOLEAN,
                    cutting \/ text = <<>>
             PROVE  ChunkInv
  OBVIOUS
<1>1. Len(text) \in Nat
  BY LenProperties
<1>2. Done = 0
  BY EmptySeq DEF Done
<1> QED
  BY <1>1, <1>2 DEF ChunkInv, ChunkTyped

LEMMA ChunkStart == ChunkInit => ChunkInv
<1>1. ASSUME ChunkInit PROVE text \in Seq(Letters)
  <2>1. PICK n \in 1..MaxText : text \in [1..n -> Letters]
    BY <1>1 DEF ChunkInit, Texts, Letters
  <2>2. n \in Nat
    BY ChunkingAssumption
  <2> QED
    BY <2>1, <2>2
<1> QED
  BY <1>1, NothingCut DEF ChunkInit

LEMMA CutStep == ChunkInv /\ [Cut]_chunkVars => ChunkInv'
<1> SUFFICES ASSUME ChunkInv, [Cut]_chunkVars PROVE ChunkInv'
  OBVIOUS
<1>1. CASE Cut /\ End >= Len(text)
  <2>1. /\ cutting /\ parts' = parts \cup Part(start, Len(text)) /\ cutting' = FALSE
        /\ start' = start /\ passes' = 1 - passes /\ text' = text
    BY <1>1 DEF Cut
  <2>2. Len(text) \in Nat /\ start <= Len(text)
    BY <2>1, LenProperties DEF ChunkInv, ChunkTyped
  <2>3. Done' = Len(text)
    BY <2>1 DEF Done
  <2>4. ChunkTyped'
    <3>1. passes \in {0, 1} => 1 - passes \in {0, 1}
      OBVIOUS
    <3> QED
      BY <2>1, <3>1 DEF ChunkInv, ChunkTyped
  <2> QED
    BY <2>1, <2>2, <2>3, <2>4, PartAdded DEF ChunkInv
<1>2. CASE Cut /\ ~ (End >= Len(text))
  <2>1. /\ cutting /\ parts' = parts \cup Part(start, SplitAt) /\ cutting' = cutting
        /\ start' = NextStart(SplitAt) /\ passes' = 1 - passes /\ text' = text
    BY <1>2 DEF Cut
  <2>2. start \in Nat /\ Len(text) \in Nat /\ End \in Nat /\ End <= Len(text)
    <3>1. start \in Nat /\ Len(text) \in Nat
      BY LenProperties DEF ChunkInv, ChunkTyped
    <3>2. End \in Nat
      BY <3>1, ChunkingAssumption DEF End
    <3> QED
      BY <1>2, <3>1, <3>2
  <2>3. SplitAt \in Nat /\ start <= SplitAt /\ SplitAt <= End
    BY <2>2, SplitIn
  <2>4. start' = SplitAt /\ Done' = SplitAt /\ SplitAt <= Len(text)
    <3>1. NextStart(SplitAt) = SplitAt
      <4> HIDE DEF SplitAt
      <4> QED
        BY <2>3, ChunkingAssumption DEF NextStart
    <3> QED
      BY <2>1, <2>2, <2>3, <3>1 DEF Done
  <2>5. ChunkTyped'
    <3>1. passes \in {0, 1} => 1 - passes \in {0, 1}
      OBVIOUS
    <3> QED
      BY <2>1, <2>3, <2>4, <3>1 DEF ChunkInv, ChunkTyped
  <2> QED
    BY <2>1, <2>3, <2>4, <2>5, PartAdded DEF ChunkInv
<1>3. CASE UNCHANGED chunkVars
  BY <1>3 DEF chunkVars, ChunkInv, ChunkTyped, Done, At
<1> QED
  BY <1>1, <1>2, <1>3

LEMMA ChunkTypeFollows == ChunkInv => ChunkTypeOK
  BY DEF ChunkInv, ChunkTyped, ChunkTypeOK, Letters

\* The position and the parts of a text keep their types, for every window and text.
THEOREM ChunkTypes == ChunkSpec => []ChunkTypeOK
  BY ChunkStart, CutStep, ChunkTypeFollows, PTL DEF ChunkSpec

\* The safety half of SplitEndsUnlessStuck, for every window and text: if the loop ends,
\* every character but spaces is in a part (_split_large_text).
THEOREM SplitCovers == ChunkSpec => [](~cutting => Covered)
<1>1. ChunkInv => (~cutting => Covered)
  <2> SUFFICES ASSUME ChunkInv, ~cutting PROVE Covered
    OBVIOUS
  <2>1. Done = Len(text) /\ Len(text) \in Nat
    BY LenProperties DEF Done, ChunkInv, ChunkTyped
  <2>2. ASSUME NEW i \in 0..(Len(text) - 1), At(i) # " "
        PROVE  \E part \in parts : part[1] <= i /\ i < part[2]
    <3>1. i \in 0..(Done - 1)
      BY <2>1
    <3>2. PICK p \in parts : Holds(p, i)
      BY <2>2, <3>1 DEF ChunkInv
    <3> QED
      BY <3>2 DEF Holds
  <2> QED
    BY <2>2 DEF Covered
<1> QED
  BY <1>1, ChunkStart, CutStep, PTL DEF ChunkSpec
=============================================================================
