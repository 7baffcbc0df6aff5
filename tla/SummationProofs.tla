--------------------------- MODULE SummationProofs ---------------------------
(***************************************************************************)
(* Lemmas about sums, and about sequences that are joined.  They rest on   *)
(* descent: a set of natural numbers that has the predecessor of each of   *)
(* its members is empty, since the order of the numbers is well founded.   *)
(* What fails of a sum fails of an earlier one, and so never.              *)
(***************************************************************************)
EXTENDS Summation, FiniteSets, SequencesExt, SequenceTheorems, FiniteSetTheorems,
        WellFoundedInduction, TLAPS

\* A set of numbers that has with each its predecessor, and not 0, is empty.
LEMMA Descent ==
  ASSUME NEW A \in SUBSET Nat, \A n \in A : n # 0 /\ n - 1 \in A
  PROVE  A = {}
<1>1. SUFFICES ASSUME A # {} PROVE FALSE
  OBVIOUS
<1> DEFINE R == OpToRel(<, Nat)
<1>2. IsWellFoundedOn(R, Nat)
  BY NatLessThanWellFounded
<1>3. \E x \in A : \A y \in A : ~ (<<y, x>> \in R)
  <2> HIDE DEF R
  <2> QED BY <1>1, <1>2, WFMin
<1>4. PICK x \in A : \A y \in A : <<y, x>> \notin R
  BY <1>3
<1>5. x \in Nat /\ x # 0 /\ x - 1 \in A /\ x - 1 \in Nat /\ x - 1 < x
  OBVIOUS
<1>6. <<x - 1, x>> \in R
  BY <1>5 DEF OpToRel
<1> QED BY <1>4, <1>5, <1>6

-----------------------------------------------------------------------------
(* That there are sums at all, and what they are.                          *)

IsSums(s, f, n) == s = [k \in 0 .. n |-> IF k = 0 THEN 0 ELSE s[k - 1] + f[k]]

LEMMA SumsExist ==
  ASSUME NEW f, NEW n \in Nat
  PROVE  \E s : IsSums(s, f, n)
<1> DEFINE A == {k \in Nat : ~\E s : IsSums(s, f, k)}
<1>1. ASSUME NEW k \in A PROVE k # 0 /\ k - 1 \in A
  <2>1. k # 0
    <3> SUFFICES ASSUME k = 0 PROVE FALSE
      OBVIOUS
    <3> DEFINE s == [i \in 0 .. 0 |-> 0]
    <3>1. IsSums(s, f, 0)
      BY DEF IsSums
    <3> QED BY <3>1
  <2>2. ASSUME k - 1 \notin A PROVE FALSE
    <3>1. k - 1 \in Nat
      BY <2>1
    <3>2. PICK s : IsSums(s, f, k - 1)
      BY <2>2, <3>1
    <3> DEFINE t == [i \in 0 .. k |-> IF i = k THEN s[k - 1] + f[k] ELSE s[i]]
    <3>3. \A i \in 0 .. k - 1 : s[i] = IF i = 0 THEN 0 ELSE s[i - 1] + f[i]
      BY <3>2 DEF IsSums
    <3>4. \A i \in 0 .. k : t[i] = IF i = 0 THEN 0 ELSE t[i - 1] + f[i]
      BY <2>1, <3>3
    <3>5. IsSums(t, f, k)
      BY <3>4 DEF IsSums
    <3> QED BY <3>5
  <2> QED BY <2>1, <2>2
<1> HIDE DEF A
<1>2. A \in SUBSET Nat
  BY DEF A
<1>3. A = {}
  BY <1>1, <1>2, Descent
<1> QED BY <1>3 DEF A

LEMMA SumsAre ==
  ASSUME NEW f, NEW n \in Nat
  PROVE  \A k \in 0 .. n : Sums(f, n)[k] = IF k = 0 THEN 0 ELSE Sums(f, n)[k - 1] + f[k]
<1>1. PICK s : IsSums(s, f, n)
  BY SumsExist
<1>2. IsSums(Sums(f, n), f, n)
  BY <1>1 DEF Sums, IsSums
<1> QED BY <1>2 DEF IsSums

\* Sums of whole numbers are whole numbers.
LEMMA SumsInt ==
  ASSUME NEW f, NEW n \in Nat, \A k \in 1 .. n : f[k] \in Int
  PROVE  \A k \in 0 .. n : Sums(f, n)[k] \in Int
<1> DEFINE A == {k \in 0 .. n : Sums(f, n)[k] \notin Int}
<1>1. ASSUME NEW k \in A PROVE k # 0 /\ k - 1 \in A
  <2>1. Sums(f, n)[k] = IF k = 0 THEN 0 ELSE Sums(f, n)[k - 1] + f[k]
    BY SumsAre
  <2> QED BY <2>1
<1> HIDE DEF A
<1>2. A \in SUBSET Nat
  BY DEF A
<1>3. A = {}
  BY <1>1, <1>2, Descent
<1> QED BY <1>3 DEF A

LEMMA SumsNat ==
  ASSUME NEW f, NEW n \in Nat, \A k \in 1 .. n : f[k] \in Nat
  PROVE  \A k \in 0 .. n : Sums(f, n)[k] \in Nat
<1> DEFINE A == {k \in 0 .. n : Sums(f, n)[k] \notin Nat}
<1>1. ASSUME NEW k \in A PROVE k # 0 /\ k - 1 \in A
  <2>1. Sums(f, n)[k] = IF k = 0 THEN 0 ELSE Sums(f, n)[k - 1] + f[k]
    BY SumsAre
  <2> QED BY <2>1
<1> HIDE DEF A
<1>2. A \in SUBSET Nat
  BY DEF A
<1>3. A = {}
  BY <1>1, <1>2, Descent
<1> QED BY <1>3 DEF A

\* What starts with the same numbers has the same first sums.
LEMMA SumsAgree ==
  ASSUME NEW f, NEW n \in Nat, NEW g, NEW m \in Nat, NEW l \in 0 .. n, l <= m,
         \A k \in 1 .. l : f[k] = g[k]
  PROVE  \A k \in 0 .. l : Sums(f, n)[k] = Sums(g, m)[k]
<1> DEFINE A == {k \in 0 .. l : Sums(f, n)[k] # Sums(g, m)[k]}
<1>1. ASSUME NEW k \in A PROVE k # 0 /\ k - 1 \in A
  <2>1. /\ Sums(f, n)[k] = IF k = 0 THEN 0 ELSE Sums(f, n)[k - 1] + f[k]
        /\ Sums(g, m)[k] = IF k = 0 THEN 0 ELSE Sums(g, m)[k - 1] + g[k]
    BY SumsAre
  <2> QED BY <2>1
<1> HIDE DEF A
<1>2. A \in SUBSET Nat
  BY DEF A
<1>3. A = {}
  BY <1>1, <1>2, Descent
<1> QED BY <1>3 DEF A

\* What differs in one number differs in the sums from there on.
LEMMA SumsDiffer ==
  ASSUME NEW f, NEW g, NEW n \in Nat, NEW j \in 1 .. n,
         \A k \in 1 .. n : f[k] \in Int /\ g[k] \in Int,
         \A k \in 1 .. n : k # j => f[k] = g[k]
  PROVE  \A k \in j .. n : Sums(g, n)[k] = Sums(f, n)[k] - f[j] + g[j]
<1> DEFINE A == {k \in j .. n : Sums(g, n)[k] # Sums(f, n)[k] - f[j] + g[j]}
<1>1. j - 1 \in 0 .. n /\ Sums(f, n)[j - 1] = Sums(g, n)[j - 1]
  BY SumsAgree
<1>2. ASSUME NEW k \in A PROVE k # 0 /\ k - 1 \in A
  <2>1. k \in 0 .. n /\ k # 0 /\ k - 1 \in 0 .. n
    OBVIOUS
  <2>2. /\ Sums(f, n)[k] = Sums(f, n)[k - 1] + f[k]
        /\ Sums(g, n)[k] = Sums(g, n)[k - 1] + g[k]
    BY <2>1, SumsAre
  <2>3. Sums(f, n)[k - 1] \in Int /\ Sums(g, n)[k - 1] \in Int
    BY <2>1, SumsInt
  <2>4. k # j
    BY <1>1, <2>2, <2>3
  <2> QED BY <2>1, <2>2, <2>3, <2>4
<1> HIDE DEF A
<1>3. A \in SUBSET Nat
  BY DEF A
<1>4. A = {}
  BY <1>2, <1>3, Descent
<1> QED BY <1>4 DEF A

\* The sum of the numbers of a book, or of the executions of a trade, when one of
\* them is another, and when one is added.
LEMMA SumOfInt ==
  ASSUME NEW f, NEW n \in Nat, \A k \in 1 .. n : f[k] \in Int
  PROVE  SumOf(f, n) \in Int
BY SumsInt DEF SumOf

LEMMA SumOfChanged ==
  ASSUME NEW f, NEW g, NEW n \in Nat, NEW j \in 1 .. n,
         \A k \in 1 .. n : f[k] \in Int /\ g[k] \in Int,
         \A k \in 1 .. n : k # j => f[k] = g[k]
  PROVE  SumOf(g, n) = SumOf(f, n) - f[j] + g[j]
BY SumsDiffer DEF SumOf

LEMMA SumOfLonger ==
  ASSUME NEW f, NEW g, NEW n \in Nat, \A k \in 1 .. n : f[k] = g[k]
  PROVE  SumOf(g, n + 1) = SumOf(f, n) + g[n + 1]
<1>1. Sums(f, n)[n] = Sums(g, n + 1)[n]
  BY SumsAgree
<1>2. Sums(g, n + 1)[n + 1] = Sums(g, n + 1)[n] + g[n + 1]
  BY SumsAre
<1> QED BY <1>1, <1>2 DEF SumOf

LEMMA SumOfSame ==
  ASSUME NEW f, NEW g, NEW n \in Nat, \A k \in 1 .. n : f[k] = g[k]
  PROVE  SumOf(g, n) = SumOf(f, n)
BY SumsAgree DEF SumOf

\* Sums of natural numbers never fall.
LEMMA SumsGrow ==
  ASSUME NEW f, NEW n \in Nat, NEW l \in 0 .. n, \A k \in 1 .. n : f[k] \in Nat
  PROVE  Sums(f, n)[l] <= SumOf(f, n)
<1> DEFINE A == {k \in l .. n : ~(Sums(f, n)[l] <= Sums(f, n)[k])}
<1>1. \A k \in 0 .. n : Sums(f, n)[k] \in Nat
  BY SumsNat
<1>2. ASSUME NEW k \in A PROVE k # 0 /\ k - 1 \in A
  <2>1. k # l
    BY <1>1
  <2>2. k # 0 /\ k - 1 \in l .. n /\ k \in 1 .. n
    BY <2>1
  <2>3. Sums(f, n)[k] = Sums(f, n)[k - 1] + f[k]
    BY <2>2, SumsAre
  <2> QED BY <1>1, <2>2, <2>3
<1> HIDE DEF A
<1>3. A \in SUBSET Nat
  BY DEF A
<1>4. A = {}
  BY <1>2, <1>3, Descent
<1> QED BY <1>4 DEF A, SumOf

LEMMA SumOfNothing ==
  ASSUME NEW f, NEW n \in Nat, \A k \in 1 .. n : f[k] = 0
  PROVE  SumOf(f, n) = 0
<1> DEFINE A == {k \in 0 .. n : Sums(f, n)[k] # 0}
<1>1. ASSUME NEW k \in A PROVE k # 0 /\ k - 1 \in A
  <2>1. Sums(f, n)[k] = IF k = 0 THEN 0 ELSE Sums(f, n)[k - 1] + f[k]
    BY SumsAre
  <2> QED BY <2>1
<1> HIDE DEF A
<1>2. A \in SUBSET Nat
  BY DEF A
<1>3. A = {}
  BY <1>1, <1>2, Descent
<1> QED BY <1>3 DEF A, SumOf

\* The sum of two sequences, number by number.
LEMMA SumOfBoth ==
  ASSUME NEW f, NEW g, NEW h, NEW n \in Nat,
         \A k \in 1 .. n : f[k] \in Int /\ g[k] \in Int /\ h[k] = f[k] + g[k]
  PROVE  SumOf(h, n) = SumOf(f, n) + SumOf(g, n)
<1> DEFINE A == {k \in 0 .. n : Sums(h, n)[k] # Sums(f, n)[k] + Sums(g, n)[k]}
<1>1. ASSUME NEW k \in A PROVE k # 0 /\ k - 1 \in A
  <2>1. /\ Sums(h, n)[k] = IF k = 0 THEN 0 ELSE Sums(h, n)[k - 1] + h[k]
        /\ Sums(f, n)[k] = IF k = 0 THEN 0 ELSE Sums(f, n)[k - 1] + f[k]
        /\ Sums(g, n)[k] = IF k = 0 THEN 0 ELSE Sums(g, n)[k - 1] + g[k]
    BY SumsAre
  <2>2. k # 0 /\ k \in 1 .. n /\ k - 1 \in 0 .. n
    BY <2>1
  <2>3. Sums(f, n)[k - 1] \in Int /\ Sums(g, n)[k - 1] \in Int
    BY <2>2, SumsInt
  <2> QED BY <2>1, <2>2, <2>3
<1> HIDE DEF A
<1>2. A \in SUBSET Nat
  BY DEF A
<1>3. A = {}
  BY <1>1, <1>2, Descent
<1> QED BY <1>3 DEF A, SumOf

\* h is the numbers of f, then those of g.
Joins(h, f, m, g, n) ==
    /\ \A k \in 1 .. m : f[k] \in Int /\ h[k] = f[k]
    /\ \A k \in 1 .. n : g[k] \in Int /\ h[m + k] = g[k]

LEMMA SumOfJoined ==
  ASSUME NEW f, NEW m \in Nat, NEW g, NEW n \in Nat, NEW h, Joins(h, f, m, g, n)
  PROVE  SumOf(h, m + n) = SumOf(f, m) + SumOf(g, n)
<1>0. /\ \A k \in 1 .. m : f[k] \in Int /\ h[k] = f[k]
      /\ \A k \in 1 .. n : g[k] \in Int /\ h[m + k] = g[k]
  BY DEF Joins
<1> DEFINE A == {k \in 0 .. n : Sums(h, m + n)[m + k] # SumOf(f, m) + Sums(g, n)[k]}
<1>1. Sums(h, m + n)[m] = SumOf(f, m) /\ SumOf(f, m) \in Int
  <2>1. m \in 0 .. m /\ m + n \in Nat /\ m <= m + n
    OBVIOUS
  <2>2. \A k \in 0 .. m : Sums(f, m)[k] = Sums(h, m + n)[k]
    BY <1>0, <2>1, SumsAgree
  <2> QED BY <1>0, <2>1, <2>2, SumOfInt DEF SumOf
<1>2. ASSUME NEW k \in A PROVE k # 0 /\ k - 1 \in A
  <2>1. Sums(g, n)[k] = IF k = 0 THEN 0 ELSE Sums(g, n)[k - 1] + g[k]
    BY SumsAre
  <2>2. k # 0
    BY <1>1, <2>1
  <2>3. k \in 1 .. n /\ k - 1 \in 0 .. n /\ m + k \in 0 .. m + n /\ m + k # 0
        /\ m + k - 1 = m + (k - 1)
    BY <2>2
  <2>4. Sums(h, m + n)[m + k] = Sums(h, m + n)[m + k - 1] + h[m + k]
    BY <2>3, SumsAre
  <2>5. Sums(g, n)[k - 1] \in Int
    BY <1>0, <2>3, SumsInt
  <2> QED BY <1>0, <1>1, <2>1, <2>2, <2>3, <2>4, <2>5
<1> HIDE DEF A
<1>3. A \in SUBSET Nat
  BY DEF A
<1>4. A = {}
  BY <1>2, <1>3, Descent
<1> QED BY <1>4 DEF A, SumOf

LEMMA SumsRise ==
  ASSUME NEW f, NEW n \in Nat, \A k \in 1 .. n : f[k] \in Nat /\ f[k] > 0,
         NEW l \in 0 .. n, NEW m \in 0 .. n, l < m
  PROVE  Sums(f, n)[l] < Sums(f, n)[m]
<1>1. m \in 1 .. n /\ m - 1 \in Nat /\ l \in 0 .. m - 1 /\ m - 1 \in 0 .. n /\ m # 0
  OBVIOUS
<1>2. Sums(f, n)[m] = Sums(f, n)[m - 1] + f[m]
  BY <1>1, SumsAre
<1>3. \A k \in 1 .. m - 1 : f[k] \in Nat
  BY <1>1
<1>4. PICK p : p = m - 1
  OBVIOUS
<1>5. Sums(f, p)[l] <= SumOf(f, p)
  BY <1>1, <1>3, <1>4, SumsGrow
<1>6. \A k \in 0 .. p : Sums(f, p)[k] = Sums(f, n)[k]
  <2>1. p \in 0 .. p /\ p <= n /\ p \in Nat
    BY <1>1, <1>4
  <2>2. \A k \in 1 .. p : f[k] = f[k]
    OBVIOUS
  <2> QED BY <2>1, <2>2, SumsAgree
<1>7. Sums(f, n)[l] <= Sums(f, n)[p]
  BY <1>1, <1>4, <1>5, <1>6 DEF SumOf
<1>8. \A k \in 1 .. n : f[k] \in Int
  OBVIOUS
<1>9. Sums(f, n)[l] \in Int /\ Sums(f, n)[p] \in Int
  BY <1>1, <1>4, <1>8, SumsInt
<1>10. f[m] \in Nat /\ f[m] > 0
  BY <1>1
<1> QED BY <1>2, <1>4, <1>7, <1>9, <1>10

LEMMA SumOfSome ==
  ASSUME NEW f, NEW n \in Nat, \A k \in 1 .. n : f[k] \in Nat, NEW j \in 1 .. n
  PROVE  f[j] <= SumOf(f, n)
<1>1. j \in 0 .. n /\ j - 1 \in 0 .. n /\ j # 0
  OBVIOUS
<1>2. Sums(f, n)[j] = Sums(f, n)[j - 1] + f[j]
  BY <1>1, SumsAre
<1>3. Sums(f, n)[j - 1] \in Nat /\ Sums(f, n)[j] \in Nat
  BY <1>1, SumsNat
<1>4. Sums(f, n)[j] <= SumOf(f, n)
  BY <1>1, SumsGrow
<1>5. SumOf(f, n) \in Nat
  <2>1. n \in 0 .. n
    OBVIOUS
  <2> QED BY <2>1, SumsNat DEF SumOf
<1> QED BY <1>2, <1>3, <1>4, <1>5

\* Two entries of a sum.
LEMMA SumOfTwo ==
  ASSUME NEW f, NEW n \in Nat, n >= 2, \A k \in 1 .. n : f[k] \in Nat
  PROVE  f[1] + f[2] <= SumOf(f, n)
<1>1. 0 \in 0 .. n /\ 1 \in 0 .. n /\ 2 \in 0 .. n /\ 1 \in 1 .. n /\ 2 \in 1 .. n
  OBVIOUS
<1>2. \A k \in 0 .. n : Sums(f, n)[k] = IF k = 0 THEN 0 ELSE Sums(f, n)[k - 1] + f[k]
  BY SumsAre
<1>3. Sums(f, n)[0] = 0 /\ Sums(f, n)[1] = Sums(f, n)[0] + f[1]
      /\ Sums(f, n)[2] = Sums(f, n)[1] + f[2]
  BY <1>1, <1>2
<1>4. Sums(f, n)[2] <= SumOf(f, n)
  BY <1>1, SumsGrow
<1>5. f[1] \in Nat /\ f[2] \in Nat
  BY <1>1
<1> QED BY <1>3, <1>4, <1>5

LEMMA SumOfOnes ==
  ASSUME NEW f, NEW n \in Nat, \A k \in 1 .. n : f[k] = 1
  PROVE  SumOf(f, n) = n
<1> DEFINE A == {k \in 0 .. n : Sums(f, n)[k] # k}
<1>1. ASSUME NEW k \in A PROVE k # 0 /\ k - 1 \in A
  <2>1. Sums(f, n)[k] = IF k = 0 THEN 0 ELSE Sums(f, n)[k - 1] + f[k]
    BY SumsAre
  <2>2. k # 0
    BY <2>1
  <2>3. k \in 1 .. n /\ f[k] = 1 /\ k - 1 \in 0 .. n
    BY <2>2
  <2>4. Sums(f, n)[k - 1] = k - 1 => Sums(f, n)[k] = k
    BY <2>1, <2>2, <2>3
  <2> QED BY <2>2, <2>3, <2>4
<1> HIDE DEF A
<1>2. A \in SUBSET Nat
  BY DEF A
<1>3. A = {}
  BY <1>1, <1>2, Descent
<1>4. n \in 0 .. n
  OBVIOUS
<1> QED BY <1>3, <1>4 DEF A, SumOf

LEMMA SumOfSingle ==
  ASSUME NEW f, NEW n \in Nat, NEW i \in 1 .. n, f[i] \in Int,
         \A k \in 1 .. n : k # i => f[k] = 0
  PROVE  SumOf(f, n) = f[i]
<1>1. PICK g : g = [k \in 1 .. n |-> 0]
  OBVIOUS
<1>2. \A k \in 1 .. n : g[k] = 0 /\ g[k] \in Int /\ f[k] \in Int /\ (k # i => g[k] = f[k])
  BY <1>1
<1>3. SumOf(f, n) = SumOf(g, n) - g[i] + f[i]
  BY <1>2, SumOfChanged
<1>4. SumOf(g, n) = 0
  BY <1>2, SumOfNothing
<1> QED BY <1>2, <1>3, <1>4

-----------------------------------------------------------------------------
(* The smaller of two numbers, and sequences joined: the sum of sequences. *)

LEMMA MinOfTwo == \A a, b \in Nat : /\ Min({a, b}) \in {a, b}
                                    /\ Min({a, b}) <= a /\ Min({a, b}) <= b
<1> SUFFICES ASSUME NEW a \in Nat, NEW b \in Nat
             PROVE  Min({a, b}) \in {a, b} /\ Min({a, b}) <= a /\ Min({a, b}) <= b
  OBVIOUS
<1>1. \E x \in {a, b} : \A y \in {a, b} : x <= y
  <2>1. CASE a <= b
    BY <2>1
  <2>2. CASE b <= a
    BY <2>2
  <2> QED BY <2>1, <2>2
<1> QED BY <1>1 DEF Min

IsJoin(f, ss, n) == f = [i \in 1 .. n |-> IF i = 1 THEN ss[i] ELSE f[i - 1] \o ss[i]]

LEMMA JoinExists ==
  ASSUME NEW ss, NEW n \in Nat
  PROVE  \E f : IsJoin(f, ss, n)
<1> DEFINE A == {k \in Nat : ~\E f : IsJoin(f, ss, k)}
<1>1. ASSUME NEW k \in A PROVE k # 0 /\ k - 1 \in A
  <2>1. k # 0
    <3> SUFFICES ASSUME k = 0 PROVE FALSE
      OBVIOUS
    <3> DEFINE f == [i \in 1 .. 0 |-> ss[i]]
    <3>1. IsJoin(f, ss, 0)
      BY DEF IsJoin
    <3> QED BY <3>1
  <2>2. ASSUME k - 1 \notin A PROVE FALSE
    <3>1. k - 1 \in Nat
      BY <2>1
    <3>2. PICK f : IsJoin(f, ss, k - 1)
      BY <2>2, <3>1
    <3> DEFINE g == [i \in 1 .. k |-> IF i = k THEN IF k = 1 THEN ss[k] ELSE f[k - 1] \o ss[k]
                                               ELSE f[i]]
    <3>3. \A i \in 1 .. k - 1 : f[i] = IF i = 1 THEN ss[i] ELSE f[i - 1] \o ss[i]
      BY <3>2 DEF IsJoin
    <3>4. \A i \in 1 .. k : g[i] = IF i = 1 THEN ss[i] ELSE g[i - 1] \o ss[i]
      BY <2>1, <3>3
    <3>5. IsJoin(g, ss, k)
      BY <3>4 DEF IsJoin
    <3> QED BY <3>5
  <2> QED BY <2>1, <2>2
<1> HIDE DEF A
<1>2. A \in SUBSET Nat
  BY DEF A
<1>3. A = {}
  BY <1>1, <1>2, Descent
<1> QED BY <1>3 DEF A

\* What FlattenSeq returns, as the last of the sequences that grow to it.
LEMMA FlattenIs ==
  ASSUME NEW S, NEW ss \in Seq(Seq(S))
  PROVE  \E f : /\ f[0] = <<>>
                /\ \A i \in 1 .. Len(ss) : f[i] = f[i - 1] \o ss[i]
                /\ \A i \in 0 .. Len(ss) : f[i] \in Seq(S)
                /\ FlattenSeq(ss) = f[Len(ss)]
<1> DEFINE n == Len(ss)
<1>1. n \in Nat /\ \A i \in 1 .. n : ss[i] \in Seq(S)
  OBVIOUS
<1>2. PICK g : IsJoin(g, ss, n)
  BY <1>1, JoinExists
<1>3. n # 0 => FlattenSeq(ss) = g[n]
  <2>1. IsJoin(CHOOSE f : IsJoin(f, ss, n), ss, n)
    BY <1>2
  <2> DEFINE h == CHOOSE f : f = [i \in 1 .. n |-> IF i = 1 THEN ss[i] ELSE f[i - 1] \o ss[i]]
  <2>2. IsJoin(h, ss, n)
    BY <1>2 DEF IsJoin
  <2>3. n # 0 => FlattenSeq(ss) = h[n]
    BY DEF FlattenSeq
  <2> HIDE DEF h
  <2> DEFINE B == {i \in 1 .. n : h[i] # g[i]}
  <2>4. /\ \A i \in 1 .. n : h[i] = IF i = 1 THEN ss[i] ELSE h[i - 1] \o ss[i]
        /\ \A i \in 1 .. n : g[i] = IF i = 1 THEN ss[i] ELSE g[i - 1] \o ss[i]
    BY <1>2, <2>2 DEF IsJoin
  <2>5. ASSUME NEW i \in B PROVE i # 0 /\ i - 1 \in B
    BY <2>4
  <2> HIDE DEF B
  <2>6. B \in SUBSET Nat
    BY DEF B
  <2>7. B = {}
    BY <2>5, <2>6, Descent
  <2>8. n # 0 => h[n] = g[n]
    BY <1>1, <2>7 DEF B
  <2> QED BY <2>3, <2>8
<1>4. \A i \in 1 .. n : g[i] = IF i = 1 THEN ss[i] ELSE g[i - 1] \o ss[i]
  BY <1>2 DEF IsJoin
<1> DEFINE f == [i \in 0 .. n |-> IF i = 0 THEN <<>> ELSE g[i]]
<1>5. f[0] = <<>> /\ \A i \in 1 .. n : f[i] = g[i]
  BY <1>1
<1>6. ASSUME NEW i \in 1 .. n PROVE f[i] = f[i - 1] \o ss[i]
  <2>1. ss[i] \in Seq(S) /\ <<>> \o ss[i] = ss[i]
    <3>1. ss[i] \in Seq(S)
      BY <1>1
    <3> QED BY <3>1, ConcatEmptySeq
  <2>2. CASE i = 1
    <3> HIDE DEF f
    <3>1. f[i] = ss[i] /\ i - 1 = 0
      BY <1>4, <1>5, <2>2
    <3>2. f[i - 1] = <<>>
      BY <1>5, <3>1
    <3> QED BY <2>1, <3>1, <3>2
  <2>3. CASE i # 1
    <3>1. i - 1 \in 1 .. n
      BY <1>1, <2>3
    <3>2. f[i] = g[i] /\ f[i - 1] = g[i - 1]
      BY <1>5, <3>1
    <3> QED BY <1>4, <2>3, <3>2
  <2> QED BY <2>2, <2>3
<1> HIDE DEF f
<1>7. \A i \in 0 .. n : f[i] \in Seq(S)
  <2> DEFINE A == {i \in 0 .. n : f[i] \notin Seq(S)}
  <2>1. ASSUME NEW i \in A PROVE i # 0 /\ i - 1 \in A
    <3>1. i # 0
      BY <1>5, EmptySeq
    <3>2. i \in 1 .. n /\ i - 1 \in 0 .. n
      BY <1>1, <3>1
    <3>3. f[i] = f[i - 1] \o ss[i] /\ ss[i] \in Seq(S)
      BY <1>1, <1>6, <3>2
    <3>4. f[i - 1] \in Seq(S) => f[i] \in Seq(S)
      BY <3>3
    <3> QED BY <3>1, <3>2, <3>4
  <2> HIDE DEF A
  <2>2. A \in SUBSET Nat
    BY DEF A
  <2>3. A = {}
    BY <2>1, <2>2, Descent
  <2> QED BY <2>3 DEF A
<1>8. FlattenSeq(ss) = f[n]
  <2>1. CASE n = 0
    <3>1. ss = <<>> /\ FlattenSeq(ss) = ss
      BY <2>1, EmptySeq DEF FlattenSeq
    <3> QED BY <1>5, <2>1, <3>1
  <2>2. CASE n # 0
    BY <1>1, <1>3, <1>5, <2>2
  <2> QED BY <2>1, <2>2
<1> QED BY <1>5, <1>6, <1>7, <1>8

LEMMA FlattenSeqType ==
  ASSUME NEW S, NEW ss \in Seq(Seq(S))
  PROVE  FlattenSeq(ss) \in Seq(S)
<1>1. PICK f : /\ \A i \in 0 .. Len(ss) : f[i] \in Seq(S)
               /\ FlattenSeq(ss) = f[Len(ss)]
  BY FlattenIs
<1>2. Len(ss) \in Nat
  OBVIOUS
<1> QED BY <1>1, <1>2

\* The first one can be joined last.
LEMMA FlattenFirst ==
  ASSUME NEW S, NEW ss \in Seq(Seq(S)), NEW rest \in Seq(Seq(S)),
         Len(ss) = Len(rest) + 1, \A i \in 1 .. Len(rest) : rest[i] = ss[i + 1]
  PROVE  FlattenSeq(ss) = ss[1] \o FlattenSeq(rest)
<1>1. PICK n \in Nat : n = Len(rest) /\ Len(ss) = n + 1
  OBVIOUS
<1>s. \A i \in 1 .. n + 1 : ss[i] \in Seq(S)
  BY <1>1
<1>2. PICK f : /\ f[0] = <<>>
               /\ \A i \in 1 .. n + 1 : f[i] = f[i - 1] \o ss[i]
               /\ \A i \in 0 .. n + 1 : f[i] \in Seq(S)
               /\ FlattenSeq(ss) = f[n + 1]
  <2>1. \E f : /\ f[0] = <<>>
               /\ \A i \in 1 .. Len(ss) : f[i] = f[i - 1] \o ss[i]
               /\ \A i \in 0 .. Len(ss) : f[i] \in Seq(S)
               /\ FlattenSeq(ss) = f[Len(ss)]
    BY FlattenIs
  <2> QED BY <1>1, <2>1
<1>3. PICK g : /\ g[0] = <<>>
               /\ \A i \in 1 .. n : g[i] = g[i - 1] \o rest[i]
               /\ \A i \in 0 .. n : g[i] \in Seq(S)
               /\ FlattenSeq(rest) = g[n]
  BY <1>1, FlattenIs
<1>4. \A i \in 1 .. n : rest[i] = ss[i + 1]
  BY <1>1
<1>c. PICK c : \A i \in 0 .. n : c[i] = ss[1] \o g[i]
  <2> DEFINE joined == [i \in 0 .. n |-> ss[1] \o g[i]]
  <2>1. \A i \in 0 .. n : joined[i] = ss[1] \o g[i]
    OBVIOUS
  <2> QED BY <2>1
<1> DEFINE A == {i \in 0 .. n : f[i + 1] # c[i]}
<1>5. f[1] = ss[1]
  <2>1. 1 \in 1 .. n + 1 /\ 1 - 1 = 0
    BY <1>1
  <2>2. f[1] = <<>> \o ss[1] /\ ss[1] \in Seq(S)
    BY <1>1, <1>s, <1>2, <2>1
  <2> QED BY <2>2, ConcatEmptySeq
<1>6. 0 \notin A
  <2>1. ss[1] \in Seq(S)
    BY <1>1, <1>s
  <2>2. ss[1] \o <<>> = ss[1]
    BY <2>1, ConcatEmptySeq
  <2>3. c[0] = ss[1] \o g[0]
    <3>1. 0 \in 0 .. n
      BY <1>1
    <3> QED BY <1>c, <3>1
  <2>4. f[0 + 1] = f[1]
    OBVIOUS
  <2> QED BY <1>3, <1>5, <2>2, <2>3, <2>4
<1>7. ASSUME NEW i \in A PROVE i # 0 /\ i - 1 \in A
  <2>1. i \in 1 .. n
    BY <1>1, <1>6
  <2>2. f[i + 1] = f[i] \o ss[i + 1] /\ g[i] = g[i - 1] \o ss[i + 1]
    <3>1. i + 1 \in 1 .. n + 1 /\ (i + 1) - 1 = i
      BY <1>1, <2>1
    <3>2. f[i + 1] = f[i] \o ss[i + 1]
      BY <1>2, <3>1
    <3> QED BY <1>3, <1>4, <2>1, <3>2
  <2>3. (ss[1] \o g[i - 1]) \o ss[i + 1] = ss[1] \o (g[i - 1] \o ss[i + 1])
    <3>1. /\ 1 \in 1 .. n + 1 /\ i + 1 \in 1 .. n + 1 /\ i - 1 \in 0 .. n
      BY <1>1, <2>1
    <3>2. ss[1] \in Seq(S) /\ g[i - 1] \in Seq(S) /\ ss[i + 1] \in Seq(S)
      BY <1>s, <1>3, <3>1
    <3>3. ASSUME NEW x \in Seq(S), NEW y \in Seq(S), NEW z \in Seq(S)
          PROVE  (x \o y) \o z = x \o (y \o z)
      BY SMTT(30)
    <3> QED BY <3>2, <3>3
  <2>4. f[i] # c[i - 1]
    <3>1. i \in 0 .. n /\ i - 1 \in 0 .. n
      BY <1>1, <2>1
    <3>2. c[i] = ss[1] \o g[i] /\ c[i - 1] = ss[1] \o g[i - 1]
      BY <1>c, <3>1
    <3>3. f[i + 1] # c[i]
      OBVIOUS
    <3> QED BY <2>2, <2>3, <3>2, <3>3
  <2>5. i - 1 \in 0 .. n /\ (i - 1) + 1 = i
    BY <1>1, <2>1
  <2> QED BY <2>1, <2>4, <2>5
<1> HIDE DEF A
<1>8. A = {}
  <2>1. A \in SUBSET Nat
    BY <1>1 DEF A
  <2> QED BY <1>7, <2>1, Descent
<1>9. f[n + 1] = ss[1] \o g[n]
  <2>1. n \in 0 .. n
    BY <1>1
  <2>2. f[n + 1] = c[n]
    BY <1>8, <2>1 DEF A
  <2> QED BY <1>c, <2>1, <2>2
<1> QED BY <1>2, <1>3, <1>9

-----------------------------------------------------------------------------
(***************************************************************************)
(* What it means to be the k-th of a set of numbers: that k of them are    *)
(* not newer.                                                              *)
(***************************************************************************)
NotNewer(S, t) == {u \in S : u <= t}

LEMMA NotNewerFinite ==
  ASSUME NEW m \in Nat, NEW S, \A u \in S : u \in 1 .. m
  PROVE  /\ IsFiniteSet(S) /\ Cardinality(S) \in Nat
         /\ \A t : IsFiniteSet(NotNewer(S, t)) /\ Cardinality(NotNewer(S, t)) \in 0 .. Cardinality(S)
<1>1. IsFiniteSet(1 .. m)
  BY FS_Interval
<1>2. IsFiniteSet(S)
  BY <1>1, FS_Subset
<1>3. ASSUME NEW t
      PROVE  /\ IsFiniteSet(NotNewer(S, t)) /\ Cardinality(NotNewer(S, t)) \in Nat
             /\ Cardinality(NotNewer(S, t)) <= Cardinality(S)
  <2>1. NotNewer(S, t) \subseteq S
    BY DEF NotNewer
  <2> QED BY <1>2, <2>1, FS_Subset, FS_CardinalityType
<1> QED BY <1>2, <1>3, FS_CardinalityType

LEMMA NewerHasMore ==
  ASSUME NEW m \in Nat, NEW S, \A u \in S : u \in 1 .. m, NEW t \in S, NEW v \in S, t < v
  PROVE  Cardinality(NotNewer(S, t)) < Cardinality(NotNewer(S, v))
<1>1. PICK B, C : B = NotNewer(S, t) /\ C = NotNewer(S, v)
  OBVIOUS
<1>2. /\ IsFiniteSet(B) /\ IsFiniteSet(C)
      /\ Cardinality(B) \in Nat /\ Cardinality(C) \in Nat
  BY <1>1, NotNewerFinite
<1>3. v \notin B /\ B \cup {v} \subseteq C
  BY <1>1 DEF NotNewer
<1>4. Cardinality(B \cup {v}) = Cardinality(B) + 1
  BY <1>2, <1>3, FS_AddElement
<1>5. Cardinality(B \cup {v}) <= Cardinality(C)
  BY <1>2, <1>3, FS_Subset
<1> QED BY <1>1, <1>2, <1>4, <1>5

LEMMA KthOldest ==
  ASSUME NEW m \in Nat, NEW S, \A u \in S : u \in 1 .. m, NEW k \in 1 .. Cardinality(S)
  PROVE  \E t \in S : Cardinality(NotNewer(S, t)) = k
<1> DEFINE A == {x \in 0 .. m : k <= Cardinality(NotNewer(S, x))}
<1>1. Cardinality(S) \in Nat /\ \A t : Cardinality(NotNewer(S, t)) \in Nat
  BY NotNewerFinite
<1>2. m \in A
  <2>1. NotNewer(S, m) = S
    BY DEF NotNewer
  <2> QED BY <1>1, <2>1
<1>3. 0 \notin A
  <2>1. NotNewer(S, 0) = {}
    BY DEF NotNewer
  <2> QED BY <1>1, <2>1, FS_EmptySet
<1>4. \E x \in A : x - 1 \notin A
  <2> SUFFICES ASSUME \A x \in A : x - 1 \in A PROVE FALSE
    OBVIOUS
  <2>1. \A x \in A : x # 0 /\ x - 1 \in A
    BY <1>3
  <2>2. A \in SUBSET Nat
    OBVIOUS
  <2> HIDE DEF A
  <2>3. A = {}
    BY <2>1, <2>2, Descent
  <2> QED BY <1>2, <2>3
<1>5. PICK x \in A : x - 1 \notin A
  BY <1>4
<1>6. x \in 1 .. m /\ x - 1 \in 0 .. m
  BY <1>3, <1>5
<1>7. /\ Cardinality(NotNewer(S, x - 1)) < k /\ k <= Cardinality(NotNewer(S, x))
  BY <1>1, <1>5, <1>6
<1>8. NotNewer(S, x) \subseteq NotNewer(S, x - 1) \cup {x}
  BY <1>6 DEF NotNewer
<1>9. x \in S
  <2> SUFFICES ASSUME x \notin S PROVE FALSE
    OBVIOUS
  <2>1. NotNewer(S, x) = NotNewer(S, x - 1)
    BY <1>6 DEF NotNewer
  <2> QED BY <1>1, <1>7, <2>1
<1>10. Cardinality(NotNewer(S, x)) <= Cardinality(NotNewer(S, x - 1)) + 1
  <2>1. IsFiniteSet(NotNewer(S, x - 1)) /\ x \notin NotNewer(S, x - 1)
    BY <1>6, NotNewerFinite DEF NotNewer
  <2>2. /\ IsFiniteSet(NotNewer(S, x - 1) \cup {x})
        /\ Cardinality(NotNewer(S, x - 1) \cup {x}) = Cardinality(NotNewer(S, x - 1)) + 1
    BY <2>1, FS_AddElement
  <2> QED BY <1>8, <2>2, FS_Subset
<1> QED BY <1>1, <1>7, <1>9, <1>10

\* Of some numbers one is the greatest.
LEMMA NewestThere ==
  ASSUME NEW n \in Nat, NEW S, \A k \in S : k \in 0 .. n, S # {}
  PROVE  \E x \in S : \A y \in S : y <= x
<1> SUFFICES ASSUME \A x \in S : \E y \in S : x < y PROVE FALSE
  OBVIOUS
<1> DEFINE B == {k \in 0 .. n : \E x \in S : n - x <= k}
<1>1. ASSUME NEW k \in B PROVE k # 0 /\ k - 1 \in B
  <2>1. PICK x \in S : n - x <= k
    OBVIOUS
  <2>2. PICK y \in S : x < y
    OBVIOUS
  <2>3. x \in 0 .. n /\ y \in 0 .. n
    OBVIOUS
  <2> QED BY <2>1, <2>2, <2>3
<1>2. n \in B
  OBVIOUS
<1>3. B \in SUBSET Nat
  OBVIOUS
<1> HIDE DEF B
<1> QED BY <1>1, <1>2, <1>3, Descent
=============================================================================
