---------------------------- MODULE ResyncProofs ----------------------------
(***************************************************************************)
(* Theorems about Resync, for any symbols and quantities, any fills, any   *)
(* number of failures and restarts, and every choice that a query without  *)
(* an order leaves open.  The lemmas go from operators on sequences and    *)
(* trades (what At, ReverseTo, Added and AddAll return) over books to the  *)
(* actions; four invariants follow: Inv and ToldInv, of every state, and   *)
(* QuietInv and CatchInv, of synchronizations during which the account     *)
(* does not trade.                                                         *)
(***************************************************************************)
EXTENDS Resync, SummationProofs, SequenceTheorems, FiniteSetTheorems, TLAPS

-----------------------------------------------------------------------------
(***************************************************************************)
(* Sequences chosen from.                                                  *)
(***************************************************************************)

\* What Chosen returns, place by place.
LEMMA ChosenIs ==
  ASSUME NEW S, NEW s \in Seq(S), NEW K
  PROVE  /\ Chosen(s, K) \in Seq(S)
         /\ \E p : \A j \in DOMAIN Chosen(s, K) :
               /\ p[j] \in DOMAIN s /\ p[j] \in K
               /\ Chosen(s, K)[j] = s[p[j]]
               /\ \A i \in 1 .. j - 1 : p[i] < p[j]
<1> DEFINE ss == [k \in DOMAIN s |-> IF k \in K THEN <<s[k]>> ELSE <<>>]
           n == Len(s)
<1>1. n \in Nat /\ DOMAIN s = 1 .. n /\ \A k \in 1 .. n : s[k] \in S
  OBVIOUS
<1>2. ss \in Seq(Seq(S)) /\ Len(ss) = n
  <2>1. \A k \in 1 .. n : ss[k] \in Seq(S)
    BY <1>1
  <2> QED BY <1>1, <2>1
<1>3. PICK f : /\ f[0] = <<>>
               /\ \A i \in 1 .. n : f[i] = f[i - 1] \o ss[i]
               /\ \A i \in 0 .. n : f[i] \in Seq(S)
               /\ FlattenSeq(ss) = f[n]
  <2> HIDE DEF ss, n
  <2>1. \E f : /\ f[0] = <<>>
               /\ \A i \in 1 .. Len(ss) : f[i] = f[i - 1] \o ss[i]
               /\ \A i \in 0 .. Len(ss) : f[i] \in Seq(S)
               /\ FlattenSeq(ss) = f[Len(ss)]
    BY <1>2, FlattenIs
  <2> QED BY <1>2, <2>1
<1>4. Chosen(s, K) = f[n]
  BY <1>3 DEF Chosen
<1> DEFINE Good(r, i) ==
      \E p : \A j \in 1 .. Len(r) :
               /\ p[j] \in 1 .. i /\ p[j] \in K
               /\ r[j] = s[p[j]]
               /\ \A l \in 1 .. j - 1 : p[l] < p[j]
           A == {i \in 0 .. n : ~Good(f[i], i)}
<1>5. ASSUME NEW i \in A PROVE i # 0 /\ i - 1 \in A
  <2>1. i # 0
    <3>1. Len(f[0]) = 0
      BY <1>3
    <3> QED BY <3>1
  <2>2. i \in 1 .. n /\ i - 1 \in 0 .. n
    BY <1>1, <2>1
  <2>3. ASSUME Good(f[i - 1], i - 1) PROVE Good(f[i], i)
    <3>1. PICK p : \A j \in 1 .. Len(f[i - 1]) :
               /\ p[j] \in 1 .. i - 1 /\ p[j] \in K
               /\ f[i - 1][j] = s[p[j]]
               /\ \A l \in 1 .. j - 1 : p[l] < p[j]
      BY <2>3
    <3>2. PICK r \in Seq(S) : r = f[i - 1]
      BY <1>3, <2>2
    <3>3. CASE i \notin K
      <4>1. ss[i] = <<>>
        BY <1>1, <2>2, <3>3
      <4>2. f[i] = r
        <5>1. f[i] = r \o <<>>
          BY <1>3, <2>2, <3>2, <4>1
        <5> QED BY <5>1, ConcatEmptySeq
      <4>3. \A j \in 1 .. Len(r) : p[j] \in 1 .. i
        BY <2>2, <3>1, <3>2
      <4> QED BY <3>1, <3>2, <4>2, <4>3
    <3>4. CASE i \in K
      <4>1. ss[i] = <<s[i]>> /\ s[i] \in S
        BY <1>1, <2>2, <3>4
      <4>2. f[i] = Append(r, s[i])
        <5>1. f[i] = r \o <<s[i]>>
          BY <1>3, <2>2, <3>2, <4>1
        <5> QED BY <4>1, <5>1
      <4> DEFINE q == [j \in 1 .. Len(r) + 1 |-> IF j = Len(r) + 1 THEN i ELSE p[j]]
      <4>3. /\ Len(f[i]) = Len(r) + 1 /\ Len(r) \in Nat
            /\ \A j \in 1 .. Len(r) : f[i][j] = r[j]
            /\ f[i][Len(r) + 1] = s[i]
        BY <4>1, <4>2
      <4>4. ASSUME NEW j \in 1 .. Len(r) + 1
            PROVE  /\ q[j] \in 1 .. i /\ q[j] \in K
                   /\ f[i][j] = s[q[j]]
                   /\ \A l \in 1 .. j - 1 : q[l] < q[j]
        <5>1. CASE j = Len(r) + 1
          <6>1. q[j] = i /\ i \in Nat
            BY <2>2, <4>3, <5>1
          <6>2. \A l \in 1 .. j - 1 : q[l] = p[l] /\ p[l] \in 1 .. i - 1
            BY <3>1, <3>2, <4>3, <5>1
          <6>3. \A l \in 1 .. j - 1 : q[l] < q[j]
            <7> SUFFICES ASSUME NEW l \in 1 .. j - 1 PROVE q[l] < q[j]
              OBVIOUS
            <7>1. q[l] \in 1 .. i - 1
              BY <6>2
            <7> HIDE DEF q
            <7> QED BY <6>1, <7>1
          <6>4. f[i][j] = s[q[j]] /\ q[j] \in 1 .. i /\ q[j] \in K
            <7> HIDE DEF q
            <7> QED BY <2>2, <3>4, <4>3, <5>1, <6>1
          <6> QED BY <6>3, <6>4
        <5>2. CASE j # Len(r) + 1
          <6>1. j \in 1 .. Len(r) /\ q[j] = p[j] /\ \A l \in 1 .. j - 1 : q[l] = p[l]
            BY <4>3, <5>2
          <6>2. p[j] \in 1 .. i - 1 => p[j] \in 1 .. i
            BY <2>2
          <6> QED BY <3>1, <3>2, <4>3, <6>1, <6>2
        <5> QED BY <5>1, <5>2
      <4> QED BY <4>3, <4>4
    <3> QED BY <3>3, <3>4
  <2> QED BY <2>1, <2>2, <2>3
<1> HIDE DEF A
<1>6. A \in SUBSET Nat
  BY DEF A
<1>7. A = {}
  BY <1>5, <1>6, Descent
<1>8. Good(f[n], n) /\ f[n] \in Seq(S)
  <2>1. n \in 0 .. n
    BY <1>1
  <2>2. Good(f[n], n)
    <3> HIDE DEF Good
    <3> QED BY <1>7, <2>1 DEF A
  <2> QED BY <1>3, <2>1, <2>2
<1> QED BY <1>1, <1>4, <1>8

LEMMA ChosenNone ==
  ASSUME NEW S, NEW s \in Seq(S), NEW K, DOMAIN s \cap K = {}
  PROVE  Chosen(s, K) = <<>>
<1>1. PICK r \in Seq(S) : r = Chosen(s, K)
  BY ChosenIs
<1>2. DOMAIN r = {}
  BY <1>1, ChosenIs
<1> QED BY <1>1, <1>2

LEMMA ChosenAll ==
  ASSUME NEW S, NEW s \in Seq(S), NEW K, DOMAIN s \subseteq K
  PROVE  Chosen(s, K) = s
<1> DEFINE ss == [k \in DOMAIN s |-> IF k \in K THEN <<s[k]>> ELSE <<>>]
           n == Len(s)
<1>1. n \in Nat /\ DOMAIN s = 1 .. n /\ \A k \in 1 .. n : s[k] \in S
  OBVIOUS
<1>2. ss \in Seq(Seq(S)) /\ Len(ss) = n /\ \A k \in 1 .. n : ss[k] = <<s[k]>>
  BY <1>1
<1>3. PICK f : /\ f[0] = <<>>
               /\ \A i \in 1 .. n : f[i] = f[i - 1] \o ss[i]
               /\ \A i \in 0 .. n : f[i] \in Seq(S)
               /\ FlattenSeq(ss) = f[n]
  <2> HIDE DEF ss, n
  <2>1. \E f : /\ f[0] = <<>>
               /\ \A i \in 1 .. Len(ss) : f[i] = f[i - 1] \o ss[i]
               /\ \A i \in 0 .. Len(ss) : f[i] \in Seq(S)
               /\ FlattenSeq(ss) = f[Len(ss)]
    BY <1>2, FlattenIs
  <2> QED BY <1>2, <2>1
<1>4. Chosen(s, K) = f[n]
  BY <1>3 DEF Chosen
<1> DEFINE Good(i) == Len(f[i]) = i /\ \A j \in 1 .. i : f[i][j] = s[j]
           A == {i \in 0 .. n : ~Good(i)}
<1> HIDE DEF ss
<1>5. ASSUME NEW i \in A PROVE i # 0 /\ i - 1 \in A
  <2>1. i # 0
    BY <1>3
  <2>2. i \in 1 .. n /\ i - 1 \in 0 .. n
    BY <1>1, <2>1
  <2>3. ASSUME Good(i - 1) PROVE Good(i)
    <3>1. PICK r \in Seq(S) : r = f[i - 1]
      BY <1>3, <2>2
    <3>2. f[i] = r \o <<s[i]>> /\ s[i] \in S
      BY <1>1, <1>2, <1>3, <2>2, <3>1
    <3>3. f[i] = Append(r, s[i])
      BY <3>2
    <3>4. Len(r) = i - 1 /\ \A j \in 1 .. i - 1 : r[j] = s[j]
      BY <2>3, <3>1
    <3> QED BY <2>2, <3>2, <3>3, <3>4, AppendProperties
  <2> QED BY <2>1, <2>2, <2>3
<1> HIDE DEF A
<1>6. A \in SUBSET Nat
  BY DEF A
<1>7. A = {}
  BY <1>5, <1>6, Descent
<1>8. Good(n) /\ f[n] \in Seq(S)
  BY <1>1, <1>3, <1>7 DEF A
<1> QED BY <1>1, <1>4, <1>8

-----------------------------------------------------------------------------
\* The sum of what w says of the members of a sequence.
Total(w, s) == SumOf([k \in DOMAIN s |-> w[s[k]]], Len(s))

LEMMA TotalInt ==
  ASSUME NEW S, NEW w \in [S -> Int], NEW s \in Seq(S)
  PROVE  Total(w, s) \in Int
<1>1. Len(s) \in Nat /\ DOMAIN s = 1 .. Len(s) /\ \A k \in DOMAIN s : s[k] \in S
  OBVIOUS
<1>2. \A k \in 1 .. Len(s) : [j \in DOMAIN s |-> w[s[j]]][k] \in Int
  BY <1>1
<1> QED BY <1>1, <1>2, SumOfInt DEF Total

LEMMA TotalConcat ==
  ASSUME NEW S, NEW w \in [S -> Int], NEW a \in Seq(S), NEW b \in Seq(S)
  PROVE  Total(w, a \o b) = Total(w, a) + Total(w, b)
<1> DEFINE c == a \o b
           m == Len(a)
           n == Len(b)
           f == [k \in DOMAIN a |-> w[a[k]]]
           g == [k \in DOMAIN b |-> w[b[k]]]
           h == [k \in DOMAIN c |-> w[c[k]]]
<1>1. /\ m \in Nat /\ n \in Nat /\ DOMAIN a = 1 .. m /\ DOMAIN b = 1 .. n
      /\ c \in Seq(S) /\ Len(c) = m + n /\ DOMAIN c = 1 .. m + n
      /\ \A k \in 1 .. m : c[k] = a[k] /\ a[k] \in S
      /\ \A k \in 1 .. n : c[m + k] = b[k] /\ b[k] \in S
  <2>1. c \in Seq(S) /\ Len(c) = m + n
    BY ConcatProperties
  <2>2. m \in Nat /\ n \in Nat /\ DOMAIN a = 1 .. m /\ DOMAIN b = 1 .. n /\ DOMAIN c = 1 .. m + n
    BY <2>1
  <2>3. \A k \in 1 .. m : k \in 1 .. m + n /\ c[k] = a[k] /\ a[k] \in S
    BY <2>2, ConcatProperties
  <2>4. \A k \in 1 .. n : m + k \in 1 .. m + n /\ c[m + k] = b[k] /\ b[k] \in S
    BY <2>2, ConcatProperties
  <2> QED BY <2>1, <2>2, <2>3, <2>4
<1>2. /\ \A k \in 1 .. m : f[k] \in Int /\ h[k] = f[k]
      /\ \A k \in 1 .. n : g[k] \in Int /\ h[m + k] = g[k]
  <2>1. ASSUME NEW k \in 1 .. m PROVE f[k] \in Int /\ h[k] = f[k]
    <3>1. k \in 1 .. m + n
      BY <1>1
    <3> HIDE DEF c
    <3> QED BY <1>1, <3>1
  <2>2. ASSUME NEW k \in 1 .. n PROVE g[k] \in Int /\ h[m + k] = g[k]
    <3>1. m + k \in 1 .. m + n
      BY <1>1
    <3> HIDE DEF c
    <3> QED BY <1>1, <3>1
  <2> QED BY <2>1, <2>2
<1>3. SumOf(h, m + n) = SumOf(f, m) + SumOf(g, n)
  <2>1. m \in Nat /\ n \in Nat
    BY <1>1
  <2>2. /\ \A k \in 1 .. m : f[k] \in Int /\ h[k] = f[k]
        /\ \A k \in 1 .. n : g[k] \in Int /\ h[m + k] = g[k]
    BY <1>2
  <2> HIDE DEF c, f, g, h, m, n
  <2>3. Joins(h, f, m, g, n)
    BY <2>2 DEF Joins
  <2> QED BY <2>1, <2>3, SumOfJoined
<1> QED BY <1>1, <1>3 DEF Total

LEMMA TotalOfOne ==
  ASSUME NEW S, NEW w \in [S -> Int], NEW e \in S
  PROVE  Total(w, <<e>>) = w[e] /\ Total(w, <<>>) = 0
<1>1. /\ Total(w, <<e>>) = SumOf([k \in DOMAIN <<e>> |-> w[<<e>>[k]]], 1)
      /\ Total(w, <<>>) = SumOf([k \in {} |-> w[<<>>[k]]], 0)
  BY DEF Total
<1> DEFINE f == [k \in DOMAIN <<e>> |-> w[<<e>>[k]]]
           g == [k \in {} |-> w[<<>>[k]]]
<1>2. f[1] = w[e] /\ w[e] \in Int
  OBVIOUS
<1> HIDE DEF f, g
<1>3. SumOf(f, 0 + 1) = SumOf(g, 0) + f[0 + 1]
  BY SumOfLonger
<1>4. SumOf(g, 0) = 0
  BY SumOfNothing
<1> QED BY <1>1, <1>2, <1>3, <1>4 DEF f, g

LEMMA TotalFlatten ==
  ASSUME NEW S, NEW w \in [S -> Int], NEW ss \in Seq(Seq(S)), NEW g,
         \A i \in 1 .. Len(ss) : g[i] = Total(w, ss[i])
  PROVE  Total(w, FlattenSeq(ss)) = SumOf(g, Len(ss))
<1> DEFINE n == Len(ss)
<1>1. n \in Nat /\ \A i \in 1 .. n : ss[i] \in Seq(S) /\ g[i] \in Int
  <2>1. n \in Nat /\ \A i \in 1 .. n : ss[i] \in Seq(S)
    OBVIOUS
  <2> QED BY <2>1, TotalInt
<1>2. PICK f : /\ f[0] = <<>>
               /\ \A i \in 1 .. n : f[i] = f[i - 1] \o ss[i]
               /\ \A i \in 0 .. n : f[i] \in Seq(S)
               /\ FlattenSeq(ss) = f[n]
  BY FlattenIs
<1> DEFINE A == {i \in 0 .. n : Total(w, f[i]) # Sums(g, n)[i]}
<1>3. ASSUME NEW i \in A PROVE i # 0 /\ i - 1 \in A
  <2>1. Sums(g, n)[i] = IF i = 0 THEN 0 ELSE Sums(g, n)[i - 1] + g[i]
    BY <1>1, SumsAre
  <2>2. i # 0
    <3>1. Total(w, <<>>) = 0
      BY SumOfNothing DEF Total
    <3> QED BY <1>2, <2>1, <3>1
  <2>3. i \in 1 .. n /\ i - 1 \in 0 .. n
    BY <1>1, <2>2
  <2>4. Total(w, f[i]) = Total(w, f[i - 1]) + Total(w, ss[i])
    <3>1. PICK a \in Seq(S), b \in Seq(S) : a = f[i - 1] /\ b = ss[i]
      BY <1>1, <1>2, <2>3
    <3>2. f[i] = a \o b
      BY <1>2, <2>3, <3>1
    <3>3. Total(w, a \o b) = Total(w, a) + Total(w, b)
      BY TotalConcat
    <3> QED BY <3>1, <3>2, <3>3
  <2> QED BY <1>1, <2>1, <2>2, <2>3, <2>4
<1> HIDE DEF A
<1>4. A \in SUBSET Nat
  BY DEF A
<1>5. A = {}
  BY <1>3, <1>4, Descent
<1> QED BY <1>1, <1>2, <1>5 DEF A, SumOf

LEMMA TotalChosen ==
  ASSUME NEW S, NEW w \in [S -> Int], NEW s \in Seq(S), NEW K
  PROVE  Total(w, Chosen(s, K)) =
             SumOf([k \in DOMAIN s |-> IF k \in K THEN w[s[k]] ELSE 0], Len(s))
<1> DEFINE ss == [k \in DOMAIN s |-> IF k \in K THEN <<s[k]>> ELSE <<>>]
           g == [k \in DOMAIN s |-> IF k \in K THEN w[s[k]] ELSE 0]
           n == Len(s)
<1>1. n \in Nat /\ DOMAIN s = 1 .. n /\ \A k \in 1 .. n : s[k] \in S
  OBVIOUS
<1>2. ss \in Seq(Seq(S)) /\ Len(ss) = n
  BY <1>1
<1>3. ASSUME NEW k \in 1 .. n PROVE g[k] = Total(w, ss[k])
  <2>1. Total(w, <<s[k]>>) = w[s[k]] /\ Total(w, <<>>) = 0
    BY <1>1, TotalOfOne
  <2> QED BY <1>1, <2>1
<1> HIDE DEF ss, g
<1>4. Total(w, FlattenSeq(ss)) = SumOf(g, n)
  BY <1>2, <1>3, TotalFlatten
<1> QED BY <1>4 DEF Chosen, ss, g

-----------------------------------------------------------------------------
(***************************************************************************)
(* What is stored: executions with their times, and trades made of them.   *)
(***************************************************************************)
Stamped ==
    [symbol : Symbols, side : Sides, type : {"trade"}, qty : Pos, price : Int,
     commission : Int, realized : Int \cup {Unset}, reduce : {TRUE}, tagged : {TRUE},
     time : Int]

Filed ==
    [symbol : Symbols, side : Sides, qty : Pos, open_qty : Nat, entry : Int,
     exit : Int, realized_pnl : Int, total_commissions : Int,
     executions : Seq(Stamped)]

\* o tells what was open of a trade after each of its executions.  All but the
\* first found the trade open, and those of the other side fit and are valued.
OpenRun(t, o) ==
    /\ o[1] = t.executions[1].qty
    /\ o[Len(t.executions)] = t.open_qty
    /\ \A k \in DOMAIN t.executions :
          /\ o[k] \in Nat
          /\ k # 1 => /\ o[k - 1] # 0
                     /\ o[k] = IF t.executions[k].side = t.side
                               THEN o[k - 1] + t.executions[k].qty
                               ELSE o[k - 1] - t.executions[k].qty
          /\ k # 1 /\ t.executions[k].side # t.side => t.executions[k].realized # Unset

\* A trade whose executions happened one after the other, until n at the latest.
TradeOk(t, n) ==
    /\ t \in Filed
    /\ t.open_qty <= t.qty
    /\ t.executions # <<>>
    /\ t.executions[1].symbol = t.symbol /\ t.executions[1].side = t.side
    /\ \E o : OpenRun(t, o)
    /\ \A j \in DOMAIN t.executions :
          /\ t.executions[j].time <= n
          /\ \A i \in 1 .. j - 1 : t.executions[i].time < t.executions[j].time

LEMMA DivInt == \A a \in Int, b \in Pos : a \div b \in Int
  BY DEF Pos

LEMMA ProductInt == \A a, b \in Int : a * b \in Int
  OBVIOUS

LEMMA ScalePos == Scale \in Int /\ Scale > 0
  BY ScaleAssumption

LEMMA AverageInt ==
  ASSUME NEW v \in Int, NEW m \in Nat, NEW w \in Int, NEW n \in Nat, m + n > 0
  PROVE  WeightedAvg(v, m, w, n) \in Int
  <1>1. v * m \in Int /\ w * n \in Int
    BY ProductInt
  <1>2. v * m + w * n \in Int /\ m + n \in Pos
    BY <1>1 DEF Pos
  <1>3. QED
    BY <1>2, DivInt DEF WeightedAvg

LEMMA FromExecutionOk ==
  ASSUME NEW e \in Stamped, NEW n \in Int, e.time <= n
  PROVE  /\ TradeOk(FromExecution(e), n)
         /\ FromExecution(e).symbol = e.symbol
         /\ FromExecution(e).side = e.side
         /\ FromExecution(e).open_qty = e.qty
         /\ FromExecution(e).executions = <<e>>
  <1>1. Scale * e.price \in Int
    BY ScalePos, ProductInt DEF Stamped
  <1>2. <<e>> \in Seq(Stamped) /\ Len(<<e>>) = 1 /\ <<e>>[1] = e /\ <<e>> # <<>>
        /\ DOMAIN <<e>> = {1}
    OBVIOUS
  <1>3. FromExecution(e) \in Filed
    <2>1. /\ e.symbol \in Symbols /\ e.side \in Sides /\ e.qty \in Pos /\ e.qty \in Nat
          /\ e.commission \in Int
      BY DEF Stamped, Pos
    <2> QED BY <1>1, <1>2, <2>1 DEF FromExecution, Filed, NoExit
  <1>4. PICK x : x = <<e>>
    OBVIOUS
  <1>5. FromExecution(e).executions = x /\ FromExecution(e).qty = e.qty
        /\ FromExecution(e).open_qty = e.qty
    BY <1>4 DEF FromExecution
  <1>6. \A j \in DOMAIN x : x[j].time <= n /\ \A i \in 1 .. j - 1 : x[i].time < x[j].time
    BY <1>2, <1>4
  <1>7. TradeOk(FromExecution(e), n)
    <2>1. e.qty \in Nat /\ e.qty = x[1].qty
      BY <1>4 DEF Stamped, Pos
    <2>2. PICK o : o = [k \in 1 .. 1 |-> e.qty]
      OBVIOUS
    <2>3. Len(x) = 1 /\ DOMAIN x = {1} /\ o[1] = e.qty
      BY <1>2, <1>4, <2>2
    <2>4. OpenRun(FromExecution(e), o)
      BY <1>5, <2>1, <2>3 DEF OpenRun
    <2>5. x[1].symbol = FromExecution(e).symbol /\ x[1].side = FromExecution(e).side
      BY <1>2, <1>4 DEF FromExecution
    <2> QED BY <1>2, <1>3, <1>4, <1>5, <1>6, <2>1, <2>4, <2>5 DEF TradeOk
  <1> QED BY <1>4, <1>5, <1>7 DEF FromExecution

LEMMA ClosingIs ==
  ASSUME NEW t \in Filed, t.open_qty # 0, NEW e \in Stamped
  PROVE  /\ Closing(t, e) \in Stamped
         /\ Closing(t, e).time = e.time
         /\ Closing(t, e).side = e.side
         /\ Closing(t, e).symbol = e.symbol
         /\ Closing(t, e).qty = IF e.qty > t.open_qty THEN t.open_qty ELSE e.qty
         /\ e.qty <= t.open_qty => Closing(t, e) = e
  <1>1. t.open_qty \in Pos /\ e.qty \in Nat /\ e.commission \in Int
    BY DEF Filed, Stamped, Pos
  <1>2. CASE e.qty > t.open_qty
    <2> DEFINE c == e.commission - (e.commission * (e.qty - t.open_qty)) \div e.qty
    <2>1. e.qty - t.open_qty \in Int /\ e.qty \in Pos
      BY <1>1, <1>2 DEF Pos
    <2>2. e.commission * (e.qty - t.open_qty) \in Int
      BY <1>1, <2>1, ProductInt
    <2>3. (e.commission * (e.qty - t.open_qty)) \div e.qty \in Int
      BY <2>1, <2>2, DivInt
    <2>4. c \in Int
      BY <1>1, <2>3
    <2>5. Closing(t, e) = [e EXCEPT !.qty = t.open_qty, !.commission = c]
      BY <1>2 DEF Closing
    <2> HIDE DEF c
    <2>6. PICK new : new = [e EXCEPT !.qty = t.open_qty, !.commission = c]
      OBVIOUS
    <2>7. /\ new \in Stamped /\ new.time = e.time /\ new.side = e.side
          /\ new.symbol = e.symbol /\ new.qty = t.open_qty
      BY <1>1, <2>4, <2>6 DEF Stamped
    <2>8. ~(e.qty <= t.open_qty)
      BY <1>1, <1>2 DEF Pos
    <2> QED BY <1>2, <2>5, <2>6, <2>7, <2>8
  <1>3. CASE ~(e.qty > t.open_qty)
    BY <1>1, <1>3 DEF Closing
  <1> QED BY <1>2, <1>3

LEMMA RestIs ==
  ASSUME NEW t \in Filed, NEW e \in Stamped, e.qty > t.open_qty
  PROVE  /\ Rest(t, e) \in Stamped
         /\ Rest(t, e).time = e.time
         /\ Rest(t, e).side = e.side
         /\ Rest(t, e).symbol = e.symbol
         /\ Rest(t, e).qty = e.qty - t.open_qty
         /\ Rest(t, e).qty \in Pos
  <1>1. t.open_qty \in Nat /\ e.qty \in Nat /\ e.commission \in Int
    BY DEF Filed, Stamped, Pos
  <1> DEFINE c == (e.commission * (e.qty - t.open_qty)) \div e.qty
             q == e.qty - t.open_qty
  <1>2. q \in Pos /\ e.qty \in Pos
    BY <1>1 DEF Pos
  <1>3. e.commission * q \in Int
    BY <1>1, <1>2, ProductInt DEF Pos
  <1>4. c \in Int
    BY <1>2, <1>3, DivInt
  <1>5. Rest(t, e) = [e EXCEPT !.qty = q, !.commission = c, !.realized = Unset,
                               !.reduce = TRUE, !.tagged = TRUE]
    BY DEF Rest
  <1> HIDE DEF c, q
  <1>6. PICK new : new = [e EXCEPT !.qty = q, !.commission = c, !.realized = Unset,
                                   !.reduce = TRUE, !.tagged = TRUE]
    OBVIOUS
  <1>7. /\ new \in Stamped /\ new.time = e.time /\ new.side = e.side
        /\ new.symbol = e.symbol /\ new.qty = q
    BY <1>2, <1>4, <1>6 DEF Stamped, Pos
  <1> QED BY <1>2, <1>5, <1>6, <1>7 DEF q

\* A valued execution is the execution, with a profit in any case.
LEMMA ValuedIs ==
  ASSUME NEW t \in Filed, NEW e \in Stamped
  PROVE  /\ Valued(t, e) \in Stamped /\ Valued(t, e).realized \in Int
         /\ Valued(t, e).realized # Unset
         /\ e.realized # Unset => Valued(t, e) = e
         /\ Valued(t, e).time = e.time /\ Valued(t, e).side = e.side
         /\ Valued(t, e).symbol = e.symbol /\ Valued(t, e).qty = e.qty
  <1>0. /\ t.entry \in Int /\ e.price \in Int /\ e.qty \in Int /\ Sign(t.side) \in Int
        /\ e.realized \in Int \cup {Unset}
    BY DEF Filed, Stamped, Pos, Sign
  <1> DEFINE v == IF e.realized = Unset THEN CalcPnl(t, e.qty, e.price) ELSE e.realized
  <1>1. v \in Int
    <2>1. Scale * e.price - t.entry \in Int
      BY <1>0, ScalePos, ProductInt
    <2>2. Sign(t.side) * (Scale * e.price - t.entry) \in Int
      BY <1>0, <2>1, ProductInt
    <2>3. CalcPnl(t, e.qty, e.price) \in Int
      BY <1>0, <2>2, ProductInt DEF CalcPnl
    <2> QED BY <1>0, <2>3
  <1>2. PICK new : new = [e EXCEPT !.realized = v]
    OBVIOUS
  <1>3. Valued(t, e) = new
    BY <1>2 DEF Valued, Stamped
  <1>3a. e.realized # Unset => Valued(t, e) = e
    BY <1>2, <1>3 DEF Stamped
  <1>3b. v # Unset
    BY <1>1, ScaleAssumption
  <1> HIDE DEF v
  <1>4. /\ new \in Stamped /\ new.realized = v /\ new.time = e.time /\ new.side = e.side
        /\ new.symbol = e.symbol /\ new.qty = e.qty
    BY <1>1, <1>2 DEF Stamped
  <1> QED BY <1>1, <1>3, <1>3a, <1>3b, <1>4

\* What is stored matches the open trades of its symbol, and starts one if there is none.
LEMMA MatchingOpen ==
  ASSUME NEW b, NEW e \in Stamped
  PROVE  /\ Matching(b, e) = {i \in DOMAIN b : b[i].symbol = e.symbol /\ IsOpen(b[i])}
         /\ TradeFor(b, e) \subseteq Matching(b, e)
         /\ Matching(b, e) = {} => BooksAfter(b, e) = {Append(b, FromExecution(e))}
         /\ Matching(b, e) # {} => BooksAfter(b, e) = {AddTo(b, i, e) : i \in TradeFor(b, e)}
  <1>1. e.type = "trade" /\ e.qty \in Nat \ {0} /\ e.tagged
    BY DEF Stamped, Pos
  <1>2. e.type # "liquidation" /\ ~IsBare(e)
    BY <1>1 DEF IsBare
  <1>3. Matching(b, e) = {i \in DOMAIN b : b[i].symbol = e.symbol /\ IsOpen(b[i])}
    BY <1>1, <1>2 DEF Matching
  <1>4. TradeFor(b, e) \subseteq Matching(b, e)
    BY DEF TradeFor
  <1> QED BY <1>2, <1>3, <1>4 DEF BooksAfter, Refused

\* An execution is appended to a trade, at most as much of it as is open when
\* it is of the other side.
LEMMA AddOk ==
  ASSUME NEW n \in Int, NEW t, TradeOk(t, n), IsOpen(t), NEW e \in Stamped, e.time > n
  PROVE  /\ TradeOk(AddExecution(t, e), e.time)
         /\ AddExecution(t, e).symbol = t.symbol
         /\ AddExecution(t, e).side = t.side
         /\ AddExecution(t, e).open_qty =
              IF e.side = t.side THEN t.open_qty + e.qty
              ELSE IF e.qty > t.open_qty THEN 0 ELSE t.open_qty - e.qty
         /\ \E c \in Stamped :
              /\ AddExecution(t, e).executions = Append(t.executions, c)
              /\ c.time = e.time /\ c.side = e.side /\ c.symbol = e.symbol
              /\ c.qty = IF e.side # t.side /\ e.qty > t.open_qty
                         THEN t.open_qty ELSE e.qty
              /\ e.side = t.side \/ (e.qty <= t.open_qty /\ e.realized # Unset) => c = e
  <1>1. /\ t \in Filed /\ t.open_qty \in Pos /\ t.qty \in Pos /\ t.open_qty <= t.qty
        /\ t.entry \in Int /\ t.exit \in Int /\ t.realized_pnl \in Int
        /\ t.total_commissions \in Int /\ t.executions \in Seq(Stamped)
        /\ t.executions # <<>> /\ t.open_qty # 0
    BY DEF TradeOk, Filed, IsOpen, Pos
  <1>2. e.qty \in Pos /\ e.price \in Int /\ e.commission \in Int /\ e.type = "trade" /\ e.reduce
        /\ e.time \in Int
    BY DEF Stamped
  <1>3. Scale * e.price \in Int
    BY <1>2, ScalePos, ProductInt
  <1>4. ASSUME NEW c \in Stamped, c.time = e.time, NEW new \in Filed, new.side = t.side, new.symbol = t.symbol,
               new.executions = Append(t.executions, c), new.open_qty <= new.qty,
               c.side # t.side => c.realized # Unset,
               new.open_qty = IF c.side = t.side THEN t.open_qty + c.qty
                                                 ELSE t.open_qty - c.qty
        PROVE  TradeOk(new, e.time)
    <2>1. PICK l \in Nat, y \in Seq(Stamped) : y = t.executions /\ l = Len(y)
      BY <1>1
    <2>2. PICK x \in Seq(Stamped) : x = Append(y, c)
      BY AppendProperties
    <2>3. /\ DOMAIN x = 1 .. l + 1 /\ x # <<>> /\ x[l + 1] = c /\ l # 0 /\ Len(x) = l + 1
          /\ \A i \in 1 .. l : x[i] = y[i] /\ x[i] \in Stamped
      BY <1>1, <2>1, <2>2
    <2>4. \A j \in 1 .. l : /\ y[j].time <= n
                            /\ \A i \in 1 .. j - 1 : y[i].time < y[j].time
      BY <2>1 DEF TradeOk
    <2>5. ASSUME NEW j \in 1 .. l + 1
          PROVE  x[j].time <= e.time /\ \A i \in 1 .. j - 1 : x[i].time < x[j].time
      <3>1. CASE j = l + 1
        <4>1. \A i \in 1 .. l : x[i].time \in Int /\ x[i].time <= n
          BY <2>3, <2>4 DEF Stamped
        <4>2. x[j].time = e.time
          BY <1>4, <2>3, <3>1
        <4> QED BY <1>2, <3>1, <4>1, <4>2
      <3>2. CASE j # l + 1
        <4>1. j \in 1 .. l /\ \A i \in 1 .. j - 1 : i \in 1 .. l
          BY <3>2
        <4>2. x[j] = y[j] /\ x[j].time \in Int /\ \A i \in 1 .. j - 1 : x[i] = y[i]
          BY <2>3, <4>1 DEF Stamped
        <4>3. y[j].time <= n /\ \A i \in 1 .. j - 1 : y[i].time < y[j].time
          BY <2>4, <4>1
        <4>4. x[j].time <= n /\ \A i \in 1 .. j - 1 : x[i].time < x[j].time
          BY <4>2, <4>3
        <4>5. x[j].time <= e.time
          BY <1>2, <4>2, <4>4
        <4> QED BY <4>4, <4>5
      <3> QED BY <3>1, <3>2
    <2>6. PICK o : OpenRun(t, o)
      BY DEF TradeOk
    <2>7. /\ o[1] = y[1].qty /\ o[l] = t.open_qty
          /\ \A k \in 1 .. l : /\ o[k] \in Nat
                               /\ k # 1 => /\ o[k - 1] # 0
                                          /\ o[k] = IF y[k].side = t.side
                                                    THEN o[k - 1] + y[k].qty
                                                    ELSE o[k - 1] - y[k].qty
                               /\ k # 1 /\ y[k].side # t.side => y[k].realized # Unset
      BY <2>1, <2>6 DEF OpenRun
    <2>8. PICK p : p = [k \in 1 .. l + 1 |-> IF k = l + 1 THEN new.open_qty ELSE o[k]]
      OBVIOUS
    <2>9. p[l + 1] = new.open_qty /\ \A k \in 1 .. l : p[k] = o[k]
      BY <2>8
    <2>10. ASSUME NEW k \in 1 .. l + 1
           PROVE  /\ p[k] \in Nat
                  /\ k # 1 => /\ p[k - 1] # 0
                             /\ p[k] = IF x[k].side = t.side THEN p[k - 1] + x[k].qty
                                                             ELSE p[k - 1] - x[k].qty
                  /\ k # 1 /\ x[k].side # t.side => x[k].realized # Unset
      <3>1. CASE k = l + 1
        <4>1. p[k] = new.open_qty /\ x[k] = c /\ p[k - 1] = t.open_qty
          BY <2>3, <2>7, <2>9, <3>1
        <4>2. new.open_qty \in Nat
          BY <1>4 DEF Filed
        <4> QED BY <1>1, <1>4, <4>1, <4>2
      <3>2. CASE k # l + 1
        <4>1. k \in 1 .. l /\ (k # 1 => k - 1 \in 1 .. l)
          BY <3>2
        <4>2. p[k] = o[k] /\ x[k] = y[k] /\ (k # 1 => p[k - 1] = o[k - 1])
          BY <2>3, <2>9, <4>1
        <4> QED BY <2>7, <4>1, <4>2
      <3> QED BY <3>1, <3>2
    <2>11. p[1] = x[1].qty
      BY <2>3, <2>7, <2>9
    <2>12. new.executions = x
      BY <1>4, <2>1, <2>2
    <2>13. OpenRun(new, p)
      BY <1>4, <2>3, <2>9, <2>10, <2>11, <2>12 DEF OpenRun
    <2>14. x[1].symbol = t.symbol /\ x[1].side = t.side
      BY <2>1, <2>3 DEF TradeOk
    <2> QED BY <1>4, <2>3, <2>5, <2>12, <2>13, <2>14 DEF TradeOk
  <1>5. CASE e.side = t.side
    <2>1. AddExecution(t, e) = Increase(t, e)
      BY <1>2, <1>5 DEF AddExecution, Grows, Moves
    <2>2. WeightedAvg(t.entry, t.qty, Scale * e.price, e.qty) \in Int
      <3>1. t.qty \in Nat /\ e.qty \in Nat /\ t.qty + e.qty > 0
        BY <1>1, <1>2 DEF Pos
      <3> QED BY <1>1, <1>3, <3>1, AverageInt
    <2> DEFINE a == WeightedAvg(t.entry, t.qty, Scale * e.price, e.qty)
               x == Append(t.executions, e)
    <2>3. PICK new : new = [t EXCEPT !.entry = a, !.qty = t.qty + e.qty,
                                     !.open_qty = t.open_qty + e.qty,
                                     !.total_commissions = t.total_commissions + e.commission,
                                     !.executions = x]
      OBVIOUS
    <2>4. new = Increase(t, e)
      BY <1>1, <2>3 DEF Increase, Filed
    <2>5. x \in Seq(Stamped) /\ a \in Int
      BY <1>1, <2>2
    <2> HIDE DEF a, x
    <2>6. /\ t.qty + e.qty \in Pos /\ t.open_qty + e.qty \in Nat
          /\ t.open_qty + e.qty <= t.qty + e.qty
          /\ t.total_commissions + e.commission \in Int
      BY <1>1, <1>2, SMTT(30) DEF Pos
    <2>7. /\ new \in Filed /\ new.open_qty = t.open_qty + e.qty /\ new.qty = t.qty + e.qty
          /\ new.symbol = t.symbol /\ new.side = t.side /\ new.executions = x
      BY <1>1, <2>3, <2>5, <2>6 DEF Filed
    <2>8. TradeOk(new, e.time)
      BY <1>4, <1>5, <2>6, <2>7 DEF x
    <2> QED BY <1>5, <2>1, <2>4, <2>7, <2>8 DEF x
  <1>6. CASE e.side # t.side
    <2>1. AddExecution(t, e) = Reduce(t, Closing(t, e))
      BY <1>2, <1>6 DEF AddExecution, Grows, Shrinks, Moves
    <2>2. PICK c \in Stamped : c = Closing(t, e)
      BY <1>1, ClosingIs
    <2>3. c.time = e.time /\ c.side = e.side /\ c.symbol = e.symbol /\ (e.qty <= t.open_qty => c = e)
          /\ c.qty = IF e.qty > t.open_qty THEN t.open_qty ELSE e.qty
      BY <1>1, <2>2, ClosingIs
    <2>4. c.qty \in Pos /\ c.qty <= t.open_qty /\ c.price \in Int /\ c.commission \in Int
      BY <1>1, <1>2, <2>3 DEF Stamped, Pos
    <2>4a. PICK v \in Stamped : v = Valued(t, c)
      BY <1>1, ValuedIs
    <2>4b. /\ v.realized \in Int /\ v.time = c.time /\ v.side = c.side /\ v.symbol = c.symbol
           /\ v.qty = c.qty /\ v.realized # Unset
      BY <1>1, <2>4a, ValuedIs
    <2>5. Scale * c.price \in Int
      BY <2>4, ScalePos, ProductInt
    <2> DEFINE a == IF t.exit = NoExit THEN Scale * c.price
                    ELSE WeightedAvg(t.exit, t.qty - t.open_qty, Scale * c.price, c.qty)
               p == t.realized_pnl + v.realized
               x == Append(t.executions, v)
    <2>6. a \in Int
      <3>1. t.qty - t.open_qty \in Nat /\ t.qty - t.open_qty + c.qty > 0
        BY <1>1, <2>4 DEF Pos
      <3>2. c.qty \in Nat
        BY <2>4 DEF Pos
      <3> QED BY <1>1, <2>4, <2>5, <3>1, <3>2, AverageInt
    <2>7. p \in Int
      BY <1>1, <2>4b
    <2>8. PICK new : new = [t EXCEPT !.exit = a, !.open_qty = t.open_qty - c.qty,
                                     !.realized_pnl = p,
                                     !.total_commissions = t.total_commissions + c.commission,
                                     !.executions = x]
      OBVIOUS
    <2>9. new = Reduce(t, c)
      BY <1>1, <2>4a, <2>8 DEF Reduce, Filed
    <2>10. x \in Seq(Stamped)
      BY <1>1
    <2> HIDE DEF a, p, x
    <2>11. /\ t.open_qty - c.qty \in Nat /\ t.open_qty - c.qty <= t.qty
           /\ t.total_commissions + c.commission \in Int
      BY <1>1, <2>4 DEF Pos
    <2>12. /\ new \in Filed /\ new.open_qty = t.open_qty - c.qty /\ new.qty = t.qty
           /\ new.symbol = t.symbol /\ new.side = t.side /\ new.executions = x
      BY <1>1, <2>6, <2>7, <2>8, <2>10, <2>11 DEF Filed
    <2>13. TradeOk(new, e.time)
      BY <1>4, <1>6, <2>3, <2>4b, <2>11, <2>12 DEF x
    <2>14. new.open_qty = IF e.qty > t.open_qty THEN 0 ELSE t.open_qty - e.qty
      BY <1>1, <1>2, <2>3, <2>12 DEF Pos
    <2>15. AddExecution(t, e) = new
      BY <2>1, <2>2, <2>9
    <2>16. /\ v \in Stamped /\ new.executions = Append(t.executions, v)
           /\ v.time = e.time /\ v.side = e.side /\ v.symbol = e.symbol
           /\ v.qty = IF e.side # t.side /\ e.qty > t.open_qty THEN t.open_qty ELSE e.qty
      BY <1>6, <2>3, <2>4b, <2>12 DEF x
    <2>17. PICK f : f = AddExecution(t, e)
      OBVIOUS
    <2>16a. e.qty <= t.open_qty /\ e.realized # Unset => v = e
      BY <1>1, <2>3, <2>4a, ValuedIs
    <2>18. /\ TradeOk(f, e.time) /\ f.symbol = t.symbol /\ f.side = t.side
           /\ f.open_qty = IF e.qty > t.open_qty THEN 0 ELSE t.open_qty - e.qty
           /\ f.executions = Append(t.executions, v)
      BY <2>12, <2>13, <2>14, <2>15, <2>16, <2>17
    <2>19. \E d \in Stamped :
              /\ f.executions = Append(t.executions, d)
              /\ d.time = e.time /\ d.side = e.side /\ d.symbol = e.symbol
              /\ d.qty = IF e.side # t.side /\ e.qty > t.open_qty
                         THEN t.open_qty ELSE e.qty
              /\ e.side = t.side \/ (e.qty <= t.open_qty /\ e.realized # Unset) => d = e
      BY <1>6, <2>16, <2>16a, <2>18
    <2> QED BY <1>6, <2>17, <2>18, <2>19
  <1> QED BY <1>5, <1>6

-----------------------------------------------------------------------------
(***************************************************************************)
(* How much of the execution of one time is stored.                        *)
(***************************************************************************)
Held(b, k) == Gross(Pieces(b, k))

HeldBy(t, k) == Gross(At(t.executions, k))

Quantity == [e \in Stamped |-> e.qty]

LEMMA QuantityType ==
  /\ \A e \in Stamped : e.qty \in Pos /\ e.qty \in Nat /\ e.qty \in Int
  /\ Quantity \in [Stamped -> Int]
<1>1. \A e \in Stamped : e.qty \in Pos
  BY DEF Stamped
<1>2. \A e \in Stamped : e.qty \in Nat /\ e.qty \in Int
  BY <1>1 DEF Pos
<1> QED BY <1>1, <1>2 DEF Quantity

LEMMA GrossIs ==
  ASSUME NEW s \in Seq(Stamped)
  PROVE  Gross(s) = Total(Quantity, s) /\ Gross(s) \in Int
<1>1. Len(s) \in Nat /\ DOMAIN s = 1 .. Len(s) /\ \A k \in DOMAIN s : s[k] \in Stamped
  OBVIOUS
<1> DEFINE f == [k \in DOMAIN s |-> s[k].qty]
           g == [k \in DOMAIN s |-> Quantity[s[k]]]
<1>2. f = g
  BY <1>1 DEF Quantity
<1>3. Quantity \in [Stamped -> Int]
  BY QuantityType
<1> QED BY <1>2, <1>3, TotalInt DEF Gross, Total

LEMMA HeldByIs ==
  ASSUME NEW t \in Filed, NEW k
  PROVE  /\ At(t.executions, k) \in Seq(Stamped)
         /\ HeldBy(t, k) = SumOf([j \in DOMAIN t.executions |->
                  IF t.executions[j].time = k THEN t.executions[j].qty ELSE 0],
                  Len(t.executions))
<1>1. PICK x \in Seq(Stamped) : x = t.executions
  BY DEF Filed
<1> DEFINE K == {j \in DOMAIN x : x[j].time = k}
<1>2. At(x, k) = Chosen(x, K)
  BY DEF At
<1>3. Chosen(x, K) \in Seq(Stamped)
  <2> HIDE DEF K
  <2> QED BY ChosenIs
<1>4. Quantity \in [Stamped -> Int]
  BY QuantityType
<1>5. Total(Quantity, Chosen(x, K)) =
        SumOf([j \in DOMAIN x |-> IF j \in K THEN Quantity[x[j]] ELSE 0], Len(x))
  <2> HIDE DEF K
  <2> QED BY <1>4, TotalChosen
<1>6. [j \in DOMAIN x |-> IF j \in K THEN Quantity[x[j]] ELSE 0]
      = [j \in DOMAIN x |-> IF x[j].time = k THEN x[j].qty ELSE 0]
  BY DEF Quantity
<1>7. Gross(Chosen(x, K)) = Total(Quantity, Chosen(x, K))
  BY <1>3, GrossIs
<1> HIDE DEF K
<1> QED BY <1>1, <1>2, <1>3, <1>5, <1>6, <1>7 DEF HeldBy

LEMMA HeldByNat ==
  ASSUME NEW t \in Filed, NEW k
  PROVE  HeldBy(t, k) \in Nat
<1>1. PICK x \in Seq(Stamped) : x = t.executions
  BY DEF Filed
<1>2. PICK f : f = [j \in DOMAIN x |-> IF x[j].time = k THEN x[j].qty ELSE 0]
  OBVIOUS
<1>3. Len(x) \in Nat /\ \A j \in 1 .. Len(x) : f[j] \in Nat
  BY <1>2, QuantityType
<1>4. SumOf(f, Len(x)) \in Nat
  BY <1>3, SumsNat DEF SumOf
<1> QED BY <1>1, <1>2, <1>4, HeldByIs

LEMMA HeldByNone ==
  ASSUME NEW t \in Filed, NEW k, \A j \in DOMAIN t.executions : t.executions[j].time # k
  PROVE  HeldBy(t, k) = 0
<1>1. PICK x \in Seq(Stamped) : x = t.executions
  BY DEF Filed
<1>2. PICK f : f = [j \in DOMAIN x |-> IF x[j].time = k THEN x[j].qty ELSE 0]
  OBVIOUS
<1>3. Len(x) \in Nat /\ \A j \in 1 .. Len(x) : f[j] = 0
  BY <1>1, <1>2
<1>4. SumOf(f, Len(x)) = 0
  BY <1>3, SumOfNothing
<1> QED BY <1>1, <1>2, <1>4, HeldByIs

LEMMA HeldByOne ==
  ASSUME NEW t \in Filed, NEW e \in Stamped, t.executions = <<e>>, NEW k
  PROVE  HeldBy(t, k) = IF k = e.time THEN e.qty ELSE 0
<1>1. PICK x : x = t.executions
  OBVIOUS
<1>2. Len(x) = 1 /\ DOMAIN x = {1} /\ x[1] = e
  BY <1>1
<1>3. PICK f : f = [j \in DOMAIN x |-> IF x[j].time = k THEN x[j].qty ELSE 0]
  OBVIOUS
<1>4. f[1] = (IF k = e.time THEN e.qty ELSE 0) /\ f[1] \in Int
  BY <1>2, <1>3, QuantityType
<1>5. HeldBy(t, k) = SumOf(f, 1)
  BY <1>1, <1>2, <1>3, HeldByIs
<1>6. PICK g : g = [j \in 1 .. 0 |-> 0]
  OBVIOUS
<1>7. SumOf(f, 0 + 1) = SumOf(g, 0) + f[0 + 1]
  BY SumOfLonger
<1>8. SumOf(g, 0) = 0
  BY SumOfNothing
<1> QED BY <1>4, <1>5, <1>7, <1>8

LEMMA HeldByAppend ==
  ASSUME NEW t \in Filed, NEW r \in Filed, NEW c \in Stamped, NEW k,
         r.executions = Append(t.executions, c)
  PROVE  HeldBy(r, k) = HeldBy(t, k) + (IF c.time = k THEN c.qty ELSE 0)
<1>1. PICK x \in Seq(Stamped), l \in Nat : x = t.executions /\ l = Len(x)
  BY DEF Filed
<1>2. PICK y \in Seq(Stamped) : y = Append(x, c)
  BY AppendProperties
<1>3. Len(y) = l + 1 /\ y[l + 1] = c /\ \A j \in 1 .. l : y[j] = x[j]
  BY <1>1, <1>2
<1>4. PICK f : f = [j \in DOMAIN x |-> IF x[j].time = k THEN x[j].qty ELSE 0]
  OBVIOUS
<1>5. PICK g : g = [j \in DOMAIN y |-> IF y[j].time = k THEN y[j].qty ELSE 0]
  OBVIOUS
<1>6. /\ \A j \in 1 .. l : f[j] = g[j]
      /\ g[l + 1] = IF c.time = k THEN c.qty ELSE 0
  BY <1>1, <1>3, <1>4, <1>5
<1>7. SumOf(g, l + 1) = SumOf(f, l) + g[l + 1]
  BY <1>6, SumOfLonger
<1>8. HeldBy(t, k) = SumOf(f, l)
  BY <1>1, <1>4, HeldByIs
<1>9. HeldBy(r, k) = SumOf(g, l + 1)
  <2>1. y = r.executions
    BY <1>1, <1>2
  <2> QED BY <1>3, <1>5, <2>1, HeldByIs
<1> QED BY <1>6, <1>7, <1>8, <1>9

\* A trade with the first executions of another holds no more than that one.
LEMMA HeldByFirst ==
  ASSUME NEW t \in Filed, NEW r \in Filed, NEW k,
         Len(r.executions) <= Len(t.executions),
         \A j \in DOMAIN r.executions : r.executions[j] = t.executions[j]
  PROVE  HeldBy(r, k) <= HeldBy(t, k)
<1>1. PICK x \in Seq(Stamped), l \in Nat : x = t.executions /\ l = Len(x)
  BY DEF Filed
<1>2. PICK y \in Seq(Stamped), m \in Nat : y = r.executions /\ m = Len(y)
  BY DEF Filed
<1>3. m \in 0 .. l /\ m <= l /\ \A j \in 1 .. m : y[j] = x[j]
  BY <1>1, <1>2
<1>4. PICK f : f = [j \in DOMAIN x |-> IF x[j].time = k THEN x[j].qty ELSE 0]
  OBVIOUS
<1>5. PICK g : g = [j \in DOMAIN y |-> IF y[j].time = k THEN y[j].qty ELSE 0]
  OBVIOUS
<1>6. \A j \in 1 .. m : g[j] = f[j]
  BY <1>1, <1>2, <1>3, <1>4, <1>5
<1>7. \A j \in 1 .. l : f[j] \in Nat
  BY <1>1, <1>4, QuantityType
<1>8. m \in 0 .. m /\ \A j \in 0 .. m : Sums(g, m)[j] = Sums(f, l)[j]
  BY <1>3, <1>6, SumsAgree
<1>9. Sums(f, l)[m] <= SumOf(f, l)
  BY <1>3, <1>7, SumsGrow
<1>10. SumOf(g, m) <= SumOf(f, l)
  BY <1>8, <1>9 DEF SumOf
<1> QED BY <1>1, <1>2, <1>4, <1>5, <1>10, HeldByIs

LEMMA PiecesType ==
  ASSUME NEW b \in Seq(Filed), NEW k
  PROVE  Pieces(b, k) \in Seq(Stamped)
<1>1. PICK ss : ss = [i \in DOMAIN b |-> At(b[i].executions, k)]
  OBVIOUS
<1>2. Len(b) \in Nat /\ DOMAIN b = 1 .. Len(b) /\ \A i \in DOMAIN b : b[i] \in Filed
  OBVIOUS
<1>3. ss \in Seq(Seq(Stamped))
  <2>1. \A i \in DOMAIN b : At(b[i].executions, k) \in Seq(Stamped)
    BY <1>2, HeldByIs
  <2> QED BY <1>1, <1>2, <2>1
<1> QED BY <1>1, <1>3, FlattenSeqType DEF Pieces

LEMMA HeldIs ==
  ASSUME NEW b \in Seq(Filed), NEW k
  PROVE  Held(b, k) = SumOf([i \in DOMAIN b |-> HeldBy(b[i], k)], Len(b))
<1>1. PICK ss : ss = [i \in DOMAIN b |-> At(b[i].executions, k)]
  OBVIOUS
<1>2. Len(b) \in Nat /\ DOMAIN b = 1 .. Len(b) /\ \A i \in DOMAIN b : b[i] \in Filed
  OBVIOUS
<1>3. ss \in Seq(Seq(Stamped)) /\ Len(ss) = Len(b) /\ \A i \in DOMAIN b : ss[i] \in Seq(Stamped)
  <2>1. \A i \in DOMAIN b : At(b[i].executions, k) \in Seq(Stamped)
    BY <1>2, HeldByIs
  <2> QED BY <1>1, <1>2, <2>1
<1>4. Quantity \in [Stamped -> Int]
  BY QuantityType
<1>5. PICK g : g = [i \in DOMAIN b |-> HeldBy(b[i], k)]
  OBVIOUS
<1>6. ASSUME NEW i \in 1 .. Len(ss) PROVE g[i] = Total(Quantity, ss[i])
  <2>1. i \in DOMAIN b /\ ss[i] = At(b[i].executions, k) /\ g[i] = HeldBy(b[i], k)
    BY <1>1, <1>2, <1>3, <1>5
  <2>2. Gross(ss[i]) = Total(Quantity, ss[i])
    BY <1>3, <2>1, GrossIs
  <2> QED BY <2>1, <2>2 DEF HeldBy
<1>7. Total(Quantity, FlattenSeq(ss)) = SumOf(g, Len(ss))
  BY <1>3, <1>4, <1>6, TotalFlatten
<1>8. Pieces(b, k) = FlattenSeq(ss) /\ Pieces(b, k) \in Seq(Stamped)
  BY <1>1, PiecesType DEF Pieces
<1>9. Held(b, k) = Total(Quantity, FlattenSeq(ss))
  BY <1>8, GrossIs DEF Held
<1> QED BY <1>3, <1>5, <1>7, <1>9

LEMMA HeldNat ==
  ASSUME NEW b \in Seq(Filed), NEW k
  PROVE  Held(b, k) \in Nat
<1>1. PICK g : g = [i \in DOMAIN b |-> HeldBy(b[i], k)]
  OBVIOUS
<1>2. Len(b) \in Nat /\ \A i \in 1 .. Len(b) : g[i] \in Nat
  BY <1>1, HeldByNat
<1>3. SumOf(g, Len(b)) \in Nat
  BY <1>2, SumsNat DEF SumOf
<1> QED BY <1>1, <1>3, HeldIs

LEMMA HeldNone ==
  ASSUME NEW b \in Seq(Filed), NEW k,
         \A i \in DOMAIN b : \A j \in DOMAIN b[i].executions : b[i].executions[j].time # k
  PROVE  Held(b, k) = 0
<1>1. PICK g : g = [i \in DOMAIN b |-> HeldBy(b[i], k)]
  OBVIOUS
<1>2. Len(b) \in Nat /\ \A i \in 1 .. Len(b) : g[i] = 0
  BY <1>1, HeldByNone
<1>3. SumOf(g, Len(b)) = 0
  BY <1>2, SumOfNothing
<1> QED BY <1>1, <1>3, HeldIs

LEMMA HeldAppend ==
  ASSUME NEW b \in Seq(Filed), NEW t \in Filed, NEW k
  PROVE  Held(Append(b, t), k) = Held(b, k) + HeldBy(t, k)
<1>1. PICK l \in Nat : l = Len(b)
  OBVIOUS
<1>2. PICK c \in Seq(Filed) : c = Append(b, t)
  BY AppendProperties
<1>3. Len(c) = l + 1 /\ c[l + 1] = t /\ \A j \in 1 .. l : c[j] = b[j]
  BY <1>1, <1>2
<1>4. PICK f : f = [i \in DOMAIN b |-> HeldBy(b[i], k)]
  OBVIOUS
<1>5. PICK g : g = [i \in DOMAIN c |-> HeldBy(c[i], k)]
  OBVIOUS
<1>6. (\A j \in 1 .. l : f[j] = g[j]) /\ g[l + 1] = HeldBy(t, k)
  BY <1>1, <1>3, <1>4, <1>5
<1>7. SumOf(g, l + 1) = SumOf(f, l) + g[l + 1]
  BY <1>6, SumOfLonger
<1> QED BY <1>1, <1>2, <1>3, <1>4, <1>5, <1>6, <1>7, HeldIs

LEMMA HeldChanged ==
  ASSUME NEW b \in Seq(Filed), NEW i \in DOMAIN b, NEW r \in Filed, NEW k
  PROVE  Held([b EXCEPT ![i] = r], k) = Held(b, k) - HeldBy(b[i], k) + HeldBy(r, k)
<1>1. PICK l \in Nat : l = Len(b) /\ i \in 1 .. l
  OBVIOUS
<1>2. PICK c \in Seq(Filed) : c = [b EXCEPT ![i] = r]
  BY <1>1, ExceptSeq
<1>3. Len(c) = l /\ c[i] = r /\ \A j \in 1 .. l : j # i => c[j] = b[j]
  BY <1>1, <1>2
<1>4. PICK f : f = [j \in DOMAIN b |-> HeldBy(b[j], k)]
  OBVIOUS
<1>5. PICK g : g = [j \in DOMAIN c |-> HeldBy(c[j], k)]
  OBVIOUS
<1>6. /\ \A j \in 1 .. l : j # i => f[j] = g[j]
      /\ f[i] = HeldBy(b[i], k) /\ g[i] = HeldBy(r, k)
      /\ \A j \in 1 .. l : f[j] \in Int /\ g[j] \in Int
  <2>1. ASSUME NEW j \in 1 .. l
        PROVE  f[j] = HeldBy(b[j], k) /\ g[j] = HeldBy(c[j], k) /\ f[j] \in Int /\ g[j] \in Int
    <3>1. b[j] \in Filed /\ c[j] \in Filed /\ j \in DOMAIN b /\ j \in DOMAIN c
      BY <1>1, <1>3
    <3> QED BY <1>4, <1>5, <3>1, HeldByNat
  <2> QED BY <1>1, <1>3, <2>1
<1>7. SumOf(g, l) = SumOf(f, l) - f[i] + g[i]
  BY <1>1, <1>6, SumOfChanged
<1> QED BY <1>1, <1>2, <1>3, <1>4, <1>5, <1>6, <1>7, HeldIs

-----------------------------------------------------------------------------
(***************************************************************************)
(* The trades of a client, until the time n: those of a symbol follow each *)
(* other, and only the last of them can be open.                           *)
(***************************************************************************)
Follows(t, u) ==
    /\ ~IsOpen(t)
    /\ \A j \in DOMAIN t.executions : t.executions[j].time <= u.executions[1].time

BookOk(b, n) ==
    /\ b \in Seq(Filed)
    /\ \A i \in DOMAIN b : TradeOk(b[i], n)
    /\ \A j \in DOMAIN b : \A i \in 1 .. j - 1 :
          b[i].symbol = b[j].symbol => Follows(b[i], b[j])

LEMMA TimesOk ==
  ASSUME NEW t, NEW n \in Int, TradeOk(t, n), NEW j \in DOMAIN t.executions
  PROVE  /\ t.executions[j] \in Stamped
         /\ t.executions[j].time \in Int
         /\ t.executions[j].time <= n
<1>1. PICK x \in Seq(Stamped) : x = t.executions
  BY DEF TradeOk, Filed
<1>2. x[j] \in Stamped
  BY <1>1
<1>3. x[j].time \in Int
  BY <1>2 DEF Stamped
<1> QED BY <1>1, <1>2, <1>3 DEF TradeOk

\* What is stored until one time is stored until a later one.
LEMMA LaterOk ==
  ASSUME NEW t, NEW n \in Int, NEW m \in Int, n <= m, TradeOk(t, n)
  PROVE  TradeOk(t, m)
<1>1. \A j \in DOMAIN t.executions : t.executions[j].time \in Int /\ t.executions[j].time <= n
  BY TimesOk
<1>2. \A j \in DOMAIN t.executions : t.executions[j].time <= m
  BY <1>1
<1> QED BY <1>2 DEF TradeOk

LEMMA BookLater ==
  ASSUME NEW b, NEW n \in Int, NEW m \in Int, n <= m, BookOk(b, n)
  PROVE  BookOk(b, m)
BY LaterOk DEF BookOk

LEMMA NothingLater ==
  ASSUME NEW b, NEW n \in Int, NEW k \in Int, n < k, BookOk(b, n)
  PROVE  Held(b, k) = 0
<1>1. b \in Seq(Filed)
  BY DEF BookOk
<1>2. ASSUME NEW i \in DOMAIN b, NEW j \in DOMAIN b[i].executions
      PROVE  b[i].executions[j].time # k
  <2>1. TradeOk(b[i], n)
    BY DEF BookOk
  <2>2. b[i].executions[j].time \in Int /\ b[i].executions[j].time <= n
    BY <2>1, TimesOk
  <2> QED BY <2>2
<1> QED BY <1>1, <1>2, HeldNone

\* A trade after all others of its symbol, which are closed.
LEMMA AppendOk ==
  ASSUME NEW b, NEW n \in Int, BookOk(b, n), NEW t, TradeOk(t, n),
         \A i \in DOMAIN b : b[i].symbol = t.symbol => Follows(b[i], t)
  PROVE  BookOk(Append(b, t), n)
<1>1. b \in Seq(Filed) /\ t \in Filed
  BY DEF BookOk, TradeOk
<1>2. PICK l \in Nat : l = Len(b) /\ DOMAIN b = 1 .. l
  BY <1>1
<1>3. PICK c \in Seq(Filed) : c = Append(b, t)
  BY <1>1, AppendProperties
<1>4. DOMAIN c = 1 .. l + 1 /\ c[l + 1] = t /\ \A i \in 1 .. l : c[i] = b[i]
  BY <1>1, <1>2, <1>3
<1>5. ASSUME NEW i \in 1 .. l + 1 PROVE TradeOk(c[i], n)
  <2>1. i = l + 1 \/ i \in 1 .. l
    OBVIOUS
  <2> QED BY <1>2, <1>4, <2>1 DEF BookOk
<1>6. ASSUME NEW j \in 1 .. l + 1, NEW i \in 1 .. j - 1, c[i].symbol = c[j].symbol
      PROVE  Follows(c[i], c[j])
  <2>1. i \in 1 .. l /\ (j = l + 1 \/ j \in 1 .. l)
    OBVIOUS
  <2>2. CASE j = l + 1
    <3>1. c[i] = b[i] /\ c[j] = t /\ i \in DOMAIN b
      BY <1>2, <1>4, <2>1, <2>2
    <3> QED BY <1>6, <3>1
  <2>3. CASE j \in 1 .. l
    <3>1. c[i] = b[i] /\ c[j] = b[j] /\ j \in DOMAIN b
      BY <1>2, <1>4, <2>1, <2>3
    <3> QED BY <1>6, <3>1 DEF BookOk
  <2> QED BY <2>1, <2>2, <2>3
<1> QED BY <1>3, <1>4, <1>5, <1>6 DEF BookOk

\* One execution, as Worker._add_executions adds it, is stored once, in the
\* trade that is open or in a new one.
LEMMA BookStep ==
  ASSUME NEW b, NEW n \in Int, BookOk(b, n), NEW e \in Stamped, e.time > n,
         NEW c \in BooksAfter(b, e)
  PROVE  /\ BookOk(c, e.time)
         /\ \A k : Held(c, k) = Held(b, k) + (IF k = e.time THEN e.qty ELSE 0)
         /\ \A i \in DOMAIN b : ~IsOpen(b[i]) => i \in DOMAIN c /\ c[i] = b[i]
<1>1. /\ b \in Seq(Filed) /\ e.time \in Int /\ n <= e.time
      /\ e.qty \in Pos /\ e.qty \in Nat /\ e.tagged
  <2>1. e.time \in Int /\ e.tagged
    BY DEF Stamped
  <2> QED BY <2>1, QuantityType DEF BookOk
<1>2. PICK l \in Nat : l = Len(b) /\ DOMAIN b = 1 .. l
  BY <1>1
<1>3. BookOk(b, e.time)
  BY <1>1, BookLater
<1>4. \A i \in DOMAIN b : /\ TradeOk(b[i], n) /\ TradeOk(b[i], e.time) /\ b[i] \in Filed
                          /\ \A j \in DOMAIN b[i].executions : b[i].executions[j].time <= e.time
  BY <1>3 DEF BookOk, TradeOk
<1>5. CASE Matching(b, e) = {}
  <2>1. PICK t : t = FromExecution(e)
    OBVIOUS
  <2>2. /\ TradeOk(t, e.time) /\ t.symbol = e.symbol /\ t.executions = <<e>> /\ t \in Filed
    BY <1>1, <2>1, FromExecutionOk DEF TradeOk
  <2>3. c = Append(b, t)
    BY <1>5, <2>1, MatchingOpen
  <2>4. ASSUME NEW i \in DOMAIN b, b[i].symbol = t.symbol PROVE Follows(b[i], t)
    <3>1. ~IsOpen(b[i])
      BY <1>1, <1>5, <2>2, <2>4, MatchingOpen
    <3>2. t.executions[1] = e
      BY <2>2
    <3> QED BY <1>4, <3>1, <3>2 DEF Follows
  <2>5. BookOk(c, e.time)
    BY <1>1, <1>3, <2>2, <2>3, <2>4, AppendOk
  <2>6. ASSUME NEW k PROVE HeldBy(t, k) = IF k = e.time THEN e.qty ELSE 0
    BY <2>2, HeldByOne
  <2>7. \A k : Held(c, k) = Held(b, k) + (IF k = e.time THEN e.qty ELSE 0)
    BY <1>1, <2>2, <2>3, <2>6, HeldAppend
  <2>8. \A i \in DOMAIN b : i \in DOMAIN c /\ c[i] = b[i]
    BY <1>1, <1>2, <2>2, <2>3, AppendProperties
  <2> QED BY <2>5, <2>7, <2>8
<1>6. CASE Matching(b, e) # {}
  <2>1. PICK i \in TradeFor(b, e) : c = AddTo(b, i, e)
    BY <1>6, MatchingOpen
  <2>2. i \in 1 .. l /\ i \in DOMAIN b /\ b[i].symbol = e.symbol /\ IsOpen(b[i])
    BY <1>2, MatchingOpen
  <2>3. PICK t : t = b[i]
    OBVIOUS
  <2>4. t \in Filed /\ TradeOk(t, n) /\ IsOpen(t) /\ t.open_qty \in Nat
    BY <1>4, <2>2, <2>3 DEF Filed
  <2>5. PICK r : r = AddExecution(t, e)
    OBVIOUS
  <2>6. /\ TradeOk(r, e.time) /\ r \in Filed /\ r.symbol = t.symbol /\ r.side = t.side
        /\ r.open_qty = IF e.side = t.side THEN t.open_qty + e.qty
                        ELSE IF e.qty > t.open_qty THEN 0 ELSE t.open_qty - e.qty
    BY <2>4, <2>5, AddOk DEF TradeOk
  <2>7. PICK d \in Stamped :
          /\ r.executions = Append(t.executions, d)
          /\ d.time = e.time
          /\ d.qty = IF e.side # t.side /\ e.qty > t.open_qty THEN t.open_qty ELSE e.qty
    BY <2>4, <2>5, AddOk
  <2>8. PICK a : a = [b EXCEPT ![i] = r]
    OBVIOUS
  <2>9. a \in Seq(Filed) /\ Len(a) = l /\ DOMAIN a = 1 .. l /\ a[i] = r
        /\ \A j \in 1 .. l : j # i => a[j] = b[j]
    BY <1>1, <1>2, <2>2, <2>6, <2>8
  <2>10. ASSUME NEW j \in 1 .. l, j # i, b[j].symbol = e.symbol PROVE j < i /\ Follows(b[j], t)
    <3>1. ~(i < j)
      <4> SUFFICES ASSUME i < j PROVE FALSE
        OBVIOUS
      <4>1. i \in 1 .. j - 1 /\ b[i].symbol = b[j].symbol
        BY <2>2, <2>10
      <4>2. Follows(b[i], b[j])
        BY <1>2, <4>1 DEF BookOk
      <4> QED BY <2>2, <4>2 DEF Follows
    <3>2. j < i /\ j \in 1 .. i - 1
      BY <2>2, <2>10, <3>1
    <3> QED BY <1>2, <2>2, <2>3, <2>10, <3>2 DEF BookOk
  <2>11. r.executions[1] = t.executions[1]
    <3>1. t.executions \in Seq(Stamped) /\ t.executions # <<>>
      BY <2>4 DEF TradeOk, Filed
    <3>2. 1 \in 1 .. Len(t.executions)
      BY <3>1
    <3> QED BY <2>7, <3>1, <3>2, AppendProperties
  <2>12. BookOk(a, e.time)
    <3>1. ASSUME NEW j \in 1 .. l PROVE TradeOk(a[j], e.time)
      BY <1>2, <1>4, <2>6, <2>9
    <3>2. ASSUME NEW j \in 1 .. l, NEW m \in 1 .. j - 1, a[m].symbol = a[j].symbol
          PROVE  Follows(a[m], a[j])
      <4>1. m \in 1 .. l /\ m # j
        OBVIOUS
      <4>2. CASE j = i
        <5>1. a[m] = b[m] /\ a[j] = r /\ b[m].symbol = e.symbol /\ m # i
          BY <2>2, <2>3, <2>6, <2>9, <3>2, <4>1, <4>2
        <5>2. Follows(b[m], t)
          BY <2>10, <4>1, <5>1
        <5> QED BY <2>11, <5>1, <5>2 DEF Follows
      <4>3. CASE j # i
        <5>1. a[j] = b[j]
          BY <2>9, <4>3
        <5>2. m # i
          <6> SUFFICES ASSUME m = i PROVE FALSE
            OBVIOUS
          <6>1. b[j].symbol = e.symbol
            BY <2>2, <2>3, <2>6, <2>9, <3>2, <5>1
          <6>2. j < i
            BY <2>10, <4>3, <6>1
          <6> QED BY <6>2
        <5>3. a[m] = b[m]
          BY <2>9, <4>1, <5>2
        <5> QED BY <1>2, <3>2, <5>1, <5>3 DEF BookOk
      <4> QED BY <4>2, <4>3
    <3> QED BY <2>9, <3>1, <3>2 DEF BookOk
  <2>13. \A k : Held(a, k) = Held(b, k) + (IF k = e.time THEN d.qty ELSE 0)
    <3> SUFFICES ASSUME NEW k PROVE Held(a, k) = Held(b, k) + (IF k = e.time THEN d.qty ELSE 0)
      OBVIOUS
    <3>1. Held(a, k) = Held(b, k) - HeldBy(b[i], k) + HeldBy(r, k)
      BY <1>1, <2>2, <2>6, <2>8, HeldChanged
    <3>2. HeldBy(r, k) = HeldBy(t, k) + (IF d.time = k THEN d.qty ELSE 0)
      BY <2>4, <2>6, <2>7, HeldByAppend
    <3>3. Held(b, k) \in Nat /\ HeldBy(t, k) \in Nat /\ d.qty \in Nat
      BY <1>1, <2>4, HeldNat, HeldByNat, QuantityType
    <3> QED BY <2>3, <2>7, <3>1, <3>2, <3>3
  <2>14. \A j \in DOMAIN b : ~IsOpen(b[j]) => j \in DOMAIN a /\ a[j] = b[j]
    BY <1>2, <2>2, <2>9
  <2>15. CASE e.side # t.side /\ e.qty > t.open_qty
    <3>1. PICK u : u = FromExecution(Rest(t, e))
      OBVIOUS
    <3>2. /\ Rest(t, e) \in Stamped /\ Rest(t, e).time = e.time /\ Rest(t, e).symbol = e.symbol
          /\ Rest(t, e).qty = e.qty - t.open_qty
      BY <2>4, <2>15, RestIs
    <3>3. PICK f \in Stamped : f = Rest(t, e)
      BY <3>2
    <3>4. f.time <= e.time
      BY <1>1, <3>2, <3>3
    <3>5. TradeOk(u, e.time) /\ u.symbol = e.symbol /\ u.executions = <<f>> /\ u \in Filed
      BY <1>1, <3>1, <3>2, <3>3, <3>4, FromExecutionOk DEF TradeOk
    <3>6. NewTrade(t, e) = <<u>>
      BY <2>15, <3>1 DEF NewTrade, Shrinks, Moves, Stamped
    <3>7. c = Append(a, u)
      <4>1. c = a \o <<u>>
        BY <2>1, <2>3, <2>5, <2>8, <3>6 DEF AddTo
      <4> QED BY <2>9, <3>5, <4>1
    <3>8. ASSUME NEW j \in DOMAIN a, a[j].symbol = u.symbol PROVE Follows(a[j], u)
      <4>1. u.executions[1].time = e.time
        BY <3>2, <3>3, <3>5
      <4>2. TradeOk(a[j], e.time)
        BY <2>12 DEF BookOk
      <4>3. ~IsOpen(a[j])
        <5>1. CASE j = i
          BY <2>6, <2>9, <2>15, <5>1 DEF IsOpen
        <5>2. CASE j # i
          <6>1. j \in 1 .. l /\ a[j] = b[j] /\ b[j].symbol = e.symbol
            BY <2>9, <3>5, <3>8, <5>2
          <6>2. Follows(b[j], t)
            BY <2>10, <5>2, <6>1
          <6> QED BY <6>1, <6>2 DEF Follows
        <5> QED BY <5>1, <5>2
      <4> QED BY <4>1, <4>2, <4>3 DEF Follows, TradeOk
    <3>9. BookOk(c, e.time)
      BY <1>1, <2>12, <3>5, <3>7, <3>8, AppendOk
    <3>10. ASSUME NEW k PROVE HeldBy(u, k) = IF k = e.time THEN f.qty ELSE 0
      BY <3>2, <3>3, <3>5, HeldByOne
    <3>11. ASSUME NEW k PROVE Held(c, k) = Held(b, k) + (IF k = e.time THEN e.qty ELSE 0)
      <4>1. Held(c, k) = Held(a, k) + HeldBy(u, k)
        BY <2>9, <3>5, <3>7, HeldAppend
      <4>2. d.qty = t.open_qty /\ f.qty = e.qty - t.open_qty
        BY <2>7, <2>15, <3>2, <3>3
      <4>3. Held(b, k) \in Nat
        BY <1>1, HeldNat
      <4> QED BY <1>1, <2>4, <2>13, <3>10, <4>1, <4>2, <4>3
    <3>12. \A j \in DOMAIN a : j \in DOMAIN c /\ c[j] = a[j]
      BY <2>9, <3>5, <3>7, AppendProperties
    <3> QED BY <2>14, <3>9, <3>11, <3>12
  <2>16. CASE ~(e.side # t.side /\ e.qty > t.open_qty)
    <3>1. NewTrade(t, e) = <<>>
      BY <2>16 DEF NewTrade, Shrinks, Rejects, Moves, Stamped
    <3>2. c = a
      <4>1. c = a \o <<>>
        BY <2>1, <2>3, <2>5, <2>8, <3>1 DEF AddTo
      <4> QED BY <2>9, <4>1, ConcatEmptySeq
    <3>3. d.qty = e.qty
      BY <2>7, <2>16
    <3> QED BY <2>12, <2>13, <2>14, <3>2, <3>3
  <2> QED BY <2>15, <2>16
<1> QED BY <1>5, <1>6

-----------------------------------------------------------------------------
(***************************************************************************)
(* Trade.reverse_to: a trade made again is the trade as it was.            *)
(***************************************************************************)
IsRebuild(f, t, date, n) ==
    f = [k \in 1 .. n |->
            IF k = 1 THEN FromExecution(t.executions[1])
            ELSE IF t.executions[k].time < date
            THEN AddExecution(f[k - 1], t.executions[k])
            ELSE f[k - 1]]

LEMMA RebuildExists ==
  ASSUME NEW t, NEW date, NEW n \in Nat
  PROVE  \E f : IsRebuild(f, t, date, n)
<1> DEFINE A == {k \in Nat : ~\E f : IsRebuild(f, t, date, k)}
           Next_(f, k) == IF k = 1 THEN FromExecution(t.executions[1])
                          ELSE IF t.executions[k].time < date
                          THEN AddExecution(f[k - 1], t.executions[k])
                          ELSE f[k - 1]
<1>1. ASSUME NEW k \in A PROVE k # 0 /\ k - 1 \in A
  <2>1. k # 0
    <3> SUFFICES ASSUME k = 0 PROVE FALSE
      OBVIOUS
    <3>1. PICK f : f = [i \in 1 .. 0 |-> 0]
      OBVIOUS
    <3>2. IsRebuild(f, t, date, 0)
      BY <3>1 DEF IsRebuild
    <3> QED BY <3>2
  <2>2. ASSUME k - 1 \notin A PROVE FALSE
    <3>1. k - 1 \in Nat
      BY <2>1
    <3>2. PICK f : IsRebuild(f, t, date, k - 1)
      BY <2>2, <3>1
    <3>3. PICK g : g = [i \in 1 .. k |-> IF i = k THEN Next_(f, k) ELSE f[i]]
      OBVIOUS
    <3>4. g[k] = Next_(f, k) /\ \A i \in 1 .. k - 1 : g[i] = f[i]
      <4> HIDE DEF Next_
      <4> QED BY <2>1, <3>3
    <3>5. \A i \in 1 .. k - 1 : f[i] = Next_(f, i)
      BY <3>2 DEF IsRebuild
    <3>6. ASSUME NEW i \in 1 .. k PROVE g[i] = Next_(g, i)
      <4>1. CASE i = 1
        BY <3>4, <3>5, <4>1
      <4>2. CASE i # 1
        <5>1. i - 1 \in 1 .. k - 1 /\ g[i - 1] = f[i - 1]
          BY <3>4, <4>2
        <5>2. g[i] = Next_(f, i)
          <6> HIDE DEF Next_
          <6>1. i = k \/ i \in 1 .. k - 1
            OBVIOUS
          <6> QED BY <3>4, <3>5, <6>1
        <5> QED BY <4>2, <5>1, <5>2
      <4> QED BY <4>1, <4>2
    <3>7. g = [i \in 1 .. k |-> Next_(g, i)]
      <4>1. DOMAIN g = 1 .. k /\ g = [i \in DOMAIN g |-> g[i]]
        BY <3>3
      <4> HIDE DEF Next_
      <4> QED BY <3>6, <4>1
    <3>8. IsRebuild(g, t, date, k)
      BY <3>7 DEF IsRebuild
    <3> QED BY <3>8
  <2> QED BY <2>1, <2>2
<1> HIDE DEF A
<1>2. A \in SUBSET Nat
  BY DEF A
<1>3. A = {}
  BY <1>1, <1>2, Descent
<1> QED BY <1>3 DEF A

LEMMA RebuiltIs ==
  ASSUME NEW t \in Filed, NEW date
  PROVE  \E f : /\ IsRebuild(f, t, date, Len(t.executions))
                /\ Rebuilt(t, date) = f[Len(t.executions)]
<1>1. PICK n \in Nat : n = Len(t.executions) /\ DOMAIN t.executions = 1 .. n
  BY DEF Filed
<1>2. \E f : IsRebuild(f, t, date, n)
  BY RebuildExists
<1> DEFINE h == CHOOSE f : f = [k \in 1 .. n |->
            IF k = 1 THEN FromExecution(t.executions[1])
            ELSE IF t.executions[k].time < date
            THEN AddExecution(f[k - 1], t.executions[k])
            ELSE f[k - 1]]
<1>3. IsRebuild(h, t, date, n)
  BY <1>2 DEF IsRebuild
<1>4. Rebuilt(t, date) = h[n]
  BY <1>1 DEF Rebuilt
<1> HIDE DEF h
<1> QED BY <1>1, <1>3, <1>4

\* Made again, a trade has the executions before the date, none of them cut:
\* they found open what they had found open.
LEMMA RebuiltOk ==
  ASSUME NEW t, NEW n \in Int, TradeOk(t, n), NEW date \in Int,
         t.executions[1].time < date
  PROVE  /\ TradeOk(Rebuilt(t, date), date)
         /\ Rebuilt(t, date).symbol = t.symbol
         /\ Len(Rebuilt(t, date).executions) <= Len(t.executions)
         /\ \A j \in DOMAIN Rebuilt(t, date).executions :
               Rebuilt(t, date).executions[j] = t.executions[j]
<1>1. PICK x \in Seq(Stamped), l \in Nat :
        x = t.executions /\ l = Len(x) /\ l # 0 /\ DOMAIN x = 1 .. l
  BY DEF TradeOk, Filed
<1>2. /\ t \in Filed /\ x[1].symbol = t.symbol /\ x[1].side = t.side
      /\ \A j \in 1 .. l : /\ x[j] \in Stamped /\ x[j].time \in Int /\ x[j].time <= n
                           /\ x[j].qty \in Nat
                           /\ \A i \in 1 .. j - 1 : x[i].time < x[j].time
  BY <1>1, TimesOk, QuantityType DEF TradeOk
<1>3. PICK o : OpenRun(t, o)
  BY DEF TradeOk
<1>4. /\ o[1] = x[1].qty
      /\ \A k \in 1 .. l : /\ o[k] \in Nat
                           /\ k # 1 => /\ o[k - 1] # 0
                                       /\ o[k] = IF x[k].side = t.side
                                                 THEN o[k - 1] + x[k].qty
                                                 ELSE o[k - 1] - x[k].qty
                           /\ k # 1 /\ x[k].side # t.side => x[k].realized # Unset
  BY <1>1, <1>3 DEF OpenRun
<1>5. PICK f : IsRebuild(f, t, date, l) /\ Rebuilt(t, date) = f[l]
  BY <1>1, <1>2, RebuiltIs
<1>6. \A k \in 1 .. l : f[k] = IF k = 1 THEN FromExecution(x[1])
                               ELSE IF x[k].time < date THEN AddExecution(f[k - 1], x[k])
                               ELSE f[k - 1]
  BY <1>1, <1>5 DEF IsRebuild
<1> DEFINE Was(u, k) ==
      \E m \in 1 .. k :
         /\ TradeOk(u, x[m].time) /\ x[m].time < date
         /\ u.symbol = t.symbol /\ u.side = t.side /\ u.open_qty = o[m]
         /\ Len(u.executions) = m
         /\ \A j \in 1 .. m : u.executions[j] = x[j]
         /\ m = k \/ date <= x[m + 1].time
           A == {k \in 1 .. l : ~Was(f[k], k)}
<1>7. Was(f[1], 1)
  <2>1. x[1] \in Stamped /\ x[1].time \in Int /\ x[1].time < date /\ 1 \in 1 .. 1
    BY <1>1, <1>2
  <2>2. PICK u : u = FromExecution(x[1])
    OBVIOUS
  <2>3. /\ TradeOk(u, x[1].time) /\ u.symbol = x[1].symbol /\ u.side = x[1].side
        /\ u.open_qty = x[1].qty /\ u.executions = <<x[1]>>
    BY <2>1, <2>2, FromExecutionOk
  <2>4. Len(u.executions) = 1 /\ u.executions[1] = x[1]
    BY <2>3
  <2>5. f[1] = u
    BY <1>1, <1>6, <2>2
  <2>6. \A j \in 1 .. 1 : u.executions[j] = x[j]
    BY <2>4
  <2>7. u.symbol = t.symbol /\ u.side = t.side /\ u.open_qty = o[1]
    BY <1>2, <1>4, <2>3
  <2>8. Was(u, 1)
    BY <2>1, <2>3, <2>4, <2>6, <2>7
  <2> HIDE DEF Was
  <2> QED BY <2>5, <2>8
<1>8. ASSUME NEW k \in A PROVE k # 0 /\ k - 1 \in A
  <2>1. k # 1
    <3> HIDE DEF Was
    <3> QED BY <1>7
  <2>2. k \in 1 .. l /\ k - 1 \in 1 .. l /\ k # 0
    BY <2>1
  <2>3. ASSUME Was(f[k - 1], k - 1) PROVE Was(f[k], k)
    <3>1. PICK u : u = f[k - 1]
      OBVIOUS
    <3>2. PICK m \in 1 .. k - 1 :
         /\ TradeOk(u, x[m].time) /\ x[m].time < date
         /\ u.symbol = t.symbol /\ u.side = t.side /\ u.open_qty = o[m]
         /\ Len(u.executions) = m
         /\ \A j \in 1 .. m : u.executions[j] = x[j]
         /\ m = k - 1 \/ date <= x[m + 1].time
      BY <2>3, <3>1
    <3>3. m \in 1 .. l /\ m \in 1 .. k /\ m + 1 \in 1 .. k
      BY <2>2
    <3>4. CASE x[k].time < date
      <4>1. m = k - 1
        <5> SUFFICES ASSUME m # k - 1 PROVE FALSE
          OBVIOUS
        <5>1. m + 1 \in 1 .. k - 1 /\ m + 1 \in 1 .. l
          BY <2>2
        <5>2. x[m + 1].time < x[k].time
          BY <1>2, <2>2, <5>1
        <5>3. date <= x[m + 1].time /\ x[m + 1].time \in Int /\ x[k].time \in Int
          BY <1>2, <2>2, <3>2, <5>1
        <5> QED BY <3>4, <5>2, <5>3
      <4>2. PICK e \in Stamped : e = x[k]
        BY <1>2, <2>2
      <4>3. x[m].time \in Int /\ e.time > x[m].time
        BY <1>2, <2>2, <3>3, <4>1, <4>2
      <4>4. o[m] \in Nat /\ o[m] # 0 /\ o[k] \in Nat /\ e.qty \in Nat
            /\ o[k] = IF e.side = t.side THEN o[m] + e.qty ELSE o[m] - e.qty
        BY <1>2, <1>4, <2>1, <2>2, <4>1, <4>2
      <4>5. IsOpen(u)
        BY <3>2, <4>4 DEF IsOpen
      <4>6. e.side = t.side \/ (e.qty <= o[m] /\ e.realized # Unset)
        BY <1>4, <2>1, <2>2, <4>2, <4>4
      <4>7. PICK v : v = AddExecution(u, e)
        OBVIOUS
      <4>8. /\ TradeOk(v, e.time) /\ v.symbol = u.symbol /\ v.side = u.side
            /\ v.open_qty = IF e.side = u.side THEN u.open_qty + e.qty
                            ELSE IF e.qty > u.open_qty THEN 0 ELSE u.open_qty - e.qty
            /\ \E c \in Stamped :
                 /\ v.executions = Append(u.executions, c)
                 /\ e.side = u.side \/ (e.qty <= u.open_qty /\ e.realized # Unset) => c = e
        BY <3>2, <4>3, <4>5, <4>7, AddOk, SMTT(30)
      <4>9. v.executions = Append(u.executions, e)
        BY <3>2, <4>6, <4>8
      <4>10. PICK y \in Seq(Stamped) : y = u.executions /\ Len(y) = m
        BY <3>2 DEF TradeOk, Filed
      <4>11. Len(v.executions) = k /\ \A j \in 1 .. k : v.executions[j] = x[j]
        <5>1. Len(Append(y, e)) = m + 1 /\ Append(y, e)[m + 1] = e
              /\ \A j \in 1 .. m : Append(y, e)[j] = y[j]
          BY <4>10, AppendProperties
        <5>2. \A j \in 1 .. k : j = m + 1 \/ j \in 1 .. m
          BY <4>1
        <5> QED BY <3>2, <4>1, <4>2, <4>9, <4>10, <5>1, <5>2
      <4>12. v.open_qty = o[k]
        BY <3>2, <4>4, <4>6, <4>8
      <4>13. f[k] = v
        BY <1>6, <2>1, <2>2, <3>1, <3>4, <4>2, <4>7
      <4>14. k \in 1 .. k /\ TradeOk(v, x[k].time)
        BY <2>2, <4>2, <4>8
      <4>15. v.symbol = t.symbol /\ v.side = t.side
        BY <3>2, <4>8
      <4>16. Was(v, k)
        BY <3>4, <4>11, <4>12, <4>14, <4>15
      <4> HIDE DEF Was
      <4> QED BY <4>13, <4>16
    <3>5. CASE ~(x[k].time < date)
      <4>1. f[k] = u
        BY <1>6, <2>1, <2>2, <3>1, <3>5
      <4>2. date <= x[m + 1].time
        <5>1. CASE m = k - 1
          <6>1. x[k].time \in Int /\ m + 1 = k
            BY <1>2, <2>2, <5>1
          <6> QED BY <3>5, <6>1
        <5> QED BY <3>2, <5>1
      <4>3. Was(u, k)
        BY <3>2, <3>3, <4>2
      <4> HIDE DEF Was
      <4> QED BY <4>1, <4>3
    <3> QED BY <3>4, <3>5
  <2> HIDE DEF Was
  <2> QED BY <2>2, <2>3
<1> HIDE DEF A
<1>9. A \in SUBSET Nat
  BY DEF A
<1>10. A = {}
  BY <1>8, <1>9, Descent
<1>11. Was(f[l], l)
  <2> HIDE DEF Was
  <2> QED BY <1>1, <1>10 DEF A
<1>12. PICK u : u = Rebuilt(t, date)
  OBVIOUS
<1>13. PICK m \in 1 .. l :
         /\ TradeOk(u, x[m].time) /\ x[m].time < date
         /\ u.symbol = t.symbol
         /\ Len(u.executions) = m
         /\ \A j \in 1 .. m : u.executions[j] = x[j]
  BY <1>5, <1>11, <1>12
<1>14. TradeOk(u, date)
  <2>1. x[m].time \in Int /\ x[m].time <= date
    BY <1>2, <1>13
  <2> QED BY <1>13, <2>1, LaterOk
<1>15. DOMAIN u.executions = 1 .. m
  BY <1>13 DEF TradeOk, Filed
<1> QED BY <1>1, <1>12, <1>13, <1>14, <1>15

\* What reverse_to makes of a trade.
LEMMA ReverseToIs ==
  ASSUME NEW t, NEW n \in Int, TradeOk(t, n), NEW date \in Int
  PROVE  /\ ReverseTo(t, date) = <<>> => date <= t.executions[1].time
         /\ (\A j \in DOMAIN t.executions : t.executions[j].time <= date)
               => ReverseTo(t, date) = <<t>>
         /\ ReverseTo(t, date) # <<>> =>
              /\ t.executions[1].time <= date
              /\ \E r : /\ ReverseTo(t, date) = <<r>>
                        /\ TradeOk(r, date) /\ r.symbol = t.symbol
                        /\ r.executions[1] = t.executions[1]
                        /\ \A k : HeldBy(r, k) <= HeldBy(t, k)
                        /\ \/ r = t
                           \/ ~\A j \in DOMAIN t.executions : t.executions[j].time <= date
<1>1. PICK x \in Seq(Stamped), l \in Nat :
        x = t.executions /\ l = Len(x) /\ l # 0 /\ DOMAIN x = 1 .. l
  BY DEF TradeOk, Filed
<1>2. /\ t \in Filed
      /\ \A j \in 1 .. l : /\ x[j].time \in Int
                           /\ \A i \in 1 .. j - 1 : x[i].time < x[j].time
  BY <1>1, TimesOk DEF TradeOk
<1>3. Last(t.executions) = x[l] /\ Head(t.executions) = x[1]
  BY <1>1 DEF Last
<1>4. \A j \in 1 .. l : j = l \/ x[j].time < x[l].time
  <2> SUFFICES ASSUME NEW j \in 1 .. l, j # l PROVE x[j].time < x[l].time
    OBVIOUS
  <2>1. l \in 1 .. l /\ j \in 1 .. l - 1
    BY <1>1
  <2> QED BY <1>2, <2>1
<1>5. 1 \in 1 .. l /\ l \in 1 .. l
  BY <1>1
<1>6. CASE x[l].time <= date
  <2>1. ReverseTo(t, date) = <<t>>
    BY <1>3, <1>6 DEF ReverseTo
  <2>2. \A j \in 1 .. l : x[j].time <= date
    BY <1>2, <1>4, <1>5, <1>6
  <2>3. TradeOk(t, date)
    BY <1>1, <2>2 DEF TradeOk
  <2>4. \A k : HeldBy(t, k) <= HeldBy(t, k)
    BY <1>2, HeldByNat
  <2>5. x[1].time <= date
    BY <1>5, <2>2
  <2>6. <<t>> # <<>>
    OBVIOUS
  <2> QED BY <1>1, <2>1, <2>3, <2>4, <2>5, <2>6
<1>7. CASE ~(x[l].time <= date) /\ x[1].time < date
  <2>1. ReverseTo(t, date) = <<Rebuilt(t, date)>>
    BY <1>2, <1>3, <1>5, <1>7 DEF ReverseTo
  <2>2. PICK r : r = Rebuilt(t, date)
    OBVIOUS
  <2>3. /\ TradeOk(r, date) /\ r.symbol = t.symbol
        /\ Len(r.executions) <= Len(t.executions)
        /\ \A j \in DOMAIN r.executions : r.executions[j] = t.executions[j]
    BY <1>1, <1>7, <2>2, RebuiltOk
  <2>4. r \in Filed /\ 1 \in DOMAIN r.executions
    BY <2>3 DEF TradeOk, Filed
  <2>5. \A k : HeldBy(r, k) <= HeldBy(t, k)
    BY <1>2, <2>3, <2>4, HeldByFirst
  <2>6. ~\A j \in DOMAIN t.executions : t.executions[j].time <= date
    BY <1>1, <1>5, <1>7
  <2>7. x[1].time <= date /\ <<r>> # <<>>
    BY <1>2, <1>5, <1>7
  <2>8. r.executions[1] = t.executions[1]
    BY <2>3, <2>4
  <2>9. \E u : /\ ReverseTo(t, date) = <<u>>
               /\ TradeOk(u, date) /\ u.symbol = t.symbol
               /\ u.executions[1] = t.executions[1]
               /\ \A k : HeldBy(u, k) <= HeldBy(t, k)
               /\ \/ u = t
                  \/ ~\A j \in DOMAIN t.executions : t.executions[j].time <= date
    BY <2>1, <2>2, <2>3, <2>5, <2>6, <2>8
  <2> QED BY <1>1, <2>1, <2>2, <2>6, <2>7, <2>9
<1>8. CASE ~(x[l].time <= date) /\ ~(x[1].time < date)
  <2>1. ReverseTo(t, date) = <<>>
    BY <1>2, <1>3, <1>5, <1>8 DEF ReverseTo
  <2>2. ~\A j \in DOMAIN t.executions : t.executions[j].time <= date
    BY <1>1, <1>5, <1>8
  <2>3. date <= t.executions[1].time
    BY <1>1, <1>2, <1>5, <1>8
  <2> QED BY <2>1, <2>2, <2>3
<1> QED BY <1>6, <1>7, <1>8

\* The trades after reverse_to are what they were until the date.
LEMMA ReversedOk ==
  ASSUME NEW b, NEW n \in Int, BookOk(b, n), NEW date \in Int
  PROVE  /\ BookOk(Reversed(b, date), date)
         /\ \A k : Held(Reversed(b, date), k) <= Held(b, k)
         /\ \A i \in DOMAIN b :
               (\A j \in DOMAIN b[i].executions : b[i].executions[j].time <= date)
               => \E p \in DOMAIN Reversed(b, date) : Reversed(b, date)[p] = b[i]
<1>1. PICK l \in Nat : l = Len(b) /\ DOMAIN b = 1 .. l
  BY DEF BookOk
<1>2. b \in Seq(Filed) /\ \A i \in 1 .. l : TradeOk(b[i], n) /\ b[i] \in Filed
  BY <1>1 DEF BookOk, TradeOk
<1>3. PICK ss : ss = [i \in DOMAIN b |-> ReverseTo(b[i], date)]
  OBVIOUS
<1> DEFINE Whole(t) == \A j \in DOMAIN t.executions : t.executions[j].time <= date
<1>4. \A i \in 1 .. l :
         /\ ss[i] = ReverseTo(b[i], date)
         /\ Whole(b[i]) => ss[i] = <<b[i]>>
         /\ ss[i] # <<>> =>
              /\ b[i].executions[1].time <= date
              /\ \E r : /\ ss[i] = <<r>>
                        /\ TradeOk(r, date) /\ r.symbol = b[i].symbol
                        /\ r.executions[1] = b[i].executions[1]
                        /\ \A k : HeldBy(r, k) <= HeldBy(b[i], k)
                        /\ (r = b[i] \/ ~Whole(b[i]))
  <2> SUFFICES ASSUME NEW i \in 1 .. l
               PROVE  /\ ss[i] = ReverseTo(b[i], date)
                      /\ Whole(b[i]) => ss[i] = <<b[i]>>
                      /\ ss[i] # <<>> =>
                           /\ b[i].executions[1].time <= date
                           /\ \E r : /\ ss[i] = <<r>>
                                     /\ TradeOk(r, date) /\ r.symbol = b[i].symbol
                                     /\ r.executions[1] = b[i].executions[1]
                                     /\ \A k : HeldBy(r, k) <= HeldBy(b[i], k)
                                     /\ (r = b[i] \/ ~Whole(b[i]))
    OBVIOUS
  <2>1. PICK t : t = b[i]
    OBVIOUS
  <2>2. TradeOk(t, n) /\ ss[i] = ReverseTo(t, date)
    BY <1>1, <1>2, <1>3, <2>1
  <2> QED BY <2>1, <2>2, ReverseToIs
<1> HIDE DEF Whole
<1>5. ss \in Seq(Seq(Filed)) /\ Len(ss) = l
  <2>1. ASSUME NEW i \in 1 .. l PROVE ss[i] \in Seq(Filed)
    <3>1. CASE ss[i] = <<>>
      BY <3>1
    <3>2. CASE ss[i] # <<>>
      <4>1. PICK r : ss[i] = <<r>> /\ TradeOk(r, date)
        BY <1>4, <3>2
      <4>2. r \in Filed
        BY <4>1 DEF TradeOk
      <4> QED BY <4>1, <4>2
    <3> QED BY <3>1, <3>2
  <2> QED BY <1>1, <1>3, <2>1
<1>6. PICK f : /\ f[0] = <<>>
               /\ \A i \in 1 .. Len(ss) : f[i] = f[i - 1] \o ss[i]
               /\ \A i \in 0 .. Len(ss) : f[i] \in Seq(Filed)
               /\ FlattenSeq(ss) = f[Len(ss)]
  BY <1>5, FlattenIs
<1>7. Reversed(b, date) = f[l]
  BY <1>3, <1>5, <1>6 DEF Reversed
<1> DEFINE H(k) == [i \in DOMAIN b |-> HeldBy(b[i], k)]
           Good(c, i) ==
             /\ BookOk(c, date)
             /\ \A k : Held(c, k) <= Sums(H(k), l)[i]
             /\ \A p \in DOMAIN c : \E a \in 1 .. i :
                   ss[a] = <<c[p]>> /\ c[p].symbol = b[a].symbol
             /\ \A a \in 1 .. i : Whole(b[a]) => \E p \in DOMAIN c : c[p] = b[a]
<1>8. Good(<<>>, 0)
  <2>1. BookOk(<<>>, date)
    BY DEF BookOk
  <2>2. \A k : Held(<<>>, k) = 0
    <3>1. <<>> \in Seq(Filed)
      OBVIOUS
    <3>2. DOMAIN <<>> = {}
      OBVIOUS
    <3> QED BY <3>1, <3>2, HeldNone
  <2>3. \A k : Sums(H(k), l)[0] = 0
    <3> HIDE DEF H
    <3>1. 0 \in 0 .. l
      OBVIOUS
    <3> QED BY <3>1, SumsAre
  <2> HIDE DEF H
  <2> QED BY <2>1, <2>2, <2>3
<1>9. ASSUME NEW i \in 1 .. l, NEW c \in Seq(Filed), Good(c, i - 1)
      PROVE  Good(c \o ss[i], i)
  <2>0. i - 1 \in 0 .. l /\ i \in 0 .. l /\ b[i] \in Filed
    BY <1>2
  <2>1. \A k : /\ Sums(H(k), l)[i] = Sums(H(k), l)[i - 1] + HeldBy(b[i], k)
               /\ Sums(H(k), l)[i - 1] \in Int /\ HeldBy(b[i], k) \in Nat
               /\ Held(c, k) \in Nat
    <3> SUFFICES ASSUME NEW k
                 PROVE  /\ Sums(H(k), l)[i] = Sums(H(k), l)[i - 1] + HeldBy(b[i], k)
                        /\ Sums(H(k), l)[i - 1] \in Int /\ HeldBy(b[i], k) \in Nat
                        /\ Held(c, k) \in Nat
      OBVIOUS
    <3>1. PICK h : h = H(k)
      OBVIOUS
    <3>2. \A a \in 1 .. l : h[a] = HeldBy(b[a], k)
      BY <1>1, <3>1
    <3>3. \A a \in 1 .. l : h[a] \in Int
      <4> SUFFICES ASSUME NEW a \in 1 .. l PROVE h[a] \in Int
        OBVIOUS
      <4>1. HeldBy(b[a], k) \in Nat
        BY <1>2, HeldByNat
      <4> QED BY <3>2, <4>1
    <3>4. Sums(h, l)[i] = Sums(h, l)[i - 1] + h[i]
      BY <2>0, SumsAre
    <3>5. Sums(h, l)[i - 1] \in Int
      BY <2>0, <3>3, SumsInt
    <3> HIDE DEF H
    <3> QED BY <2>0, <3>1, <3>2, <3>4, <3>5, HeldByNat, HeldNat
  <2> HIDE DEF H
  <2>2. CASE ss[i] = <<>>
    <3>1. c \o ss[i] = c
      BY <2>2, ConcatEmptySeq
    <3>2. ~Whole(b[i])
      <4>1. <<b[i]>> # <<>>
        OBVIOUS
      <4> QED BY <1>4, <2>2, <4>1
    <3>3. \A k : Held(c, k) <= Sums(H(k), l)[i]
      BY <1>9, <2>1
    <3>4. \A p \in DOMAIN c : \E a \in 1 .. i :
                   ss[a] = <<c[p]>> /\ c[p].symbol = b[a].symbol
      <4>1. \A a \in 1 .. i - 1 : a \in 1 .. i
        OBVIOUS
      <4> QED BY <1>9, <4>1
    <3>5. \A a \in 1 .. i : Whole(b[a]) => \E p \in DOMAIN c : c[p] = b[a]
      <4> SUFFICES ASSUME NEW a \in 1 .. i, Whole(b[a])
                   PROVE  \E p \in DOMAIN c : c[p] = b[a]
        OBVIOUS
      <4>1. a # i
        BY <3>2
      <4>2. a \in 1 .. i - 1
        BY <4>1
      <4>3. \A u \in 1 .. i - 1 : Whole(b[u]) => \E p \in DOMAIN c : c[p] = b[u]
        BY <1>9
      <4> QED BY <4>2, <4>3
    <3>6. BookOk(c, date)
      BY <1>9
    <3>7. Good(c, i)
      BY <3>3, <3>4, <3>5, <3>6
    <3> HIDE DEF Good
    <3> QED BY <3>1, <3>7
  <2>3. CASE ss[i] # <<>>
    <3>1. PICK r : /\ ss[i] = <<r>>
                   /\ TradeOk(r, date) /\ r.symbol = b[i].symbol
                   /\ r.executions[1] = b[i].executions[1]
                   /\ \A k : HeldBy(r, k) <= HeldBy(b[i], k)
                   /\ (r = b[i] \/ ~Whole(b[i]))
      BY <1>4, <2>3
    <3>2. b[i].executions[1].time <= date /\ r \in Filed /\ b[i].executions[1].time \in Int
      <4>1. 1 \in DOMAIN b[i].executions
        BY <1>2 DEF TradeOk, Filed
      <4>2. TradeOk(b[i], n)
        BY <1>2
      <4>3. b[i].executions[1].time \in Int
        BY <4>1, <4>2, TimesOk
      <4> QED BY <1>4, <2>3, <3>1, <4>3 DEF TradeOk
    <3>3. PICK m \in Nat : m = Len(c) /\ DOMAIN c = 1 .. m
      OBVIOUS
    <3>4. PICK d \in Seq(Filed) : d = Append(c, r)
      BY <3>2, AppendProperties
    <3>5. c \o ss[i] = d
      BY <3>1, <3>2, <3>4
    <3>6. DOMAIN d = 1 .. m + 1 /\ d[m + 1] = r /\ \A p \in 1 .. m : d[p] = c[p]
      BY <3>2, <3>3, <3>4
    <3>7. ASSUME NEW p \in DOMAIN c, c[p].symbol = r.symbol
          PROVE  Follows(c[p], r)
      <4>1. PICK a \in 1 .. i - 1 : ss[a] = <<c[p]>> /\ c[p].symbol = b[a].symbol
        BY <1>9
      <4>2. a \in 1 .. l
        OBVIOUS
      <4>3. Follows(b[a], b[i])
        BY <1>1, <3>1, <3>7, <4>1 DEF BookOk
      <4>4. Whole(b[a])
        <5>1. TradeOk(b[a], n)
          BY <1>2, <4>2
        <5>2. \A j \in DOMAIN b[a].executions :
                b[a].executions[j].time \in Int
                /\ b[a].executions[j].time <= b[i].executions[1].time
          BY <4>3, <5>1, TimesOk DEF Follows
        <5> QED BY <3>2, <5>2 DEF Whole
      <4>5. ss[a] = <<b[a]>>
        BY <1>4, <4>2, <4>4
      <4>6. c[p] = b[a]
        <5>1. <<c[p]>>[1] = c[p] /\ <<b[a]>>[1] = b[a]
          OBVIOUS
        <5> QED BY <4>1, <4>5, <5>1
      <4> QED BY <3>1, <4>3, <4>6 DEF Follows
    <3>8. BookOk(d, date)
      BY <1>9, <3>1, <3>4, <3>7, AppendOk
    <3>9. \A k : Held(d, k) <= Sums(H(k), l)[i]
      <4> SUFFICES ASSUME NEW k PROVE Held(d, k) <= Sums(H(k), l)[i]
        OBVIOUS
      <4>1. Held(d, k) = Held(c, k) + HeldBy(r, k)
        BY <3>2, <3>4, HeldAppend
      <4>2. HeldBy(r, k) <= HeldBy(b[i], k) /\ HeldBy(r, k) \in Nat
        BY <3>1, <3>2, HeldByNat
      <4>3. Held(c, k) <= Sums(H(k), l)[i - 1]
        BY <1>9
      <4> QED BY <2>1, <4>1, <4>2, <4>3
    <3>10. ASSUME NEW p \in DOMAIN d
           PROVE  \E a \in 1 .. i : ss[a] = <<d[p]>> /\ d[p].symbol = b[a].symbol
      <4>1. CASE p = m + 1
        <5>1. i \in 1 .. i
          OBVIOUS
        <5> QED BY <3>1, <3>6, <4>1, <5>1
      <4>2. CASE p # m + 1
        <5>1. p \in DOMAIN c /\ d[p] = c[p]
          BY <3>3, <3>6, <4>2
        <5>2. PICK a \in 1 .. i - 1 : ss[a] = <<c[p]>> /\ c[p].symbol = b[a].symbol
          BY <1>9, <5>1
        <5>3. a \in 1 .. i
          OBVIOUS
        <5> QED BY <5>1, <5>2, <5>3
      <4> QED BY <4>1, <4>2
    <3>11. ASSUME NEW a \in 1 .. i, Whole(b[a])
           PROVE  \E p \in DOMAIN d : d[p] = b[a]
      <4>1. CASE a = i
        <5>1. r = b[i] /\ m + 1 \in DOMAIN d
          BY <3>1, <3>6, <3>11, <4>1
        <5> QED BY <3>6, <4>1, <5>1
      <4>2. CASE a # i
        <5>1. a \in 1 .. i - 1
          BY <4>2
        <5>2. PICK p \in DOMAIN c : c[p] = b[a]
          BY <1>9, <3>11, <5>1
        <5>3. p \in DOMAIN d /\ d[p] = b[a]
          BY <3>3, <3>6, <5>2
        <5> QED BY <5>3
      <4> QED BY <4>1, <4>2
    <3>12. Good(d, i)
      BY <3>8, <3>9, <3>10, <3>11
    <3> HIDE DEF Good
    <3> QED BY <3>5, <3>12
  <2> QED BY <2>2, <2>3
<1> HIDE DEF Good
<1> DEFINE A == {i \in 0 .. l : ~Good(f[i], i)}
<1>10. ASSUME NEW i \in A PROVE i # 0 /\ i - 1 \in A
  <2>1. i # 0
    BY <1>6, <1>8
  <2>2. i \in 1 .. l /\ i - 1 \in 0 .. l
    BY <2>1
  <2>3. f[i - 1] \in Seq(Filed) /\ f[i] = f[i - 1] \o ss[i]
    BY <1>5, <1>6, <2>2
  <2>4. Good(f[i - 1], i - 1) => Good(f[i], i)
    BY <1>9, <2>2, <2>3
  <2> QED BY <2>1, <2>2, <2>4
<1> HIDE DEF A
<1>11. A \in SUBSET Nat
  BY DEF A
<1>12. A = {}
  BY <1>10, <1>11, Descent
<1>13. PICK c : c = Reversed(b, date) /\ Good(c, l)
  BY <1>7, <1>12 DEF A
<1>14. \A k : Held(b, k) = Sums(H(k), l)[l]
  BY <1>1, <1>2, HeldIs DEF SumOf
<1>15. /\ BookOk(c, date)
       /\ \A k : Held(c, k) <= Held(b, k)
       /\ \A a \in 1 .. l : Whole(b[a]) => \E p \in DOMAIN c : c[p] = b[a]
  <2> HIDE DEF H
  <2> QED BY <1>13, <1>14 DEF Good
<1> QED BY <1>1, <1>13, <1>15 DEF Whole

-----------------------------------------------------------------------------
(***************************************************************************)
(* Executions added one after the other.                                   *)
(***************************************************************************)
IsAdding(f, b, execs, n) ==
    f = [k \in 0 .. n |-> IF k = 0 THEN {b}
                          ELSE UNION {BooksAfter(c, execs[k]) : c \in f[k - 1]}]

LEMMA AddingExists ==
  ASSUME NEW b, NEW execs, NEW n \in Nat
  PROVE  \E f : IsAdding(f, b, execs, n)
<1> DEFINE A == {k \in Nat : ~\E f : IsAdding(f, b, execs, k)}
           More(x, k) == UNION {BooksAfter(c, execs[k]) : c \in x}
<1>1. ASSUME NEW k \in A PROVE k # 0 /\ k - 1 \in A
  <2>1. k # 0
    <3> SUFFICES ASSUME k = 0 PROVE FALSE
      OBVIOUS
    <3>1. PICK f : f = [i \in 0 .. 0 |-> {b}]
      OBVIOUS
    <3>2. IsAdding(f, b, execs, 0)
      BY <3>1 DEF IsAdding
    <3> QED BY <3>2
  <2>2. ASSUME k - 1 \notin A PROVE FALSE
    <3>1. k - 1 \in Nat
      BY <2>1
    <3>2. PICK f : IsAdding(f, b, execs, k - 1)
      BY <2>2, <3>1
    <3>3. f = [i \in 0 .. k - 1 |-> IF i = 0 THEN {b} ELSE More(f[i - 1], i)]
      BY <3>2 DEF IsAdding
    <3> HIDE DEF More
    <3>4. PICK g : g = [i \in 0 .. k |-> IF i = k THEN More(f[k - 1], k) ELSE f[i]]
      OBVIOUS
    <3>5. \A i \in 0 .. k - 1 : g[i] = f[i] /\ f[i] = IF i = 0 THEN {b} ELSE More(f[i - 1], i)
      <4>1. \A i \in 0 .. k - 1 : g[i] = f[i]
        BY <2>1, <3>4
      <4>2. \A i \in 0 .. k - 1 : f[i] = IF i = 0 THEN {b} ELSE More(f[i - 1], i)
        BY <3>3
      <4> QED BY <4>1, <4>2
    <3>6. ASSUME NEW i \in 0 .. k PROVE g[i] = IF i = 0 THEN {b} ELSE More(g[i - 1], i)
      <4>1. CASE i = k
        <5>1. g[i] = More(f[k - 1], k) /\ g[k - 1] = f[k - 1]
          BY <2>1, <3>1, <3>4, <3>5, <4>1
        <5> QED BY <2>1, <4>1, <5>1
      <4>2. CASE i # k
        <5>1. i \in 0 .. k - 1 /\ (i # 0 => i - 1 \in 0 .. k - 1)
          BY <4>2
        <5> QED BY <3>5, <5>1
      <4> QED BY <4>1, <4>2
    <3>7. g = [i \in 0 .. k |-> IF i = 0 THEN {b} ELSE More(g[i - 1], i)]
      <4>1. DOMAIN g = 0 .. k /\ g = [i \in DOMAIN g |-> g[i]]
        BY <3>4
      <4> QED BY <3>6, <4>1
    <3>8. IsAdding(g, b, execs, k)
      BY <3>7 DEF IsAdding, More
    <3> QED BY <3>8
  <2> QED BY <2>1, <2>2
<1> HIDE DEF A
<1>2. A \in SUBSET Nat
  BY DEF A
<1>3. A = {}
  BY <1>1, <1>2, Descent
<1> QED BY <1>3 DEF A

LEMMA AddAllIs ==
  ASSUME NEW b, NEW execs \in Seq(Stamped)
  PROVE  \E f : /\ f[0] = {b}
                /\ \A k \in 1 .. Len(execs) : \A c :
                     c \in f[k] <=> \E a \in f[k - 1] : c \in BooksAfter(a, execs[k])
                /\ AddAll(b, execs) = f[Len(execs)]
<1>1. PICK n \in Nat : n = Len(execs)
  OBVIOUS
<1> DEFINE h == CHOOSE f : f = [k \in 0 .. n |-> IF k = 0 THEN {b}
                          ELSE UNION {BooksAfter(c, execs[k]) : c \in f[k - 1]}]
<1>2. IsAdding(h, b, execs, n)
  <2>1. \E f : IsAdding(f, b, execs, n)
    BY AddingExists
  <2> QED BY <2>1 DEF IsAdding
<1>3. AddAll(b, execs) = h[n]
  BY <1>1 DEF AddAll
<1> HIDE DEF h
<1>4. PICK f : IsAdding(f, b, execs, n) /\ AddAll(b, execs) = f[n]
  BY <1>2, <1>3
<1> DEFINE More(x, k) == UNION {BooksAfter(c, execs[k]) : c \in x}
<1>5. f = [k \in 0 .. n |-> IF k = 0 THEN {b} ELSE More(f[k - 1], k)]
  BY <1>4 DEF IsAdding
<1>6. \A x, k, c : c \in More(x, k) <=> \E a \in x : c \in BooksAfter(a, execs[k])
  OBVIOUS
<1> HIDE DEF More
<1>7. f[0] = {b} /\ \A k \in 1 .. n : f[k] = More(f[k - 1], k)
  <2>1. 0 \in 0 .. n /\ \A k \in 1 .. n : k \in 0 .. n /\ k # 0
    OBVIOUS
  <2> QED BY <1>5, <2>1
<1>8. \A k \in 1 .. n : \A c : c \in f[k] <=> \E a \in f[k - 1] : c \in BooksAfter(a, execs[k])
  BY <1>6, <1>7
<1> QED BY <1>1, <1>4, <1>7, <1>8

\* Executions in the order of their times, all of them after what is stored.
Fresh(execs, n) ==
    /\ execs \in Seq(Stamped)
    /\ \A j \in DOMAIN execs : /\ n < execs[j].time
                               /\ \A i \in 1 .. j - 1 : execs[i].time < execs[j].time

LEMMA AddAllOk ==
  ASSUME NEW b, NEW n \in Int, BookOk(b, n), NEW execs, Fresh(execs, n),
         NEW m \in Int, n <= m, \A j \in DOMAIN execs : execs[j].time <= m,
         NEW c \in AddAll(b, execs)
  PROVE  /\ BookOk(c, m)
         /\ \A k : (\A j \in DOMAIN execs : execs[j].time # k) => Held(c, k) = Held(b, k)
         /\ \A j \in DOMAIN execs : Held(c, execs[j].time) = execs[j].qty
         /\ \A i \in DOMAIN b : ~IsOpen(b[i]) => i \in DOMAIN c /\ c[i] = b[i]
<1>1. PICK l \in Nat : l = Len(execs) /\ DOMAIN execs = 1 .. l /\ execs \in Seq(Stamped)
  BY DEF Fresh
<1>2. \A j \in 1 .. l : /\ execs[j] \in Stamped /\ execs[j].time \in Int /\ n < execs[j].time
                        /\ execs[j].qty \in Nat
                        /\ \A i \in 1 .. j - 1 : execs[i].time < execs[j].time
  <2>1. \A j \in 1 .. l : execs[j] \in Stamped
    BY <1>1
  <2>2. \A j \in 1 .. l : execs[j].time \in Int /\ execs[j].qty \in Nat
    BY <2>1, QuantityType DEF Stamped
  <2> QED BY <1>1, <2>1, <2>2 DEF Fresh
<1>3. PICK f : /\ f[0] = {b}
               /\ \A k \in 1 .. l : \A d :
                     d \in f[k] <=> \E a \in f[k - 1] : d \in BooksAfter(a, execs[k])
               /\ AddAll(b, execs) = f[l]
  BY <1>1, AddAllIs
<1> DEFINE T(j) == IF j = 0 THEN n ELSE execs[j].time
           Good(d, j) ==
             /\ BookOk(d, T(j))
             /\ \A k : (\A i \in 1 .. j : execs[i].time # k) => Held(d, k) = Held(b, k)
             /\ \A i \in 1 .. j : Held(d, execs[i].time) = execs[i].qty
             /\ \A i \in DOMAIN b : ~IsOpen(b[i]) => i \in DOMAIN d /\ d[i] = b[i]
           A == {j \in 0 .. l : \E d \in f[j] : ~Good(d, j)}
<1>4. Good(b, 0)
  OBVIOUS
<1>5. ASSUME NEW j \in 1 .. l, NEW a, Good(a, j - 1), NEW d \in BooksAfter(a, execs[j])
      PROVE  Good(d, j)
  <2>1. PICK e \in Stamped : e = execs[j]
    BY <1>2
  <2>2. PICK t \in Int : t = T(j - 1) /\ t < e.time
    <3>1. CASE j = 1
      BY <1>2, <2>1, <3>1
    <3>2. CASE j # 1
      <4>1. j - 1 \in 1 .. l /\ j - 1 \in 1 .. j - 1
        BY <3>2
      <4>2. T(j - 1) = execs[j - 1].time
        BY <3>2
      <4> QED BY <1>2, <2>1, <4>1, <4>2
    <3> QED BY <3>1, <3>2
  <2>3. BookOk(a, t)
    BY <1>5, <2>2
  <2>4. /\ BookOk(d, e.time)
        /\ \A k : Held(d, k) = Held(a, k) + (IF k = e.time THEN e.qty ELSE 0)
        /\ \A i \in DOMAIN a : ~IsOpen(a[i]) => i \in DOMAIN d /\ d[i] = a[i]
    BY <1>5, <2>1, <2>2, <2>3, BookStep
  <2>5. Held(a, e.time) = 0
    BY <1>2, <2>1, <2>2, <2>3, NothingLater
  <2>6. T(j) = e.time
    BY <2>1
  <2>7. /\ \A k : (\A i \in 1 .. j - 1 : execs[i].time # k) => Held(a, k) = Held(b, k)
        /\ \A i \in 1 .. j - 1 : Held(a, execs[i].time) = execs[i].qty
        /\ \A i \in DOMAIN b : ~IsOpen(b[i]) => i \in DOMAIN a /\ a[i] = b[i]
    BY <1>5
  <2>8. \A k : Held(a, k) \in Nat
    BY <2>3, HeldNat DEF BookOk
  <2>9. ASSUME NEW k, \A i \in 1 .. j : execs[i].time # k PROVE Held(d, k) = Held(b, k)
    <3>1. /\ \A i \in 1 .. j - 1 : i \in 1 .. j
          /\ j \in 1 .. j
      OBVIOUS
    <3>2. k # e.time /\ \A i \in 1 .. j - 1 : execs[i].time # k
      BY <2>1, <2>9, <3>1
    <3> QED BY <2>4, <2>7, <2>8, <3>2
  <2>10. ASSUME NEW i \in 1 .. j PROVE Held(d, execs[i].time) = execs[i].qty
    <3>1. CASE i = j
      <4>1. e.qty \in Nat
        BY QuantityType
      <4> QED BY <2>1, <2>4, <2>5, <3>1, <4>1
    <3>2. CASE i # j
      <4>1. i \in 1 .. j - 1
        BY <3>2
      <4>2. execs[i].time # e.time
        <5>1. i \in 1 .. l
          OBVIOUS
        <5> QED BY <1>2, <2>1, <4>1, <5>1
      <4> QED BY <2>4, <2>7, <2>8, <4>1, <4>2
    <3> QED BY <3>1, <3>2
  <2>11. \A i \in DOMAIN b : ~IsOpen(b[i]) => i \in DOMAIN d /\ d[i] = b[i]
    BY <2>4, <2>7
  <2> QED BY <2>4, <2>6, <2>9, <2>10, <2>11
<1> HIDE DEF Good
<1>6. ASSUME NEW j \in A PROVE j # 0 /\ j - 1 \in A
  <2>1. PICK d \in f[j] : ~Good(d, j)
    OBVIOUS
  <2>2. j # 0
    BY <1>3, <1>4, <2>1
  <2>3. j \in 1 .. l /\ j - 1 \in 0 .. l
    BY <2>2
  <2>4. PICK a \in f[j - 1] : d \in BooksAfter(a, execs[j])
    BY <1>3, <2>3
  <2>5. ~Good(a, j - 1)
    BY <1>5, <2>1, <2>3, <2>4
  <2> QED BY <2>2, <2>3, <2>5
<1> HIDE DEF A
<1>7. A \in SUBSET Nat
  BY DEF A
<1>8. A = {}
  BY <1>6, <1>7, Descent
<1>9. Good(c, l)
  BY <1>3, <1>8 DEF A
<1>10. T(l) \in Int /\ T(l) <= m
  BY <1>1, <1>2
<1>11. BookOk(c, m)
  <2>1. BookOk(c, T(l))
    BY <1>9 DEF Good
  <2> HIDE DEF T
  <2> QED BY <1>10, <2>1, BookLater
<1> QED BY <1>1, <1>9, <1>11 DEF Good

-----------------------------------------------------------------------------
(***************************************************************************)
(* What a synchronization fetches, and until when it is valid.             *)
(***************************************************************************)
LEMMA MaxIs ==
  ASSUME NEW n \in Nat, NEW S \in SUBSET (1 .. n), S # {}
  PROVE  Max(S) \in S /\ \A y \in S : y <= Max(S)
<1> DEFINE Top(k) == \E x \in S : x <= k /\ \A y \in S : y <= k => y <= x
           A == {k \in 0 .. n : (\E x \in S : x <= k) /\ ~Top(k)}
<1>1. ASSUME NEW k \in A PROVE k # 0 /\ k - 1 \in A
  <2>1. k # 0
    OBVIOUS
  <2>2. k \notin S
    OBVIOUS
  <2>3. k \in 1 .. n /\ k - 1 \in 0 .. n
    BY <2>1
  <2>4. \A x \in S : x <= k <=> x <= k - 1
    BY <2>2, <2>3
  <2> QED BY <2>1, <2>3, <2>4
<1> HIDE DEF A
<1>2. A \in SUBSET Nat
  BY DEF A
<1>3. A = {}
  BY <1>1, <1>2, Descent
<1>4. Top(n)
  <2>1. PICK x : x \in S
    OBVIOUS
  <2>2. x \in 1 .. n /\ x <= n /\ n \in 0 .. n
    BY <2>1
  <2>3. \E y \in S : y <= n
    BY <2>1, <2>2
  <2> HIDE DEF Top
  <2> QED BY <1>3, <2>2, <2>3 DEF A
<1>5. PICK x \in S : \A y \in S : y <= x
  BY <1>4
<1>6. \A y \in S : x >= y
  BY <1>5
<1>7. PICK m : m = Max(S)
  OBVIOUS
<1>8. m \in S /\ \A y \in S : m >= y
  BY <1>6, <1>7 DEF Max
<1>9. \A y \in S : y <= m
  BY <1>8
<1> QED BY <1>7, <1>8, <1>9

\* The executions after a time, of executions in the order of their times.
LEMMA AfterFresh ==
  ASSUME NEW m \in Int, NEW execs, Fresh(execs, m), NEW t \in Int
  PROVE  /\ Fresh(After(execs, t), t)
         /\ \A j \in DOMAIN After(execs, t) : \E p \in DOMAIN execs :
               After(execs, t)[j] = execs[p]
<1>1. PICK l \in Nat : l = Len(execs) /\ DOMAIN execs = 1 .. l /\ execs \in Seq(Stamped)
  BY DEF Fresh
<1>2. PICK K : K = {k \in DOMAIN execs : execs[k].time > t}
  OBVIOUS
<1>3. PICK r \in Seq(Stamped) : r = After(execs, t) /\ r = Chosen(execs, K)
  BY <1>1, <1>2, ChosenIs DEF After
<1>4. PICK p : \A j \in DOMAIN r :
               /\ p[j] \in DOMAIN execs /\ p[j] \in K
               /\ r[j] = execs[p[j]]
               /\ \A i \in 1 .. j - 1 : p[i] < p[j]
  BY <1>1, <1>3, ChosenIs
<1>5. ASSUME NEW j \in DOMAIN r
      PROVE  t < r[j].time /\ \A i \in 1 .. j - 1 : r[i].time < r[j].time
  <2>1. r[j].time \in Int /\ r[j].time > t
    <3>1. r[j] \in Stamped
      BY <1>3
    <3>2. r[j].time \in Int
      BY <3>1 DEF Stamped
    <3> QED BY <1>2, <1>4, <3>2
  <2>2. ASSUME NEW i \in 1 .. j - 1 PROVE r[i].time < r[j].time
    <3>1. i \in DOMAIN r
      BY <1>3
    <3>2. p[i] \in 1 .. l /\ p[j] \in 1 .. l /\ p[i] < p[j]
      BY <1>1, <1>4, <3>1
    <3>3. p[i] \in 1 .. p[j] - 1
      BY <3>2
    <3>4. execs[p[i]].time < execs[p[j]].time
      BY <1>1, <3>2, <3>3 DEF Fresh
    <3> QED BY <1>4, <3>1, <3>4
  <2> QED BY <2>1, <2>2
<1>6. Fresh(r, t)
  BY <1>3, <1>5 DEF Fresh
<1> QED BY <1>3, <1>4, <1>6

LEMMA ReverseType ==
  ASSUME NEW S, NEW s \in Seq(S)
  PROVE  Reverse(s) \in Seq(S)
<1>1. PICK n \in Nat : n = Len(s)
  OBVIOUS
<1>2. \A i \in 1 .. n : n - i + 1 \in 1 .. n /\ s[n - i + 1] \in S
  <2>1. \A i \in 1 .. n : n - i + 1 \in 1 .. n
    OBVIOUS
  <2> QED BY <1>1, <2>1
<1>3. Reverse(s) = [i \in 1 .. n |-> s[n - i + 1]]
  BY <1>1 DEF Reverse
<1> QED BY <1>2, <1>3

LEMMA ChosenTyped ==
  ASSUME NEW S, NEW R, NEW s \in Seq(S), NEW K, \A k \in DOMAIN s \cap K : s[k] \in R
  PROVE  Chosen(s, K) \in Seq(R)
<1>1. PICK r \in Seq(S) : r = Chosen(s, K)
  BY ChosenIs
<1>2. \A j \in DOMAIN r : \E q \in DOMAIN s \cap K : r[j] = s[q]
  BY <1>1, ChosenIs
<1>3. \A j \in 1 .. Len(r) : r[j] \in R
  BY <1>2
<1>4. r \in Seq(R)
  BY <1>3
<1> QED BY <1>1, <1>4

LEMMA PiecesTime ==
  ASSUME NEW b \in Seq(Filed), NEW k
  PROVE  Pieces(b, k) \in Seq({e \in Stamped : e.time = k})
<1>1. PICK R : R = {e \in Stamped : e.time = k}
  OBVIOUS
<1>2. PICK ss : ss = [i \in DOMAIN b |-> At(b[i].executions, k)]
  OBVIOUS
<1>3. Len(b) \in Nat /\ DOMAIN b = 1 .. Len(b) /\ \A i \in DOMAIN b : b[i] \in Filed
  OBVIOUS
<1>4. ASSUME NEW i \in DOMAIN b PROVE At(b[i].executions, k) \in Seq(R)
  <2>1. PICK x \in Seq(Stamped) : x = b[i].executions
    BY <1>3 DEF Filed
  <2>2. PICK K : K = {j \in DOMAIN x : x[j].time = k}
    OBVIOUS
  <2>3. \A j \in DOMAIN x \cap K : x[j] \in R
    BY <1>1, <2>2
  <2>4. Chosen(x, K) \in Seq(R)
    BY <2>3, ChosenTyped
  <2> QED BY <2>1, <2>2, <2>4 DEF At
<1>5. ss \in Seq(Seq(R))
  BY <1>2, <1>3, <1>4
<1> QED BY <1>1, <1>2, <1>5, FlattenSeqType DEF Pieces

\* The stored executions of one time, in the order the query returns them.
Rows(b, k, up) == IF up THEN Reverse(Pieces(b, k)) ELSE Pieces(b, k)

LEMMA RowsTime ==
  ASSUME NEW b \in Seq(Filed), NEW k, NEW up
  PROVE  Rows(b, k, up) \in Seq({e \in Stamped : e.time = k})
<1>1. PICK R : R = {e \in Stamped : e.time = k}
  OBVIOUS
<1>2. Pieces(b, k) \in Seq(R)
  BY <1>1, PiecesTime
<1> QED BY <1>1, <1>2, ReverseType DEF Rows

LEMMA CheckIs ==
  ASSUME NEW b, NEW t, NEW up
  PROVE  CheckExecutions(b, t, up) = After(FlattenSeq([k \in 1 .. now |-> Rows(b, k, up)]), t)
BY DEF CheckExecutions, Rows

\* The stored executions are found after the time asked for, and until now.
LEMMA ChecksOk ==
  ASSUME NEW b \in Seq(Filed), now \in Nat, NEW t \in Int, NEW up
  PROVE  /\ CheckExecutions(b, t, up) \in Seq(Stamped)
         /\ \A j \in DOMAIN CheckExecutions(b, t, up) :
               /\ CheckExecutions(b, t, up)[j].time > t
               /\ CheckExecutions(b, t, up)[j].time <= now
<1>1. PICK R : R = {e \in Stamped : e.time <= now}
  OBVIOUS
<1>2. PICK ss : ss = [k \in 1 .. now |-> Rows(b, k, up)]
  OBVIOUS
<1>3. ASSUME NEW k \in 1 .. now PROVE Rows(b, k, up) \in Seq(R)
  <2>1. {e \in Stamped : e.time = k} \subseteq R
    BY <1>1
  <2>2. Rows(b, k, up) \in Seq({e \in Stamped : e.time = k})
    BY RowsTime
  <2>3. PICK s : s = Rows(b, k, up)
    OBVIOUS
  <2>4. PICK Q : Q = {e \in Stamped : e.time = k}
    OBVIOUS
  <2>5. s \in Seq(Q) /\ Q \subseteq R
    BY <2>1, <2>2, <2>3, <2>4
  <2>6. s \in Seq(R)
    BY <2>5
  <2> QED BY <2>3, <2>6
<1>4. ss \in Seq(Seq(R))
  BY <1>2, <1>3
<1>5. PICK x \in Seq(R) : x = FlattenSeq(ss)
  BY <1>4, FlattenSeqType
<1>6. PICK K : K = {k \in DOMAIN x : x[k].time > t}
  OBVIOUS
<1>7. PICK S : S = {e \in R : e.time > t}
  OBVIOUS
<1>8. \A k \in DOMAIN x \cap K : x[k] \in S
  BY <1>6, <1>7
<1>9. PICK r \in Seq(S) : r = Chosen(x, K)
  BY <1>8, ChosenTyped
<1>10. r = CheckExecutions(b, t, up)
  BY <1>2, <1>5, <1>6, <1>9, CheckIs DEF After
<1>11. r \in Seq(Stamped) /\ \A j \in DOMAIN r : r[j].time > t /\ r[j].time <= now
  BY <1>1, <1>7
<1> QED BY <1>10, <1>11

LEMMA ValidUntilOk ==
  ASSUME NEW execs \in Seq(Stamped), NEW checks \in Seq(Stamped), NEW t \in Int, NEW m \in Int,
         t <= m,
         \A j \in DOMAIN execs : execs[j].time > t /\ execs[j].time <= m,
         \A j \in DOMAIN checks : checks[j].time > t /\ checks[j].time <= m
  PROVE  /\ ValidUntil(execs, checks, t) \in Int
         /\ t <= ValidUntil(execs, checks, t)
         /\ ValidUntil(execs, checks, t) <= m
<1>1. PICK longest \in Seq(Stamped) :
        /\ longest = IF Len(execs) > Len(checks) THEN execs ELSE checks
        /\ DOMAIN longest \subseteq DOMAIN execs \cup DOMAIN checks
  BY Z3
<1>2. PICK equal : equal = {n \in DOMAIN longest : /\ Gross(Upto(execs, n)) = Gross(Upto(checks, n))
                                                   /\ Gross(Upto(execs, n)) # 0}
  OBVIOUS
<1>3. ValidUntil(execs, checks, t) =
        IF equal = {} THEN t
        ELSE IF Max(equal) \in DOMAIN execs THEN execs[Max(equal)].time
             ELSE checks[Max(equal)].time
  BY <1>1, <1>2 DEF ValidUntil
<1>4. equal # {} => Max(equal) \in DOMAIN execs \cup DOMAIN checks
  <2>1. PICK n \in Nat : n = Len(longest) /\ DOMAIN longest = 1 .. n
    OBVIOUS
  <2>2. equal \in SUBSET (1 .. n)
    BY <1>2, <2>1
  <2>3. equal # {} => Max(equal) \in equal
    BY <2>2, MaxIs
  <2> QED BY <1>1, <2>1, <2>2, <2>3
<1>5. /\ \A j \in DOMAIN execs : execs[j].time \in Int
      /\ \A j \in DOMAIN checks : checks[j].time \in Int
  <2>1. /\ \A j \in DOMAIN execs : execs[j] \in Stamped
        /\ \A j \in DOMAIN checks : checks[j] \in Stamped
    OBVIOUS
  <2> QED BY <2>1 DEF Stamped
<1>6. CASE equal = {}
  BY <1>3, <1>6
<1>7. CASE equal # {}
  <2>1. PICK n : n = Max(equal)
    OBVIOUS
  <2>2. CASE n \in DOMAIN execs
    BY <1>3, <1>5, <1>7, <2>1, <2>2
  <2>3. CASE n \notin DOMAIN execs
    BY <1>3, <1>4, <1>5, <1>7, <2>1, <2>3
  <2> QED BY <2>2, <2>3
<1> QED BY <1>6, <1>7

-----------------------------------------------------------------------------
(***************************************************************************)
(* The inductive invariant.  Time is counted in executions of the account, *)
(* the stored trades follow each other until now and hold no execution     *)
(* twice, and a synchronization that has fetched knows until when the      *)
(* trades in its session are valid.                                        *)
(***************************************************************************)
Effect == [e \in Stamped |-> EffectiveQty(e)]

LEMMA SignedIs ==
  ASSUME NEW s \in Seq(Stamped)
  PROVE  Signed(s) = Total(Effect, s) /\ Signed(s) \in Int
<1>1. \A e \in Stamped : EffectiveQty(e) \in Int
  <2> SUFFICES ASSUME NEW e \in Stamped PROVE EffectiveQty(e) \in Int
    OBVIOUS
  <2>1. e.qty \in Int
    BY QuantityType
  <2> QED BY <2>1 DEF EffectiveQty, Sign
<1>2. Effect \in [Stamped -> Int] /\ \A e \in Stamped : Effect[e] = EffectiveQty(e)
  BY <1>1 DEF Effect
<1>3. DOMAIN s = 1 .. Len(s) /\ \A k \in DOMAIN s : s[k] \in Stamped
  OBVIOUS
<1>4. [k \in DOMAIN s |-> EffectiveQty(s[k])] = [k \in DOMAIN s |-> Effect[s[k]]]
  BY <1>2, <1>3
<1>5. Signed(s) = Total(Effect, s)
  BY <1>4 DEF Signed, Total
<1> QED BY <1>2, <1>5, TotalInt

Clock ==
    /\ now \in Nat
    /\ now = Len(history)
    /\ history \in Seq(Stamped)
    /\ \A k \in 1 .. now : history[k].time = k

Shape ==
    /\ since \in {Never} \cup 0 .. now
    /\ state \in {"OK", "SYNCHRONIZING"}
    /\ phase \in Phases
    /\ should \in [Symbols -> Int]
    /\ quiet \in BOOLEAN
    /\ stops \in 0 .. MaxStops

BookKept ==
    /\ BookOk(book, now)
    /\ \A k \in 1 .. now : Held(book, k) <= history[k].qty

ValidTo(v) ==
    /\ since <= v /\ v <= now
    /\ work = Reversed(book, v)
    /\ Fresh(fetched, v)
    /\ \A j \in DOMAIN fetched : /\ fetched[j].time \in 1 .. now
                                 /\ fetched[j] = history[fetched[j].time]

Inv ==
    /\ Clock
    /\ Shape
    /\ BookKept
    /\ phase \in {"reversed", "positioned"} => \E v \in Int : ValidTo(v)

LEMMA InitInv == Init => Inv
<1> SUFFICES ASSUME Init PROVE Inv
  OBVIOUS
<1>1. now = 0 /\ history = <<>> /\ book = <<>>
  BY DEF Init
<1>2. Clock
  BY <1>1 DEF Clock
<1>3. Shape
  BY <1>1, ResyncAssumption DEF Init, Shape, NoPosition, Phases
<1>4. BookOk(<<>>, 0)
  BY DEF BookOk
<1>5. BookKept
  BY <1>1, <1>4 DEF BookKept
<1> QED BY <1>2, <1>3, <1>5 DEF Inv, Init

LEMMA SinceInt == Clock /\ Shape => since \in Int /\ since <= now /\ now \in Int
BY DEF Clock, Shape, Never

LEMMA ExecutionIs ==
  ASSUME NEW n \in Nat, n = now, NEW s \in Symbols, NEW side \in Sides, NEW qty \in Qtys
  PROVE  Execution(s, side, qty) \in Stamped /\ Execution(s, side, qty).time = n + 1
<1>1. PICK e : e = Execution(s, side, qty)
  OBVIOUS
<1>2. qty \in Pos /\ 1 \in Int /\ 0 \in Int /\ n + 1 \in Int
  BY ResyncAssumption
<1>3. e = [symbol |-> s, side |-> side, type |-> "trade", qty |-> qty, price |-> 1,
           commission |-> 0, realized |-> Unset, reduce |-> TRUE, tagged |-> TRUE, time |-> n + 1]
  BY <1>1 DEF Execution
<1>4. e \in Stamped /\ e.time = n + 1
  BY <1>2, <1>3 DEF Stamped
<1> QED BY <1>1, <1>4

LEMMA FillInv ==
  ASSUME Inv, NEW s \in Symbols, NEW side \in Sides, NEW qty \in Qtys, Fill(s, side, qty)
  PROVE  Inv'
<1>1. PICK n \in Nat : n = now /\ n = Len(history) /\ history \in Seq(Stamped)
  BY DEF Inv, Clock
<1>2. PICK e : e = Execution(s, side, qty)
  OBVIOUS
<1>3. e \in Stamped /\ e.time = n + 1
  BY <1>1, <1>2, ExecutionIs
<1>4. now' = n + 1 /\ history' = Append(history, e)
  BY <1>1, <1>2 DEF Fill
<1>5. /\ history' \in Seq(Stamped) /\ Len(history') = n + 1
      /\ history'[n + 1] = e /\ \A k \in 1 .. n : history'[k] = history[k]
  BY <1>1, <1>3, <1>4
<1>6. \A k \in 1 .. n + 1 : k \in 1 .. n \/ k = n + 1
  OBVIOUS
<1>7. Clock'
  BY <1>1, <1>3, <1>4, <1>5, <1>6 DEF Inv, Clock
<1>8. Shape'
  <2>1. {Never} \cup 0 .. n \subseteq {Never} \cup 0 .. n + 1
    OBVIOUS
  <2>2. UNCHANGED <<since, state, should, phase, stops>> /\ quiet' = FALSE
    BY DEF Fill, session
  <2> QED BY <1>1, <1>4, <2>1, <2>2 DEF Inv, Shape
<1>9. BookOk(book, n) /\ \A k \in 1 .. n : Held(book, k) <= history[k].qty
  BY <1>1 DEF Inv, BookKept
<1>10. \A k \in 1 .. n + 1 : Held(book, k) \in Nat
  BY <1>9, HeldNat DEF BookOk
<1>11. Held(book, n + 1) = 0
  <2>1. PICK m \in Int : m = n + 1
    BY <1>1
  <2> QED BY <1>9, <2>1, NothingLater
<1>12. e.qty \in Nat
  BY <1>3, QuantityType
<1>13. CASE book' = book
  <2>1. BookOk(book, n + 1)
    <3>1. PICK m \in Int : m = n + 1
      BY <1>1
    <3> QED BY <1>9, <3>1, BookLater
  <2>2. BookKept'
    BY <1>4, <1>5, <1>6, <1>9, <1>11, <1>12, <1>13, <2>1 DEF BookKept
  <2>3. ASSUME phase' \in {"reversed", "positioned"} PROVE (\E v \in Int : ValidTo(v))'
    <3>1. phase' = phase /\ UNCHANGED <<since, work, fetched>>
      BY DEF Fill, session
    <3>2. PICK v \in Int : ValidTo(v)
      BY <2>3, <3>1 DEF Inv
    <3>3. \A j \in DOMAIN fetched : /\ fetched[j].time \in 1 .. n + 1
                                    /\ fetched[j] = history'[fetched[j].time]
      BY <1>1, <1>5, <3>2 DEF ValidTo
    <3>4. v <= n + 1 /\ since <= v /\ work = Reversed(book, v) /\ Fresh(fetched, v)
      BY <1>1, <3>2 DEF ValidTo
    <3>5. ValidTo(v)'
      BY <1>4, <1>13, <3>1, <3>3, <3>4 DEF ValidTo
    <3> QED BY <3>5
  <2> QED BY <1>7, <1>8, <2>2, <2>3 DEF Inv
<1>14. CASE phase = "live" /\ book' \in BooksAfter(book, e)
  <2>1. /\ BookOk(book', e.time)
        /\ \A k : Held(book', k) = Held(book, k) + (IF k = e.time THEN e.qty ELSE 0)
    BY <1>3, <1>9, <1>14, BookStep
  <2>2. \A k \in 1 .. n : Held(book', k) <= history'[k].qty
    BY <1>3, <1>5, <1>9, <1>10, <2>1
  <2>3. Held(book', n + 1) <= history'[n + 1].qty
    BY <1>3, <1>5, <1>11, <1>12, <2>1
  <2>4. BookKept'
    BY <1>3, <1>4, <1>6, <2>1, <2>2, <2>3 DEF BookKept
  <2>5. phase' = "live"
    BY <1>14 DEF Fill
  <2> QED BY <1>7, <1>8, <2>4, <2>5 DEF Inv
<1> QED BY <1>2, <1>13, <1>14 DEF Fill

\* What is fetched: executions of the account that the stored trades, as far
\* as they are valid, do not hold.
LEMMA FetchedOk ==
  ASSUME Inv, NEW up \in BOOLEAN, NEW v,
         v = ValidUntil(After(history, since), CheckExecutions(book, since, up), since)
  PROVE  /\ v \in Int /\ since <= v /\ v <= now
         /\ Fresh(After(After(history, since), v), v)
         /\ \A j \in DOMAIN After(After(history, since), v) :
               LET e == After(After(history, since), v)[j]
               IN  e.time \in 1 .. now /\ e = history[e.time]
<1>1. PICK n \in Nat : n = now /\ n = Len(history) /\ history \in Seq(Stamped)
                       /\ DOMAIN history = 1 .. n /\ \A k \in 1 .. n : history[k].time = k
  BY DEF Inv, Clock
<1>2. PICK t \in Int : t = since /\ t <= n
  BY <1>1, SinceInt DEF Inv
<1>3. Fresh(history, 0)
  BY <1>1 DEF Fresh
<1>4. PICK x : x = After(history, t)
  OBVIOUS
<1>5. Fresh(x, t) /\ \A j \in DOMAIN x : \E p \in 1 .. n : x[j] = history[p]
  BY <1>1, <1>3, <1>4, AfterFresh
<1>6. x \in Seq(Stamped) /\ \A j \in DOMAIN x : x[j].time > t /\ x[j].time <= n
  <2>1. \A j \in DOMAIN x : x[j].time \in 1 .. n /\ t < x[j].time
    BY <1>1, <1>5 DEF Fresh
  <2> QED BY <1>5, <2>1 DEF Fresh
<1>7. PICK c : c = CheckExecutions(book, t, up)
  OBVIOUS
<1>8. c \in Seq(Stamped) /\ \A j \in DOMAIN c : c[j].time > t /\ c[j].time <= n
  <2>1. book \in Seq(Filed)
    BY DEF Inv, BookKept, BookOk
  <2> QED BY <1>1, <1>7, <2>1, ChecksOk
<1>9. v = ValidUntil(x, c, t)
  BY <1>2, <1>4, <1>7
<1>10. v \in Int /\ t <= v /\ v <= n
  BY <1>2, <1>6, <1>8, <1>9, ValidUntilOk
<1>11. PICK y : y = After(x, v)
  OBVIOUS
<1>12. Fresh(y, v) /\ \A j \in DOMAIN y : \E p \in DOMAIN x : y[j] = x[p]
  BY <1>2, <1>5, <1>10, <1>11, AfterFresh
<1>13. \A j \in DOMAIN y : y[j].time \in 1 .. n /\ y[j] = history[y[j].time]
  BY <1>1, <1>5, <1>12
<1> QED BY <1>1, <1>2, <1>4, <1>10, <1>11, <1>12, <1>13

LEMMA FetchInv == ASSUME Inv, Fetch PROVE Inv'
<1>1. PICK up \in BOOLEAN : \E v :
        /\ v = ValidUntil(After(history, since), CheckExecutions(book, since, up), since)
        /\ fetched' = After(After(history, since), v)
        /\ work' = Reversed(book, v)
  BY DEF Fetch
<1>2. PICK v :
        /\ v = ValidUntil(After(history, since), CheckExecutions(book, since, up), since)
        /\ fetched' = After(After(history, since), v)
        /\ work' = Reversed(book, v)
  BY <1>1
<1>3. /\ v \in Int /\ since <= v /\ v <= now
      /\ Fresh(fetched', v)
      /\ \A j \in DOMAIN fetched' : /\ fetched'[j].time \in 1 .. now
                                    /\ fetched'[j] = history[fetched'[j].time]
  BY <1>2, FetchedOk
<1>4. UNCHANGED <<history, now, book, since, state, should, quiet, stops>> /\ phase' = "reversed"
  BY DEF Fetch, exchange, stored
<1>5. ValidTo(v)'
  BY <1>2, <1>4, <1>3 DEF ValidTo
<1>6. Clock' /\ Shape' /\ BookKept'
  BY <1>4 DEF Inv, Clock, Shape, BookKept, Phases
<1> QED BY <1>4, <1>5, <1>6, <1>3 DEF Inv

LEMMA PositionsInv == ASSUME Inv, Positions PROVE Inv'
<1>1. UNCHANGED <<history, now, book, since, state, fetched, work, quiet, stops>>
      /\ phase = "reversed" /\ phase' = "positioned"
      /\ should' = [s \in Symbols |-> Signed(OfSymbol(history, s))]
  BY DEF Positions, exchange, stored
<1>2. ASSUME NEW s \in Symbols PROVE Signed(OfSymbol(history, s)) \in Int
  <2>1. OfSymbol(history, s) \in Seq(Stamped)
    BY ChosenIs DEF OfSymbol, Inv, Clock
  <2> QED BY <2>1, SignedIs
<1>3. Shape'
  BY <1>1, <1>2 DEF Inv, Shape, Phases
<1>4. Clock' /\ BookKept'
  BY <1>1 DEF Inv, Clock, BookKept
<1>5. PICK v \in Int : ValidTo(v)
  BY <1>1 DEF Inv
<1>6. ValidTo(v)'
  BY <1>1, <1>5 DEF ValidTo
<1> QED BY <1>3, <1>4, <1>6 DEF Inv

\* Some of the executions in the order of their times are in that order.
LEMMA ChosenFresh ==
  ASSUME NEW m \in Int, NEW execs, Fresh(execs, m), NEW K
  PROVE  /\ Fresh(Chosen(execs, K), m)
         /\ \A j \in DOMAIN Chosen(execs, K) : \E p \in DOMAIN execs :
               Chosen(execs, K)[j] = execs[p]
<1>1. PICK l \in Nat : l = Len(execs) /\ DOMAIN execs = 1 .. l /\ execs \in Seq(Stamped)
  BY DEF Fresh
<1>2. PICK r \in Seq(Stamped) : r = Chosen(execs, K)
  BY <1>1, ChosenIs
<1>3. PICK p : \A j \in DOMAIN r :
               /\ p[j] \in DOMAIN execs /\ p[j] \in K
               /\ r[j] = execs[p[j]]
               /\ \A i \in 1 .. j - 1 : p[i] < p[j]
  BY <1>1, <1>2, ChosenIs
<1>4. ASSUME NEW j \in DOMAIN r
      PROVE  m < r[j].time /\ \A i \in 1 .. j - 1 : r[i].time < r[j].time
  <2>1. m < r[j].time
    BY <1>1, <1>3 DEF Fresh
  <2>2. ASSUME NEW i \in 1 .. j - 1 PROVE r[i].time < r[j].time
    <3>1. i \in DOMAIN r
      BY <1>2
    <3>2. p[i] \in 1 .. l /\ p[j] \in 1 .. l /\ p[i] < p[j]
      BY <1>1, <1>3, <3>1
    <3>3. p[i] \in 1 .. p[j] - 1
      BY <3>2
    <3>4. execs[p[i]].time < execs[p[j]].time
      BY <1>1, <3>2, <3>3 DEF Fresh
    <3> QED BY <1>3, <3>1, <3>4
  <2> QED BY <2>1, <2>2
<1>5. Fresh(r, m)
  BY <1>2, <1>4 DEF Fresh
<1> QED BY <1>2, <1>3, <1>5

\* What a synchronization adds are executions after those the valid trades hold.
LEMMA FinishIs ==
  ASSUME Inv, Finish
  PROVE  \E v \in Int : \E added :
            /\ ValidTo(v)
            /\ Fresh(added, v)
            /\ \A j \in DOMAIN added : \E p \in DOMAIN fetched : added[j] = fetched[p]
            /\ book' \in AddAll(work, added)
<1>1. PICK v \in Int : ValidTo(v)
  BY DEF Inv, Finish
<1>2. PICK K : book' \in AddAll(work, Chosen(fetched, K))
  BY DEF Finish
<1>3. Fresh(fetched, v)
  BY <1>1 DEF ValidTo
<1> QED BY <1>1, <1>2, <1>3, ChosenFresh

LEMMA FinishInv == ASSUME Inv, Finish PROVE Inv'
<1>0. PICK v \in Int : \E added :
            /\ ValidTo(v)
            /\ Fresh(added, v)
            /\ \A j \in DOMAIN added : \E p \in DOMAIN fetched : added[j] = fetched[p]
            /\ book' \in AddAll(work, added)
  BY FinishIs
<1>1. PICK added :
            /\ ValidTo(v)
            /\ Fresh(added, v)
            /\ \A j \in DOMAIN added : \E p \in DOMAIN fetched : added[j] = fetched[p]
            /\ book' \in AddAll(work, added)
  BY <1>0
<1>2. PICK n \in Nat : n = now /\ n = Len(history) /\ history \in Seq(Stamped)
  BY DEF Inv, Clock
<1>3. PICK b : b = work /\ BookOk(b, v) /\ \A k : Held(b, k) <= Held(book, k)
  <2>1. work = Reversed(book, v) /\ BookOk(book, n)
    BY <1>1, <1>2 DEF ValidTo, Inv, BookKept
  <2> QED BY <1>2, <2>1, ReversedOk
<1>4. \A j \in DOMAIN added : added[j].time \in 1 .. n /\ added[j] = history[added[j].time]
  BY <1>1, <1>2 DEF ValidTo
<1>5. v <= n /\ \A j \in DOMAIN added : added[j].time <= n
  BY <1>1, <1>2, <1>4 DEF ValidTo
<1>6. PICK c : c = book' /\ c \in AddAll(b, added)
  BY <1>1, <1>3
<1>7. /\ BookOk(c, n)
      /\ \A k : (\A j \in DOMAIN added : added[j].time # k) => Held(c, k) = Held(b, k)
      /\ \A j \in DOMAIN added : Held(c, added[j].time) = added[j].qty
  BY <1>1, <1>2, <1>3, <1>5, <1>6, AddAllOk
<1>8. ASSUME NEW k \in 1 .. n PROVE Held(c, k) <= history[k].qty
  <2>1. /\ history[k].qty \in Nat /\ Held(b, k) \in Nat /\ Held(book, k) \in Nat
        /\ Held(book, k) <= history[k].qty
    BY <1>2, <1>3, HeldNat, QuantityType DEF BookOk, Inv, BookKept
  <2>2. CASE \E j \in DOMAIN added : added[j].time = k
    BY <1>4, <1>7, <2>1, <2>2
  <2>3. CASE \A j \in DOMAIN added : added[j].time # k
    BY <1>3, <1>7, <2>1, <2>3
  <2> QED BY <2>2, <2>3
<1>9. /\ UNCHANGED <<history, now, quiet, stops>> /\ phase' = "live"
      /\ since' = now /\ state' = "OK" /\ should' = NoPosition
  BY DEF Finish, exchange
<1>10. BookKept'
  BY <1>2, <1>6, <1>7, <1>8, <1>9 DEF BookKept
<1>11. Clock' /\ Shape'
  BY <1>2, <1>9 DEF Inv, Clock, Shape, Phases, NoPosition
<1> QED BY <1>9, <1>10, <1>11 DEF Inv

LEMMA NextInv == Inv /\ [Next]_vars => Inv'
<1> SUFFICES ASSUME Inv, [Next]_vars PROVE Inv'
  OBVIOUS
<1>1. ASSUME NEW s \in Symbols, NEW side \in Sides, NEW qty \in Qtys, Fill(s, side, qty)
      PROVE  Inv'
  BY <1>1, FillInv
<1>2. CASE Begin
  <2>1. UNCHANGED <<history, now, book, since, should, stops>> /\ phase' = "begun"
        /\ state' = "SYNCHRONIZING" /\ quiet' = TRUE
    BY <1>2 DEF Begin, exchange, session
  <2> QED BY <2>1 DEF Inv, Clock, Shape, BookKept, Phases
<1>3. CASE Fetch
  BY <1>3, FetchInv
<1>4. CASE Positions
  BY <1>4, PositionsInv
<1>5. CASE Finish
  BY <1>5, FinishInv
<1>6. CASE Stop
  <2>1. UNCHANGED <<history, now, book, since, state, quiet>> /\ phase' = "down"
        /\ should' = NoPosition /\ stops < MaxStops /\ stops' = stops + 1
    BY <1>6 DEF Stop, exchange, stored
  <2>2. stops' \in 0 .. MaxStops
    BY <2>1, ResyncAssumption DEF Inv, Shape
  <2> QED BY <2>1, <2>2 DEF Inv, Clock, Shape, BookKept, Phases, NoPosition
<1>7. CASE UNCHANGED vars
  <2>1. UNCHANGED <<history, now, book, since, state, fetched, work, should, phase, quiet, stops>>
    BY <1>7 DEF vars, exchange, stored, session
  <2>2. Clock' /\ Shape' /\ BookKept'
    BY <2>1 DEF Inv, Clock, Shape, BookKept
  <2>3. \A v : ValidTo(v)' = ValidTo(v)
    BY <2>1 DEF ValidTo
  <2> QED BY <2>1, <2>2, <2>3 DEF Inv
<1> QED BY <1>1, <1>2, <1>3, <1>4, <1>5, <1>6, <1>7 DEF Next

LEMMA InvHolds == Spec => []Inv
BY InitInv, NextInv, PTL DEF Spec

-----------------------------------------------------------------------------
(***************************************************************************)
(* What the runs check, for every set of symbols and quantities.           *)
(***************************************************************************)

\* Time is counted in executions, trades are never more open than their
\* quantity, and the client's state is one of synchronize_positions.
THEOREM TypeCorrect == Spec => []TypeOK
<1>1. Inv => TypeOK
  <2> SUFFICES ASSUME Inv PROVE TypeOK
    OBVIOUS
  <2>1. now = Len(history) /\ \A k \in DOMAIN history : history[k].time = k
    BY DEF Inv, Clock
  <2>2. ASSUME NEW i \in DOMAIN book
        PROVE  /\ book[i].open_qty \in 0 .. book[i].qty
               /\ book[i].symbol \in Symbols /\ book[i].side \in Sides
    <3>1. book[i] \in Filed /\ book[i].open_qty <= book[i].qty
      BY DEF Inv, BookKept, BookOk, TradeOk
    <3> QED BY <3>1 DEF Filed, Pos
  <2> QED BY <2>1, <2>2 DEF Inv, Shape, TypeOK
<1> QED BY <1>1, InvHolds, PTL

\* Two trades of one symbol are not both open, whatever was lost or reversed.
LEMMA OneIsOpen ==
  ASSUME Inv, NEW s \in Symbols
  PROVE  Cardinality(OpenTrades(s)) <= 1
<1>1. PICK l \in Nat : l = Len(book) /\ DOMAIN book = 1 .. l
  BY DEF Inv, BookKept, BookOk
<1>2. ASSUME NEW i \in OpenTrades(s), NEW j \in OpenTrades(s), i < j PROVE FALSE
  <2>1. i \in 1 .. j - 1 /\ j \in DOMAIN book /\ book[i].symbol = book[j].symbol
    BY <1>1, <1>2 DEF OpenTrades
  <2>2. Follows(book[i], book[j])
    BY <2>1 DEF Inv, BookKept, BookOk
  <2> QED BY <2>2 DEF Follows, OpenTrades
<1>3. \A i \in OpenTrades(s), j \in OpenTrades(s) : i = j
  <2> SUFFICES ASSUME NEW i \in OpenTrades(s), NEW j \in OpenTrades(s), i # j PROVE FALSE
    OBVIOUS
  <2>1. i \in 1 .. l /\ j \in 1 .. l
    BY <1>1 DEF OpenTrades
  <2>2. i < j \/ j < i
    BY <2>1
  <2> QED BY <1>2, <2>2
<1>4. PICK O : O = OpenTrades(s)
  OBVIOUS
<1>5. CASE O = {}
  BY <1>4, <1>5, FS_EmptySet
<1>6. CASE O # {}
  <2>1. PICK i : i \in O
    BY <1>6
  <2>2. O = {i}
    BY <1>3, <1>4, <2>1
  <2>3. Cardinality(O) = 1
    BY <2>2, FS_Singleton
  <2> QED BY <1>4, <2>3
<1> QED BY <1>5, <1>6

\* However often a worker starts, fails and starts again, whatever the
\* websocket loses: no execution of the exchange is stored twice, neither by a
\* synchronization that fetches it again nor by the division between two
\* trades, and no symbol has two open trades.
THEOREM RestartsDoubleNothing == Spec => []NothingDoubled
<1>1. Inv => NothingDoubled
  <2> SUFFICES ASSUME Inv PROVE NothingDoubled
    OBVIOUS
  <2>1. ASSUME NEW k \in DOMAIN history PROVE Recorded(history[k]) <= history[k].qty
    <3>1. k \in 1 .. now /\ history[k].time = k
      BY DEF Inv, Clock
    <3>2. Held(book, k) <= history[k].qty
      BY <3>1 DEF Inv, BookKept
    <3> QED BY <3>1, <3>2 DEF Recorded, Held
  <2> QED BY <2>1, OneIsOpen DEF NothingDoubled, NothingTwice, OneOpenTrade
<1> QED BY <1>1, InvHolds, PTL

\* A closed trade stays where it is when an execution arrives, and in the book
\* when a synchronization reverses later trades.
LEMMA ArchiveStep ==
  ASSUME Inv, [Next]_vars
  PROVE  Archive \subseteq {book'[i] : i \in DOMAIN book'}
<1> SUFFICES ASSUME NEW j \in DOMAIN book, ~IsOpen(book[j]), Last(book[j].executions).time <= since
             PROVE  \E i \in DOMAIN book' : book'[i] = book[j]
  BY DEF Archive
<1>1. CASE book' = book
  BY <1>1
<1>2. ASSUME NEW s \in Symbols, NEW side \in Sides, NEW qty \in Qtys, Fill(s, side, qty),
             book' # book
      PROVE  \E i \in DOMAIN book' : book'[i] = book[j]
  <2>1. PICK n \in Nat : n = now
    BY DEF Inv, Clock
  <2>2. PICK e : e = Execution(s, side, qty)
    OBVIOUS
  <2>3. e \in Stamped /\ e.time = n + 1
    BY <2>1, <2>2, ExecutionIs
  <2>4. book' \in BooksAfter(book, e)
    BY <1>2, <2>2 DEF Fill
  <2>5. BookOk(book, n)
    BY <2>1 DEF Inv, BookKept
  <2>6. j \in DOMAIN book' /\ book'[j] = book[j]
    BY <2>1, <2>3, <2>4, <2>5, BookStep
  <2> QED BY <2>6
<1>3. CASE Finish
  <2>1. PICK v \in Int : \E added :
            /\ ValidTo(v)
            /\ Fresh(added, v)
            /\ \A k \in DOMAIN added : \E p \in DOMAIN fetched : added[k] = fetched[p]
            /\ book' \in AddAll(work, added)
    BY <1>3, FinishIs
  <2>2. PICK added :
            /\ ValidTo(v)
            /\ Fresh(added, v)
            /\ \A k \in DOMAIN added : \E p \in DOMAIN fetched : added[k] = fetched[p]
            /\ book' \in AddAll(work, added)
    BY <2>1
  <2>3. PICK n \in Nat : n = now /\ BookOk(book, n) /\ since \in Int
    BY SinceInt DEF Inv, Clock, BookKept
  <2>4. PICK x \in Seq(Stamped), l \in Nat :
          x = book[j].executions /\ l = Len(x) /\ l # 0 /\ DOMAIN x = 1 .. l
    BY <2>3 DEF BookOk, TradeOk, Filed
  <2>5. ASSUME NEW k \in 1 .. l PROVE x[k].time <= v
    <3>1. TradeOk(book[j], n)
      BY <2>3 DEF BookOk
    <3>2. x[l].time \in Int /\ x[k].time \in Int
      BY <2>3, <2>4, <3>1, TimesOk
    <3>3. x[k].time <= x[l].time
      <4>1. CASE k = l
        BY <3>2, <4>1
      <4>2. CASE k # l
        <5>1. l \in 1 .. l /\ k \in 1 .. l - 1
          BY <2>4, <4>2
        <5>2. x[k].time < x[l].time
          BY <2>4, <3>1, <5>1 DEF TradeOk
        <5> QED BY <3>2, <5>2
      <4> QED BY <4>1, <4>2
    <3>4. x[l].time <= since
      BY <2>4 DEF Last
    <3>5. since <= v
      BY <2>2 DEF ValidTo
    <3> QED BY <2>3, <3>2, <3>3, <3>4, <3>5
  <2>6. PICK b : b = work /\ BookOk(b, v) /\ \E p \in DOMAIN b : b[p] = book[j]
    <3>1. work = Reversed(book, v)
      BY <2>2 DEF ValidTo
    <3>2. \A k \in DOMAIN book[j].executions : book[j].executions[k].time <= v
      BY <2>4, <2>5
    <3>3. BookOk(Reversed(book, v), v)
      BY <2>3, ReversedOk
    <3>4. \A i \in DOMAIN book :
             (\A k \in DOMAIN book[i].executions : book[i].executions[k].time <= v)
             => \E p \in DOMAIN Reversed(book, v) : Reversed(book, v)[p] = book[i]
      BY <2>3, ReversedOk
    <3>5. PICK c : c = Reversed(book, v)
      OBVIOUS
    <3>6. \E p \in DOMAIN c : c[p] = book[j]
      BY <3>2, <3>4, <3>5
    <3> QED BY <3>1, <3>3, <3>5, <3>6
  <2>7. PICK p \in DOMAIN b : b[p] = book[j]
    BY <2>6
  <2>8. v <= n /\ \A k \in DOMAIN added : added[k].time <= n
    BY <2>2, <2>3 DEF ValidTo
  <2>9. book' \in AddAll(b, added)
    BY <2>2, <2>6
  <2>10. p \in DOMAIN book' /\ book'[p] = b[p]
    BY <2>2, <2>3, <2>6, <2>7, <2>8, <2>9, AddAllOk
  <2> QED BY <2>7, <2>10
<1>4. CASE Begin \/ Fetch \/ Positions \/ Stop \/ UNCHANGED vars
  <2>1. book' = book
    BY <1>4 DEF Begin, Fetch, Positions, Stop, vars, stored
  <2> QED BY <2>1
<1> QED BY <1>1, <1>2, <1>3, <1>4 DEF Next

\* No synchronization, however much it reverses, rewrites a trade that was
\* closed before the last one.
THEOREM ArchiveIsKept == Spec => ArchiveIsFinal
<1>1. Inv /\ [Next]_vars => [Archive \subseteq {book'[i] : i \in DOMAIN book'}]_vars
  BY ArchiveStep
<1> QED BY <1>1, InvHolds, PTL DEF Spec, ArchiveIsFinal

-----------------------------------------------------------------------------
(***************************************************************************)
(* A synchronization with nothing missing: what is fetched and what is     *)
(* stored have the same sum, so that the trades are valid until now.       *)
(***************************************************************************)
LEMMA FlattenNone == FlattenSeq(<<>>) = <<>>
BY DEF FlattenSeq

\* What is last in the last part is last in the whole.
LEMMA FlattenLast ==
  ASSUME NEW S, NEW ss \in Seq(Seq(S)), NEW n \in Nat, n = Len(ss), n # 0, ss[n] # <<>>
  PROVE  /\ FlattenSeq(ss) # <<>>
         /\ Last(FlattenSeq(ss)) = Last(ss[n])
<1>1. PICK f : /\ \A i \in 1 .. n : f[i] = f[i - 1] \o ss[i]
               /\ \A i \in 0 .. n : f[i] \in Seq(S)
               /\ FlattenSeq(ss) = f[n]
  BY FlattenIs
<1>2. n \in 1 .. n /\ n - 1 \in 0 .. n
  OBVIOUS
<1>3. PICK a \in Seq(S), b \in Seq(S) : a = f[n - 1] /\ b = ss[n] /\ f[n] = a \o b
  <2>1. f[n - 1] \in Seq(S) /\ ss[n] \in Seq(S)
    BY <1>1, <1>2
  <2> QED BY <1>1, <1>2, <2>1
<1>4. PICK x \in Nat, y \in Nat : x = Len(a) /\ y = Len(b) /\ y # 0
  BY <1>3
<1>5. PICK c \in Seq(S) : c = a \o b
  BY ConcatProperties
<1>6. Len(c) = x + y /\ c[x + y] = b[y]
  BY <1>4, <1>5, ConcatProperties
<1>7. c # <<>> /\ Last(c) = Last(b)
  BY <1>4, <1>6 DEF Last
<1> QED BY <1>1, <1>3, <1>5, <1>7

LEMMA ChosenLast ==
  ASSUME NEW S, NEW s \in Seq(S), s # <<>>, NEW K, Len(s) \in K
  PROVE  Chosen(s, K) # <<>> /\ Last(Chosen(s, K)) = Last(s)
<1>1. PICK n \in Nat : n = Len(s) /\ n # 0 /\ DOMAIN s = 1 .. n /\ n \in 1 .. n
  OBVIOUS
<1>2. PICK ss : ss = [k \in DOMAIN s |-> IF k \in K THEN <<s[k]>> ELSE <<>>]
  OBVIOUS
<1>3. \A k \in 1 .. n : s[k] \in S
  BY <1>1
<1>4. ss \in Seq(Seq(S)) /\ Len(ss) = n /\ ss[n] = <<s[n]>>
  BY <1>1, <1>2, <1>3
<1>5. ss[n] # <<>> /\ Last(ss[n]) = s[n]
  BY <1>4 DEF Last
<1>6. FlattenSeq(ss) # <<>> /\ Last(FlattenSeq(ss)) = s[n]
  BY <1>1, <1>4, <1>5, FlattenLast
<1> QED BY <1>1, <1>2, <1>6 DEF Chosen, Last

\* The order of the members does not change a sum.
LEMMA TotalReversed ==
  ASSUME NEW S, NEW w \in [S -> Int], NEW s \in Seq(S)
  PROVE  Total(w, Reverse(s)) = Total(w, s)
<1> DEFINE A == {n \in Nat : \E q \in Seq(S) : Len(q) = n /\ Total(w, Reverse(q)) # Total(w, q)}
<1>1. ASSUME NEW n \in A PROVE n # 0 /\ n - 1 \in A
  <2>1. PICK q \in Seq(S) : Len(q) = n /\ Total(w, Reverse(q)) # Total(w, q)
    OBVIOUS
  <2>2. Reverse(q) \in Seq(S) /\ Len(Reverse(q)) = n
    BY <2>1, ReverseType DEF Reverse
  <2>3. q # <<>>
    <3> SUFFICES ASSUME q = <<>> PROVE FALSE
      OBVIOUS
    <3>1. PICK p \in Seq(S) : p = Reverse(q)
      BY <2>2
    <3>2. p = q
      BY <2>1, <2>2, <3>1
    <3> QED BY <2>1, <3>1, <3>2
  <2>4. PICK r \in Seq(S), x \in S : q = Append(r, x)
    BY <2>3, SequenceEmptyOrAppend
  <2>5. PICK m \in Nat : m = Len(r) /\ n = m + 1
    BY <2>1, <2>4
  <2>6. q[n] = x /\ \A i \in 1 .. m : q[i] = r[i]
    BY <2>4, <2>5
  <2>7. PICK p \in Seq(S) : p = Reverse(r)
    BY ReverseType
  <2>8. Len(p) = m /\ \A i \in 1 .. m : p[i] = r[m - i + 1]
    BY <2>5, <2>7 DEF Reverse
  <2>9. PICK o \in Seq(S) : o = <<x>> /\ Total(w, o) = w[x]
    <3>1. <<x>> \in Seq(S)
      OBVIOUS
    <3>2. Total(w, <<x>>) = w[x]
      BY TotalOfOne
    <3> QED BY <3>1, <3>2
  <2>10. PICK h \in Seq(S) : h = o \o p
    BY ConcatProperties
  <2>11. Len(h) = n /\ h[1] = x /\ \A i \in 2 .. n : h[i] = p[i - 1]
    BY <2>5, <2>8, <2>10, <2>9
  <2>12. PICK g \in Seq(S) : g = Reverse(q) /\ Len(g) = n /\ \A i \in 1 .. n : g[i] = q[n - i + 1]
    BY <2>1, <2>2 DEF Reverse
  <2>13. ASSUME NEW i \in 1 .. n PROVE g[i] = h[i]
    <3>1. CASE i = 1
      BY <2>6, <2>11, <2>12, <3>1
    <3>2. CASE i # 1
      <4>1. i \in 2 .. n /\ i - 1 \in 1 .. m /\ m - (i - 1) + 1 = n - i + 1 /\ n - i + 1 \in 1 .. m
        BY <2>5, <3>2
      <4> QED BY <2>6, <2>8, <2>11, <2>12, <4>1
    <3> QED BY <3>1, <3>2
  <2>14. g = h
    BY <2>11, <2>12, <2>13, SeqEqual
  <2>15. Total(w, h) = w[x] + Total(w, p)
    BY <2>10, <2>9, TotalConcat
  <2>16. q = r \o o
    BY <2>4, <2>9, AppendIsConcat
  <2>17. Total(w, q) = Total(w, r) + w[x]
    BY <2>9, <2>16, TotalConcat
  <2>18. Total(w, r) \in Int /\ Total(w, p) \in Int /\ w[x] \in Int
    BY TotalInt
  <2>19. Total(w, Reverse(r)) # Total(w, r)
    BY <2>1, <2>7, <2>12, <2>14, <2>15, <2>17, <2>18
  <2> QED BY <2>5, <2>19
<1> HIDE DEF A
<1>2. A \in SUBSET Nat
  BY DEF A
<1>3. A = {}
  BY <1>1, <1>2, Descent
<1> QED BY <1>3 DEF A

\* The quantity of an execution that happened after t.
Later(t) == [e \in Stamped |-> IF e.time > t THEN e.qty ELSE 0]

LEMMA LaterType ==
  ASSUME NEW t
  PROVE  Later(t) \in [Stamped -> Int]
BY QuantityType DEF Later

LEMMA AfterGross ==
  ASSUME NEW s \in Seq(Stamped), NEW t
  PROVE  Gross(After(s, t)) = Total(Later(t), s)
<1>1. PICK K : K = {k \in DOMAIN s : s[k].time > t}
  OBVIOUS
<1>2. After(s, t) = Chosen(s, K) /\ Chosen(s, K) \in Seq(Stamped)
  BY <1>1, ChosenIs DEF After
<1>3. Gross(After(s, t)) = Total(Quantity, Chosen(s, K))
  BY <1>2, GrossIs
<1>4. Total(Quantity, Chosen(s, K)) =
        SumOf([k \in DOMAIN s |-> IF k \in K THEN Quantity[s[k]] ELSE 0], Len(s))
  BY QuantityType, TotalChosen
<1>5. \A k \in DOMAIN s : s[k] \in Stamped
  OBVIOUS
<1>6. [k \in DOMAIN s |-> IF k \in K THEN Quantity[s[k]] ELSE 0]
      = [k \in DOMAIN s |-> Later(t)[s[k]]]
  BY <1>1, <1>5 DEF Quantity, Later
<1> QED BY <1>3, <1>4, <1>6 DEF Total

\* A row counts as a whole or not at all.
LEMMA RowsLater ==
  ASSUME NEW b \in Seq(Filed), NEW k, NEW up, NEW t
  PROVE  Total(Later(t), Rows(b, k, up)) = IF k > t THEN Held(b, k) ELSE 0
<1>1. PICK s \in Seq({e \in Stamped : e.time = k}) : s = Pieces(b, k)
  BY PiecesTime
<1>2. s \in Seq(Stamped) /\ \A j \in DOMAIN s : s[j] \in Stamped /\ s[j].time = k
  <2>1. \A j \in DOMAIN s : s[j] \in Stamped /\ s[j].time = k
    OBVIOUS
  <2> QED BY <1>1, <2>1, PiecesType
<1>3. Total(Later(t), Rows(b, k, up)) = Total(Later(t), s)
  <2>1. Total(Later(t), Reverse(s)) = Total(Later(t), s)
    BY <1>2, LaterType, TotalReversed
  <2> QED BY <1>1, <2>1 DEF Rows
<1>4. Gross(s) = Held(b, k)
  BY <1>1 DEF Held
<1>5. CASE k > t
  <2>1. [j \in DOMAIN s |-> Later(t)[s[j]]] = [j \in DOMAIN s |-> s[j].qty]
    BY <1>2, <1>5 DEF Later
  <2> QED BY <1>3, <1>4, <1>5, <2>1 DEF Total, Gross
<1>6. CASE ~(k > t)
  <2>1. PICK g : g = [j \in DOMAIN s |-> Later(t)[s[j]]]
    OBVIOUS
  <2>2. Len(s) \in Nat /\ \A j \in 1 .. Len(s) : g[j] = 0
    BY <1>2, <1>6, <2>1 DEF Later
  <2>3. SumOf(g, Len(s)) = 0
    BY <2>2, SumOfNothing
  <2> QED BY <1>3, <1>6, <2>1, <2>3 DEF Total
<1> QED BY <1>5, <1>6

LEMMA ChecksGross ==
  ASSUME NEW b \in Seq(Filed), now \in Nat, NEW t, NEW up
  PROVE  Gross(CheckExecutions(b, t, up)) =
             SumOf([k \in 1 .. now |-> IF k > t THEN Held(b, k) ELSE 0], now)
<1>1. PICK ss : ss = [k \in 1 .. now |-> Rows(b, k, up)]
  OBVIOUS
<1>2. ASSUME NEW k \in 1 .. now PROVE Rows(b, k, up) \in Seq(Stamped)
  <2>1. Pieces(b, k) \in Seq(Stamped)
    BY PiecesType
  <2> QED BY <2>1, ReverseType DEF Rows
<1>3. ss \in Seq(Seq(Stamped)) /\ Len(ss) = now
  BY <1>1, <1>2
<1>4. PICK g : g = [k \in 1 .. now |-> IF k > t THEN Held(b, k) ELSE 0]
  OBVIOUS
<1>5. \A k \in 1 .. now : g[k] = Total(Later(t), ss[k])
  BY <1>1, <1>4, RowsLater
<1>6. PICK x : x = FlattenSeq(ss) /\ x \in Seq(Stamped)
  BY <1>3, FlattenSeqType
<1>7. Total(Later(t), x) = SumOf(g, now)
  BY <1>3, <1>5, <1>6, LaterType, TotalFlatten, ZenonT(30)
<1>8. CheckExecutions(b, t, up) = After(x, t)
  BY <1>1, <1>6, CheckIs
<1> QED BY <1>4, <1>6, <1>7, <1>8, AfterGross

\* When all is stored, the two lists have the same sum.
LEMMA SumsEqual ==
  ASSUME Inv, Holds(Len(history)), NEW t, NEW up
  PROVE  Gross(CheckExecutions(book, t, up)) = Gross(After(history, t))
<1>1. PICK n \in Nat : n = now /\ n = Len(history) /\ history \in Seq(Stamped)
                       /\ DOMAIN history = 1 .. n /\ \A k \in 1 .. n : history[k].time = k
  BY DEF Inv, Clock
<1>2. book \in Seq(Filed)
  BY DEF Inv, BookKept, BookOk
<1>3. \A k \in 1 .. n : Held(book, k) = history[k].qty
  BY <1>1 DEF Holds, Recorded, Held
<1>4. \A k \in 1 .. n : history[k] \in Stamped
  BY <1>1
<1>5. [k \in 1 .. n |-> IF k > t THEN Held(book, k) ELSE 0]
      = [k \in DOMAIN history |-> Later(t)[history[k]]]
  BY <1>1, <1>3, <1>4 DEF Later
<1>6. Gross(After(history, t)) = SumOf([k \in DOMAIN history |-> Later(t)[history[k]]], n)
  BY <1>1, AfterGross DEF Total
<1> QED BY <1>1, <1>2, <1>5, <1>6, ChecksGross

LEMMA ReversedAll ==
  ASSUME NEW b, NEW n \in Int, BookOk(b, n)
  PROVE  Reversed(b, n) = b
<1>1. PICK l \in Nat : l = Len(b) /\ DOMAIN b = 1 .. l /\ b \in Seq(Filed)
  BY DEF BookOk
<1>2. ASSUME NEW i \in DOMAIN b PROVE ReverseTo(b[i], n) = <<b[i]>>
  <2>1. TradeOk(b[i], n)
    BY DEF BookOk
  <2>2. \A j \in DOMAIN b[i].executions : b[i].executions[j].time <= n
    BY <2>1 DEF TradeOk
  <2> QED BY <2>1, <2>2, ReverseToIs
<1>3. [i \in DOMAIN b |-> ReverseTo(b[i], n)]
      = [i \in DOMAIN b |-> IF i \in DOMAIN b THEN <<b[i]>> ELSE <<>>]
  BY <1>2
<1>4. Chosen(b, DOMAIN b) = b
  BY <1>1, ChosenAll
<1> QED BY <1>3, <1>4 DEF Reversed, Chosen

\* Who asks for what happened after a time gets the last execution too.
LEMMA LastAfter ==
  ASSUME Inv, NEW t \in Nat, t < now
  PROVE  /\ After(history, t) \in Seq(Stamped) /\ After(history, t) # <<>>
         /\ Last(After(history, t)).time = now
         /\ Gross(After(history, t)) > 0
<1>1. PICK n \in Nat : n = now /\ n = Len(history) /\ history \in Seq(Stamped)
                       /\ DOMAIN history = 1 .. n /\ \A k \in 1 .. n : history[k].time = k
  BY DEF Inv, Clock
<1>2. n \in 1 .. n /\ history # <<>> /\ history[n].time = n /\ history[n] \in Stamped
  BY <1>1
<1>3. PICK K : K = {k \in DOMAIN history : history[k].time > t}
  OBVIOUS
<1>4. PICK x \in Seq(Stamped) : x = After(history, t) /\ x = Chosen(history, K)
  BY <1>1, <1>3, ChosenIs DEF After
<1>5. n \in K
  BY <1>1, <1>2, <1>3
<1>6. x # <<>> /\ Last(x) = history[n]
  BY <1>1, <1>2, <1>4, <1>5, ChosenLast DEF Last
<1>7. PICK g : g = [k \in DOMAIN history |-> Later(t)[history[k]]]
  OBVIOUS
<1>8. Gross(x) = SumOf(g, n)
  BY <1>1, <1>4, <1>7, AfterGross DEF Total
<1>9. \A k \in 1 .. n : history[k] \in Stamped /\ history[k].qty \in Nat
  BY <1>1, QuantityType
<1>10. (\A k \in 1 .. n : g[k] \in Nat) /\ g[n] > 0
  <2>1. \A k \in 1 .. n : g[k] \in Nat
    BY <1>1, <1>7, <1>9 DEF Later
  <2>2. history[n].qty \in Pos
    BY <1>2, QuantityType
  <2>3. g[n] = history[n].qty
    BY <1>1, <1>2, <1>7 DEF Later
  <2> QED BY <2>1, <2>2, <2>3 DEF Pos
<1>11. Sums(g, n)[n] = Sums(g, n)[n - 1] + g[n] /\ Sums(g, n)[n - 1] \in Nat
  <2>1. n \in 0 .. n /\ n - 1 \in 0 .. n /\ n # 0
    BY <1>2
  <2> QED BY <1>10, <2>1, SumsAre, SumsNat
<1>12. Gross(x) > 0
  <2>1. PICK a \in Nat, c \in Nat : a = Sums(g, n)[n - 1] /\ c = g[n]
    BY <1>2, <1>10, <1>11
  <2>2. SumOf(g, n) = a + c /\ c > 0
    BY <1>10, <1>11, <2>1 DEF SumOf
  <2> QED BY <1>8, <2>2
<1> QED BY <1>1, <1>2, <1>4, <1>6, <1>12

\* The stored executions end with the last one, if it is stored.
LEMMA LastCheck ==
  ASSUME Inv, Holds(Len(history)), NEW t \in Nat, t < now, NEW up
  PROVE  /\ CheckExecutions(book, t, up) \in Seq(Stamped)
         /\ CheckExecutions(book, t, up) # <<>>
         /\ Last(CheckExecutions(book, t, up)).time = now
<1>1. PICK n \in Nat : n = now /\ n = Len(history) /\ n # 0 /\ n \in 1 .. n
                       /\ DOMAIN history = 1 .. n /\ history \in Seq(Stamped)
                       /\ history[n].time = n
  BY DEF Inv, Clock
<1>2. PICK b \in Seq(Filed) : b = book
  BY DEF Inv, BookKept, BookOk
<1>3. PICK ss : ss = [k \in 1 .. n |-> Rows(b, k, up)]
  OBVIOUS
<1>4. ASSUME NEW k \in 1 .. n PROVE Rows(b, k, up) \in Seq(Stamped)
  <2>1. Pieces(b, k) \in Seq(Stamped)
    BY PiecesType
  <2> QED BY <2>1, ReverseType DEF Rows
<1>5. ss \in Seq(Seq(Stamped)) /\ Len(ss) = n /\ ss[n] = Rows(b, n, up)
  BY <1>1, <1>3, <1>4
<1>6. Held(b, n) > 0
  <2>1. history[n] \in Stamped
    BY <1>1
  <2>2. history[n].qty \in Pos
    BY <2>1, QuantityType
  <2>3. Held(b, n) = history[n].qty
    BY <1>1, <1>2 DEF Holds, Recorded, Held
  <2> QED BY <2>2, <2>3 DEF Pos
<1>7. PICK s \in Seq({e \in Stamped : e.time = n}) : s = ss[n]
  BY <1>5, RowsTime
<1>8. s # <<>>
  <2> SUFFICES ASSUME s = <<>> PROVE FALSE
    OBVIOUS
  <2>1. PICK g : g = [j \in DOMAIN s |-> Later(t)[s[j]]]
    OBVIOUS
  <2>2. Len(s) = 0 /\ \A j \in 1 .. 0 : g[j] = 0
    OBVIOUS
  <2>3. SumOf(g, 0) = 0
    BY SumOfNothing
  <2>4. Total(Later(t), s) = 0
    BY <2>1, <2>2, <2>3 DEF Total
  <2>5. Total(Later(t), Rows(b, n, up)) = Held(b, n)
    BY <1>1, RowsLater
  <2> QED BY <1>5, <1>6, <1>7, <2>4, <2>5
<1>9. Last(s).time = n
  <2>1. Len(s) \in DOMAIN s
    BY <1>8
  <2>2. s[Len(s)] \in {e \in Stamped : e.time = n}
    BY <2>1
  <2> QED BY <2>2 DEF Last
<1>10. PICK x \in Seq(Stamped) : x = FlattenSeq(ss) /\ x # <<>> /\ Last(x).time = n
  <2>1. FlattenSeq(ss) \in Seq(Stamped)
    BY <1>5, FlattenSeqType
  <2>2. FlattenSeq(ss) # <<>> /\ Last(FlattenSeq(ss)) = Last(ss[n])
    BY <1>1, <1>5, <1>7, <1>8, FlattenLast
  <2> QED BY <1>7, <1>9, <2>1, <2>2
<1>11. PICK K : K = {k \in DOMAIN x : x[k].time > t}
  OBVIOUS
<1>12. Len(x) \in K
  <2>1. Len(x) \in DOMAIN x
    BY <1>10
  <2> QED BY <1>1, <1>10, <1>11, <2>1 DEF Last
<1>13. CheckExecutions(book, t, up) = Chosen(x, K)
  BY <1>1, <1>2, <1>3, <1>10, <1>11, CheckIs DEF After
<1>14. Chosen(x, K) \in Seq(Stamped) /\ Chosen(x, K) # <<>> /\ Last(Chosen(x, K)) = Last(x)
  BY <1>10, <1>12, ChosenIs, ChosenLast
<1> QED BY <1>1, <1>10, <1>13, <1>14

LEMMA UptoAll ==
  ASSUME NEW s \in Seq(Stamped), NEW n \in Nat, Len(s) <= n
  PROVE  Upto(s, n) = s
<1>1. PICK l \in Nat : l = Len(s)
  OBVIOUS
<1>2. (IF n < l THEN n ELSE l) = l
  BY <1>1
<1>3. SubSeq(s, 1, l) = s
  BY <1>1, SubSeqFull
<1> QED BY <1>1, <1>2, <1>3 DEF Upto

\* When all is stored, the stored trades are valid until now.
LEMMA ConfirmedIs ==
  ASSUME Inv, Holds(Len(history)), NEW t \in Nat, t < now, NEW up
  PROVE  ValidUntil(After(history, t), CheckExecutions(book, t, up), t) = now
<1>1. PICK x \in Seq(Stamped) :
        x = After(history, t) /\ x # <<>> /\ Last(x).time = now /\ Gross(x) > 0
  BY LastAfter
<1>2. PICK c \in Seq(Stamped) :
        c = CheckExecutions(book, t, up) /\ c # <<>> /\ Last(c).time = now /\ Gross(c) = Gross(x)
  BY <1>1, LastCheck, SumsEqual
<1>3. PICK l \in Nat, m \in Nat :
        l = Len(x) /\ m = Len(c) /\ l # 0 /\ m # 0 /\ DOMAIN x = 1 .. l /\ DOMAIN c = 1 .. m
  BY <1>1, <1>2
<1>4. PICK longest \in Seq(Stamped), n \in Nat :
        /\ longest = (IF l > m THEN x ELSE c)
        /\ n = Len(longest) /\ DOMAIN longest = 1 .. n
        /\ n = (IF l > m THEN l ELSE m)
  BY <1>3
<1>5. PICK equal : equal = {k \in DOMAIN longest : /\ Gross(Upto(x, k)) = Gross(Upto(c, k))
                                                   /\ Gross(Upto(x, k)) # 0}
  OBVIOUS
<1>6. Upto(x, n) = x /\ Upto(c, n) = c
  BY <1>3, <1>4, UptoAll
<1>7. n \in 1 .. n
  BY <1>3, <1>4
<1>8. n \in equal
  BY <1>1, <1>2, <1>4, <1>5, <1>6, <1>7
<1>9. Max(equal) = n
  <2>1. equal \in SUBSET (1 .. n) /\ equal # {}
    BY <1>4, <1>5, <1>8
  <2>2. Max(equal) \in equal /\ \A y \in equal : y <= Max(equal)
    BY <2>1, MaxIs
  <2>3. Max(equal) \in 1 .. n /\ n <= Max(equal)
    BY <1>8, <2>1, <2>2
  <2> QED BY <2>3
<1>10. ValidUntil(x, c, t) =
         IF equal = {} THEN t
         ELSE IF Max(equal) \in DOMAIN x THEN x[Max(equal)].time
              ELSE c[Max(equal)].time
  BY <1>3, <1>4, <1>5 DEF ValidUntil
<1>11. ValidUntil(x, c, t) = IF n \in 1 .. l THEN x[n].time ELSE c[n].time
  BY <1>3, <1>8, <1>9, <1>10
<1>12. x[l].time = now /\ c[m].time = now
  BY <1>1, <1>2, <1>3 DEF Last
<1>13. ValidUntil(x, c, t) = now
  <2>1. CASE n = l
    <3>1. n \in 1 .. l
      BY <1>7, <2>1
    <3> QED BY <1>11, <1>12, <2>1, <3>1
  <2>2. CASE n # l
    <3>1. n = m /\ l < m
      BY <1>3, <1>4, <2>2
    <3>2. n \notin 1 .. l
      BY <3>1
    <3> QED BY <1>11, <1>12, <3>1, <3>2
  <2> QED BY <2>1, <2>2
<1> QED BY <1>1, <1>2, <1>13

\* The first synchronization has nothing to compare with.
LEMMA FirstIs ==
  ASSUME NEW x \in Seq(Stamped), NEW t
  PROVE  ValidUntil(x, <<>>, t) = t
<1>1. PICK c \in Seq(Stamped) : c = <<>>
  BY EmptySeq
<1>2. Len(c) = 0
  BY <1>1
<1>3. PICK longest : longest = IF Len(x) > Len(c) THEN x ELSE c
  OBVIOUS
<1>4. \A n : Upto(c, n) = c \/ Len(x) = 0 \/ n \notin DOMAIN x
  <2> SUFFICES ASSUME NEW n \in DOMAIN x PROVE Upto(c, n) = c
    OBVIOUS
  <2>1. n \in Nat /\ 0 <= n
    OBVIOUS
  <2> QED BY <1>2, <2>1, UptoAll
<1>5. Gross(c) = 0
  <2>1. Total(Quantity, <<>>) = 0
    BY SumOfNothing DEF Total
  <2> QED BY <1>1, <2>1, GrossIs
<1>6. DOMAIN longest \subseteq DOMAIN x
  BY <1>1, <1>3
<1>7. PICK equal : equal = {n \in DOMAIN longest : /\ Gross(Upto(x, n)) = Gross(Upto(c, n))
                                                   /\ Gross(Upto(x, n)) # 0}
  OBVIOUS
<1>8. equal = {}
  <2> SUFFICES ASSUME NEW n \in equal PROVE FALSE
    OBVIOUS
  <2>1. n \in DOMAIN x /\ Gross(Upto(x, n)) = Gross(Upto(c, n)) /\ Gross(Upto(x, n)) # 0
    BY <1>6, <1>7
  <2>2. Len(x) # 0
    BY <2>1
  <2> QED BY <1>4, <1>5, <2>1, <2>2
<1>9. ValidUntil(x, c, t) = t
  BY <1>3, <1>7, <1>8 DEF ValidUntil
<1> QED BY <1>1, <1>9

-----------------------------------------------------------------------------
(***************************************************************************)
(* Executions that are added to a book that shows a position leave one     *)
(* that shows the position they lead to.                                   *)
(***************************************************************************)
Open(b, s) == {i \in DOMAIN b : b[i].symbol = s /\ IsOpen(b[i])}

Shows(b, s, p) ==
    IF p = 0 THEN Open(b, s) = {}
    ELSE \E i \in Open(b, s) : Open(b, s) = {i} /\ Exposure(b[i]) = p

LEMMA SignedQty ==
  /\ \A t \in Filed : /\ t.open_qty \in Nat
                      /\ Exposure(t) = IF t.side = "BUY" THEN t.open_qty ELSE 0 - t.open_qty
  /\ \A e \in Stamped : /\ e.qty \in Nat /\ e.qty > 0
                        /\ EffectiveQty(e) = IF e.side = "BUY" THEN e.qty ELSE 0 - e.qty
<1>1. ASSUME NEW t \in Filed
      PROVE  /\ t.open_qty \in Nat
             /\ Exposure(t) = IF t.side = "BUY" THEN t.open_qty ELSE 0 - t.open_qty
  <2>1. PICK q \in Nat : q = t.open_qty
    BY DEF Filed
  <2> QED BY <2>1 DEF Exposure, Sign
<1>2. ASSUME NEW e \in Stamped
      PROVE  /\ e.qty \in Nat /\ e.qty > 0
             /\ EffectiveQty(e) = IF e.side = "BUY" THEN e.qty ELSE 0 - e.qty
  <2>1. PICK q \in Nat : q = e.qty /\ q > 0
    BY QuantityType DEF Pos
  <2> QED BY <2>1 DEF EffectiveQty, Sign
<1> QED BY <1>1, <1>2

\* c is b with the trade t after it; a is b with r in the place of its trade i.
Grown(b, t, l, s, c) ==
    /\ Open(c, s) = Open(b, s) \cup (IF t.symbol = s /\ IsOpen(t) THEN {l + 1} ELSE {})
    /\ c[l + 1] = t
    /\ \A i \in Open(b, s) : c[i] = b[i]

Changed(b, i, r, s, a) ==
    /\ a \in Seq(Filed) /\ Len(a) = Len(b)
    /\ a[i] = r
    /\ \A j \in DOMAIN b : j # i => a[j] = b[j]
    /\ Open(a, s) = (Open(b, s) \ {i}) \cup (IF r.symbol = s /\ IsOpen(r) THEN {i} ELSE {})

LEMMA OpenAppend ==
  ASSUME NEW b \in Seq(Filed), NEW t \in Filed, NEW l, l = Len(b), NEW s,
         NEW c, c = Append(b, t)
  PROVE  Grown(b, t, l, s, c)
<1>1. c \in Seq(Filed) /\ l \in Nat
  BY AppendProperties
<1>2. /\ DOMAIN b = 1 .. l /\ DOMAIN c = 1 .. l + 1 /\ c[l + 1] = t
      /\ \A i \in 1 .. l : c[i] = b[i]
  BY <1>1
<1>3. \A i : i \in 1 .. l + 1 <=> i \in 1 .. l \/ i = l + 1
  OBVIOUS
<1>4. \A i \in 1 .. l : i # l + 1
  OBVIOUS
<1>5. Open(c, s) = Open(b, s) \cup (IF t.symbol = s /\ IsOpen(t) THEN {l + 1} ELSE {})
  BY <1>2, <1>3, <1>4 DEF Open
<1> QED BY <1>2, <1>5 DEF Open, Grown

LEMMA OpenChanged ==
  ASSUME NEW b \in Seq(Filed), NEW i \in DOMAIN b, NEW r \in Filed, r.symbol = b[i].symbol,
         NEW s, NEW a, a = [b EXCEPT ![i] = r]
  PROVE  Changed(b, i, r, s, a)
<1>1. a \in Seq(Filed) /\ Len(a) = Len(b) /\ DOMAIN a = DOMAIN b /\ a[i] = r
      /\ \A j \in DOMAIN b : j # i => a[j] = b[j]
  OBVIOUS
<1>2. Open(a, s) = (Open(b, s) \ {i}) \cup (IF r.symbol = s /\ IsOpen(r) THEN {i} ELSE {})
  BY <1>1 DEF Open
<1> QED BY <1>1, <1>2 DEF Changed

\* What an execution can make of a book.
LEMMA AddedIs ==
  ASSUME NEW b, NEW n \in Int, BookOk(b, n), NEW e \in Stamped, e.time > n,
         NEW c \in BooksAfter(b, e)
  PROVE  \/ /\ Open(b, e.symbol) = {}
            /\ \E u \in Filed : /\ c = Append(b, u)
                                /\ u.symbol = e.symbol /\ u.side = e.side /\ u.open_qty = e.qty
         \/ \E i \in Open(b, e.symbol) : \E r \in Filed :
               /\ r.symbol = e.symbol /\ r.side = b[i].side
               /\ \/ /\ e.side = b[i].side \/ e.qty <= b[i].open_qty
                     /\ c = [b EXCEPT ![i] = r]
                     /\ r.open_qty = IF e.side = b[i].side THEN b[i].open_qty + e.qty
                                     ELSE b[i].open_qty - e.qty
                  \/ /\ e.side # b[i].side /\ e.qty > b[i].open_qty
                     /\ r.open_qty = 0
                     /\ \E u \in Filed : /\ c = Append([b EXCEPT ![i] = r], u)
                                         /\ u.symbol = e.symbol /\ u.side = e.side
                                         /\ u.open_qty = e.qty - b[i].open_qty
<1>1. b \in Seq(Filed) /\ e.tagged /\ e.qty \in Nat /\ e.time \in Int
      /\ \A i \in DOMAIN b : b[i] \in Filed /\ b[i].open_qty \in Nat
  <2>1. b \in Seq(Filed)
    BY DEF BookOk
  <2>2. \A i \in DOMAIN b : b[i] \in Filed
    BY <2>1
  <2> QED BY <2>1, <2>2, QuantityType DEF Stamped, Filed
<1>2. Matching(b, e) = Open(b, e.symbol)
  BY <1>1, MatchingOpen DEF Open
<1>3. CASE Open(b, e.symbol) = {}
  <2>1. PICK u : u = FromExecution(e)
    OBVIOUS
  <2>2. u \in Filed /\ u.symbol = e.symbol /\ u.side = e.side /\ u.open_qty = e.qty
    BY <1>1, <2>1, FromExecutionOk DEF TradeOk
  <2>3. c = Append(b, u)
    BY <1>2, <1>3, <2>1, MatchingOpen
  <2> QED BY <1>3, <2>2, <2>3
<1>4. CASE Open(b, e.symbol) # {}
  <2>1. PICK i \in TradeFor(b, e) : c = AddTo(b, i, e)
    BY <1>2, <1>4, MatchingOpen
  <2>2. i \in Matching(b, e)
    BY <2>1 DEF TradeFor
  <2>3. i \in Open(b, e.symbol) /\ i \in DOMAIN b /\ b[i].symbol = e.symbol /\ IsOpen(b[i])
    BY <1>2, <2>2 DEF Open
  <2>4. PICK t : t = b[i]
    OBVIOUS
  <2>5. t \in Filed /\ TradeOk(t, n) /\ IsOpen(t) /\ t.open_qty \in Nat
    BY <1>1, <2>3, <2>4 DEF BookOk
  <2>6. PICK r : r = AddExecution(t, e)
    OBVIOUS
  <2>7. /\ r \in Filed /\ r.symbol = t.symbol /\ r.side = t.side
        /\ r.open_qty = IF e.side = t.side THEN t.open_qty + e.qty
                        ELSE IF e.qty > t.open_qty THEN 0 ELSE t.open_qty - e.qty
    BY <2>5, <2>6, AddOk DEF TradeOk
  <2>8. PICK a : a = [b EXCEPT ![i] = r] /\ a \in Seq(Filed)
    <3>1. [b EXCEPT ![i] = r] \in Seq(Filed)
      BY <1>1, <2>3, <2>7
    <3> QED BY <3>1
  <2>9. c = a \o NewTrade(t, e)
    BY <2>1, <2>4, <2>6, <2>8 DEF AddTo
  <2>10. CASE e.side # t.side /\ e.qty > t.open_qty
    <3>1. PICK f \in Stamped :
            /\ f = Rest(t, e) /\ f.time = e.time /\ f.side = e.side /\ f.symbol = e.symbol
            /\ f.qty = e.qty - t.open_qty
      BY <2>5, <2>10, RestIs
    <3>2. PICK u : u = FromExecution(f)
      OBVIOUS
    <3>3. f.time <= e.time
      BY <1>1, <3>1
    <3>4. u \in Filed /\ u.symbol = e.symbol /\ u.side = e.side /\ u.open_qty = f.qty
      BY <1>1, <3>1, <3>2, <3>3, FromExecutionOk DEF TradeOk
    <3>5. NewTrade(t, e) = <<u>>
      BY <2>10, <3>1, <3>2 DEF NewTrade, Shrinks, Moves, Stamped
    <3>6. c = Append(a, u)
      BY <2>8, <2>9, <3>4, <3>5
    <3> QED BY <2>3, <2>4, <2>7, <2>8, <2>10, <3>1, <3>4, <3>6
  <2>11. CASE ~(e.side # t.side /\ e.qty > t.open_qty)
    <3>1. NewTrade(t, e) = <<>>
      BY <2>11 DEF NewTrade, Shrinks, Rejects, Moves, Stamped
    <3>2. c = a
      BY <2>8, <2>9, <3>1, ConcatEmptySeq
    <3>3. e.side = t.side \/ e.qty <= t.open_qty
      BY <1>1, <2>5, <2>11
    <3>4. r.open_qty = IF e.side = t.side THEN t.open_qty + e.qty ELSE t.open_qty - e.qty
      BY <1>1, <2>5, <2>7, <2>11
    <3> QED BY <2>3, <2>4, <2>7, <2>8, <3>2, <3>3, <3>4
  <2> QED BY <2>10, <2>11
<1> QED BY <1>3, <1>4

LEMMA ShowStep ==
  ASSUME NEW b, NEW n \in Int, BookOk(b, n), NEW e \in Stamped, e.time > n,
         NEW s \in Symbols, NEW p \in Int, Shows(b, s, p), NEW c \in BooksAfter(b, e)
  PROVE  Shows(c, s, p + (IF e.symbol = s THEN EffectiveQty(e) ELSE 0))
<1>1. PICK l \in Nat : l = Len(b) /\ b \in Seq(Filed) /\ DOMAIN b = 1 .. l
  BY DEF BookOk
<1>2. e.qty \in Nat /\ e.qty > 0 /\ e.side \in Sides
      /\ EffectiveQty(e) = IF e.side = "BUY" THEN e.qty ELSE 0 - e.qty
  <2>1. e.side \in Sides
    BY DEF Stamped
  <2> QED BY <2>1, SignedQty
<1>3. CASE Open(b, e.symbol) = {} /\ \E u \in Filed :
              /\ c = Append(b, u)
              /\ u.symbol = e.symbol /\ u.side = e.side /\ u.open_qty = e.qty
  <2>1. PICK u \in Filed : /\ c = Append(b, u)
                           /\ u.symbol = e.symbol /\ u.side = e.side /\ u.open_qty = e.qty
    BY <1>3
  <2>2. IsOpen(u) /\ Exposure(u) = EffectiveQty(e)
    BY <1>2, <2>1, SignedQty DEF IsOpen
  <2>3. /\ Open(c, s) = Open(b, s) \cup (IF e.symbol = s THEN {l + 1} ELSE {})
        /\ c[l + 1] = u
        /\ \A i \in Open(b, s) : c[i] = b[i]
    <3>1. Grown(b, u, l, s, c)
      BY <1>1, <2>1, OpenAppend
    <3> QED BY <2>1, <2>2, <3>1 DEF Grown
  <2>4. CASE e.symbol = s
    <3>1. p = 0
      BY <1>3, <2>4 DEF Shows
    <3>2. Open(c, s) = {l + 1} /\ Exposure(c[l + 1]) = p + EffectiveQty(e)
          /\ p + EffectiveQty(e) # 0
      BY <1>2, <1>3, <2>2, <2>3, <2>4, <3>1
    <3> QED BY <2>4, <3>2 DEF Shows
  <2>5. CASE e.symbol # s
    <3>1. Open(c, s) = Open(b, s)
      BY <2>3, <2>5
    <3>2. Shows(c, s, p)
      BY <2>3, <3>1 DEF Shows
    <3> QED BY <2>5, <3>2
  <2> QED BY <2>4, <2>5
<1> DEFINE Moved(i, r, a) ==
             /\ a \in Seq(Filed) /\ Len(a) = l
             /\ Open(a, s) = (Open(b, s) \ {i}) \cup (IF e.symbol = s /\ IsOpen(r) THEN {i} ELSE {})
             /\ a[i] = r
             /\ \A j \in Open(b, s) : j # i => a[j] = b[j]
             /\ b[i].open_qty \in Nat /\ b[i].open_qty > 0 /\ b[i].side \in Sides
             /\ Exposure(b[i]) = IF b[i].side = "BUY" THEN b[i].open_qty ELSE 0 - b[i].open_qty
             /\ e.symbol = s => Open(b, s) = {i} /\ p = Exposure(b[i])
             /\ e.symbol # s => i \notin Open(b, s)
<1>4. ASSUME NEW i \in Open(b, e.symbol), NEW r \in Filed, r.symbol = e.symbol,
             NEW a, a = [b EXCEPT ![i] = r]
      PROVE  Moved(i, r, a)
  <2>1. i \in DOMAIN b /\ b[i] \in Filed /\ b[i].symbol = e.symbol /\ IsOpen(b[i])
    BY <1>1 DEF Open
  <2>2. /\ a \in Seq(Filed) /\ Len(a) = l
        /\ Open(a, s) = (Open(b, s) \ {i}) \cup (IF e.symbol = s /\ IsOpen(r) THEN {i} ELSE {})
        /\ a[i] = r
        /\ \A j \in DOMAIN b : j # i => a[j] = b[j]
    <3>1. Changed(b, i, r, s, a)
      BY <1>1, <1>4, <2>1, OpenChanged
    <3> QED BY <1>1, <1>4, <3>1 DEF Changed
  <2>3. b[i].open_qty \in Nat /\ b[i].open_qty > 0 /\ b[i].side \in Sides
    BY <2>1, SignedQty DEF IsOpen, Filed
  <2>4. ASSUME e.symbol = s PROVE Open(b, s) = {i} /\ p = Exposure(b[i])
    <3>1. i \in Open(b, s)
      BY <2>4
    <3>2. PICK k \in Open(b, s) : Open(b, s) = {k} /\ Exposure(b[k]) = p
      BY <3>1 DEF Shows
    <3> QED BY <3>1, <3>2
  <2>5. e.symbol # s => i \notin Open(b, s)
    BY <2>1 DEF Open
  <2>6. \A j \in Open(b, s) : j \in DOMAIN b
    BY DEF Open
  <2> QED BY <2>1, <2>2, <2>3, <2>4, <2>5, <2>6, SignedQty
<1> HIDE DEF Moved
<1>5. ASSUME NEW i \in Open(b, e.symbol), NEW r \in Filed, r.symbol = e.symbol, r.side = b[i].side,
             e.side = b[i].side \/ e.qty <= b[i].open_qty,
             c = [b EXCEPT ![i] = r],
             r.open_qty = IF e.side = b[i].side THEN b[i].open_qty + e.qty
                          ELSE b[i].open_qty - e.qty
      PROVE  Shows(c, s, p + (IF e.symbol = s THEN EffectiveQty(e) ELSE 0))
  <2>1. /\ Open(c, s) = (Open(b, s) \ {i}) \cup (IF e.symbol = s /\ IsOpen(r) THEN {i} ELSE {})
        /\ c[i] = r
        /\ \A j \in Open(b, s) : j # i => c[j] = b[j]
        /\ b[i].open_qty \in Nat /\ b[i].open_qty > 0 /\ b[i].side \in Sides
        /\ Exposure(b[i]) = IF b[i].side = "BUY" THEN b[i].open_qty ELSE 0 - b[i].open_qty
        /\ e.symbol = s => Open(b, s) = {i} /\ p = Exposure(b[i])
        /\ e.symbol # s => i \notin Open(b, s)
    <3>1. Moved(i, r, c)
      BY <1>4, <1>5
    <3> QED BY <3>1 DEF Moved
  <2>2. CASE e.symbol # s
    <3>1. Open(c, s) = Open(b, s) /\ \A j \in Open(b, s) : c[j] = b[j]
      BY <2>1, <2>2
    <3>2. Shows(c, s, p)
      BY <3>1 DEF Shows
    <3> QED BY <2>2, <3>2
  <2>3. CASE e.symbol = s
    <3>1. Open(c, s) = IF IsOpen(r) THEN {i} ELSE {}
      BY <2>1, <2>3
    <3>2. Exposure(r) = IF r.side = "BUY" THEN r.open_qty ELSE 0 - r.open_qty
      BY SignedQty
    <3>3. Exposure(r) = p + EffectiveQty(e)
      <4>1. PICK q \in Nat, z \in Nat : q = b[i].open_qty /\ z = e.qty
        BY <1>2, <2>1
      <4>2. CASE e.side = b[i].side
        BY <1>2, <1>5, <2>1, <2>3, <3>2, <4>1, <4>2
      <4>3. CASE e.side # b[i].side
        <5>1. r.open_qty = q - z
          BY <1>5, <4>1, <4>3
        <5>2. e.side = "BUY" <=> b[i].side # "BUY"
          BY <1>2, <2>1, <4>3 DEF Sides
        <5> QED BY <1>2, <1>5, <2>1, <2>3, <3>2, <4>1, <5>1, <5>2
      <4> QED BY <4>2, <4>3
    <3>4. IsOpen(r) <=> Exposure(r) # 0
      BY <3>2, SignedQty DEF IsOpen
    <3>5. PICK x : x = p + EffectiveQty(e)
      OBVIOUS
    <3>6. Shows(c, s, x)
      BY <2>1, <3>1, <3>3, <3>4, <3>5 DEF Shows
    <3> QED BY <2>3, <3>5, <3>6
  <2> QED BY <2>2, <2>3
<1>6. ASSUME NEW i \in Open(b, e.symbol), NEW r \in Filed, r.symbol = e.symbol, r.side = b[i].side,
             e.side # b[i].side, e.qty > b[i].open_qty, r.open_qty = 0,
             NEW u \in Filed, c = Append([b EXCEPT ![i] = r], u),
             u.symbol = e.symbol, u.side = e.side, u.open_qty = e.qty - b[i].open_qty
      PROVE  Shows(c, s, p + (IF e.symbol = s THEN EffectiveQty(e) ELSE 0))
  <2>1. PICK a : a = [b EXCEPT ![i] = r]
    OBVIOUS
  <2>2. /\ a \in Seq(Filed) /\ Len(a) = l
        /\ Open(a, s) = (Open(b, s) \ {i}) \cup (IF e.symbol = s /\ IsOpen(r) THEN {i} ELSE {})
        /\ \A j \in Open(b, s) : j # i => a[j] = b[j]
        /\ b[i].open_qty \in Nat /\ b[i].open_qty > 0 /\ b[i].side \in Sides
        /\ Exposure(b[i]) = IF b[i].side = "BUY" THEN b[i].open_qty ELSE 0 - b[i].open_qty
        /\ e.symbol = s => Open(b, s) = {i} /\ p = Exposure(b[i])
        /\ e.symbol # s => i \notin Open(b, s)
    <3>1. Moved(i, r, a)
      BY <1>4, <1>6, <2>1
    <3> QED BY <3>1 DEF Moved
  <2>3. ~IsOpen(r)
    BY <1>6 DEF IsOpen
  <2>4. IsOpen(u)
    BY <1>2, <1>6, <2>2 DEF IsOpen
  <2>5. /\ Open(c, s) = Open(a, s) \cup (IF e.symbol = s THEN {l + 1} ELSE {})
        /\ c[l + 1] = u
        /\ \A j \in Open(a, s) : c[j] = a[j]
    <3>1. c = Append(a, u)
      BY <1>6, <2>1
    <3>2. Grown(a, u, l, s, c)
      BY <2>2, <3>1, OpenAppend
    <3> QED BY <1>6, <2>4, <3>2 DEF Grown
  <2>6. CASE e.symbol # s
    <3>1. Open(c, s) = Open(b, s) /\ \A j \in Open(b, s) : c[j] = b[j]
      BY <2>2, <2>5, <2>6
    <3>2. Shows(c, s, p)
      BY <3>1 DEF Shows
    <3> QED BY <2>6, <3>2
  <2>7. CASE e.symbol = s
    <3>1. Open(c, s) = {l + 1}
      BY <2>2, <2>3, <2>5, <2>7
    <3>2. Exposure(u) = IF u.side = "BUY" THEN u.open_qty ELSE 0 - u.open_qty
      BY SignedQty
    <3>3. Exposure(u) = p + EffectiveQty(e) /\ Exposure(u) # 0
      <4>1. PICK q \in Nat, z \in Nat : q = b[i].open_qty /\ z = e.qty /\ z > q /\ u.open_qty = z - q
        BY <1>2, <1>6, <2>2
      <4>2. e.side = "BUY" <=> b[i].side # "BUY"
        BY <1>2, <1>6, <2>2 DEF Sides
      <4>3. EffectiveQty(e) = IF e.side = "BUY" THEN z ELSE 0 - z
        BY <1>2, <4>1
      <4>4. p = IF b[i].side = "BUY" THEN q ELSE 0 - q
        BY <2>2, <2>7, <4>1
      <4>5. Exposure(u) = IF e.side = "BUY" THEN z - q ELSE 0 - (z - q)
        BY <1>6, <3>2, <4>1
      <4> QED BY <4>1, <4>2, <4>3, <4>4, <4>5
    <3>4. PICK x : x = p + EffectiveQty(e)
      OBVIOUS
    <3>5. Shows(c, s, x)
      BY <2>5, <3>1, <3>3, <3>4 DEF Shows
    <3> QED BY <2>7, <3>4, <3>5
  <2> QED BY <2>6, <2>7
<1> QED BY <1>3, <1>5, <1>6, AddedIs

\* Executions of one symbol, added up.
LEMMA SignedOf ==
  ASSUME NEW execs \in Seq(Stamped), NEW s
  PROVE  Signed(OfSymbol(execs, s)) =
             SumOf([k \in DOMAIN execs |-> IF execs[k].symbol = s THEN EffectiveQty(execs[k])
                                           ELSE 0], Len(execs))
<1>1. PICK K : K = {k \in DOMAIN execs : execs[k].symbol = s}
  OBVIOUS
<1>2. OfSymbol(execs, s) = Chosen(execs, K) /\ Chosen(execs, K) \in Seq(Stamped)
  BY <1>1, ChosenIs DEF OfSymbol
<1>3. Effect \in [Stamped -> Int] /\ \A e \in Stamped : Effect[e] = EffectiveQty(e)
  <2>1. \A e \in Stamped : EffectiveQty(e) \in Int
    BY SignedQty
  <2> QED BY <2>1 DEF Effect
<1>4. Total(Effect, Chosen(execs, K)) =
        SumOf([k \in DOMAIN execs |-> IF k \in K THEN Effect[execs[k]] ELSE 0], Len(execs))
  BY <1>3, TotalChosen
<1>5. \A k \in DOMAIN execs : execs[k] \in Stamped
  OBVIOUS
<1>6. [k \in DOMAIN execs |-> IF k \in K THEN Effect[execs[k]] ELSE 0]
      = [k \in DOMAIN execs |-> IF execs[k].symbol = s THEN EffectiveQty(execs[k]) ELSE 0]
  BY <1>1, <1>3, <1>5
<1>7. Signed(OfSymbol(execs, s)) = Total(Effect, Chosen(execs, K))
  BY <1>2, SignedIs
<1> QED BY <1>4, <1>6, <1>7

LEMMA AddAllShows ==
  ASSUME NEW b, NEW n \in Int, BookOk(b, n), NEW execs, Fresh(execs, n),
         NEW c \in AddAll(b, execs), NEW s \in Symbols, NEW q \in Int, Shows(b, s, q)
  PROVE  Shows(c, s, q + Signed(OfSymbol(execs, s)))
<1>1. PICK l \in Nat : l = Len(execs) /\ DOMAIN execs = 1 .. l /\ execs \in Seq(Stamped)
  BY DEF Fresh
<1>2. \A j \in 1 .. l : /\ execs[j] \in Stamped /\ execs[j].time \in Int /\ n < execs[j].time
                        /\ EffectiveQty(execs[j]) \in Int
                        /\ \A i \in 1 .. j - 1 : execs[i].time < execs[j].time
  <2>1. \A j \in 1 .. l : execs[j] \in Stamped
    BY <1>1
  <2>2. \A j \in 1 .. l : execs[j].time \in Int /\ EffectiveQty(execs[j]) \in Int
    <3>1. \A e \in Stamped : e.time \in Int
      BY DEF Stamped
    <3>2. \A e \in Stamped : EffectiveQty(e) \in Int
      BY SignedQty
    <3> QED BY <2>1, <3>1, <3>2
  <2> QED BY <1>1, <2>1, <2>2 DEF Fresh
<1>3. PICK f : /\ f[0] = {b}
               /\ \A k \in 1 .. l : \A d :
                     d \in f[k] <=> \E a \in f[k - 1] : d \in BooksAfter(a, execs[k])
               /\ AddAll(b, execs) = f[l]
  BY <1>1, AddAllIs
<1>4. PICK h : h = [k \in DOMAIN execs |-> IF execs[k].symbol = s THEN EffectiveQty(execs[k]) ELSE 0]
  OBVIOUS
<1>5. \A k \in 1 .. l : h[k] \in Int /\ h[k] = IF execs[k].symbol = s THEN EffectiveQty(execs[k])
                                               ELSE 0
  BY <1>1, <1>2, <1>4
<1>6. /\ Sums(h, l)[0] = 0
      /\ \A k \in 1 .. l : Sums(h, l)[k] = Sums(h, l)[k - 1] + h[k]
      /\ \A k \in 0 .. l : Sums(h, l)[k] \in Int
  <2>1. \A k \in 0 .. l : Sums(h, l)[k] = IF k = 0 THEN 0 ELSE Sums(h, l)[k - 1] + h[k]
    BY SumsAre
  <2>2. \A k \in 0 .. l : Sums(h, l)[k] \in Int
    BY <1>5, SumsInt
  <2>3. \A k \in 1 .. l : k \in 0 .. l /\ k # 0
    OBVIOUS
  <2> QED BY <2>1, <2>2, <2>3
<1> DEFINE T(j) == IF j = 0 THEN n ELSE execs[j].time
           Good(d, j) == BookOk(d, T(j)) /\ Shows(d, s, q + Sums(h, l)[j])
           A == {j \in 0 .. l : \E d \in f[j] : ~Good(d, j)}
<1>7. Good(b, 0)
  <2>1. q + Sums(h, l)[0] = q
    BY <1>6
  <2> QED BY <2>1
<1>8. ASSUME NEW j \in 1 .. l, NEW a, Good(a, j - 1), NEW d \in BooksAfter(a, execs[j])
      PROVE  Good(d, j)
  <2>1. PICK e \in Stamped : e = execs[j] /\ EffectiveQty(e) \in Int
    BY <1>2
  <2>2. PICK t \in Int : t = T(j - 1) /\ t < e.time
    <3>1. CASE j = 1
      BY <1>2, <2>1, <3>1
    <3>2. CASE j # 1
      <4>1. j - 1 \in 1 .. l /\ j - 1 \in 1 .. j - 1
        BY <3>2
      <4>2. T(j - 1) = execs[j - 1].time
        BY <3>2
      <4> QED BY <1>2, <2>1, <4>1, <4>2
    <3> QED BY <3>1, <3>2
  <2>3. PICK p \in Int : p = q + Sums(h, l)[j - 1] /\ Sums(h, l)[j - 1] \in Int
    <3>1. j - 1 \in 0 .. l
      OBVIOUS
    <3>2. Sums(h, l)[j - 1] \in Int
      BY <1>6, <3>1
    <3> QED BY <3>2
  <2>4. BookOk(a, t) /\ Shows(a, s, p) /\ d \in BooksAfter(a, e)
    BY <1>8, <2>1, <2>2, <2>3
  <2>5. BookOk(d, e.time)
    BY <2>2, <2>4, BookStep
  <2>6. PICK x : x = p + (IF e.symbol = s THEN EffectiveQty(e) ELSE 0)
    OBVIOUS
  <2>7. Shows(d, s, p + (IF e.symbol = s THEN EffectiveQty(e) ELSE 0))
    BY <2>2, <2>4, ShowStep
  <2>8. x = q + Sums(h, l)[j]
    BY <1>5, <1>6, <2>1, <2>3, <2>6
  <2>9. T(j) = e.time
    BY <2>1
  <2> QED BY <2>5, <2>6, <2>7, <2>8, <2>9
<1> HIDE DEF Good
<1>9. ASSUME NEW j \in A PROVE j # 0 /\ j - 1 \in A
  <2>1. PICK d \in f[j] : ~Good(d, j)
    OBVIOUS
  <2>2. j # 0
    BY <1>3, <1>7, <2>1
  <2>3. j \in 1 .. l /\ j - 1 \in 0 .. l
    BY <2>2
  <2>4. PICK a \in f[j - 1] : d \in BooksAfter(a, execs[j])
    BY <1>3, <2>3
  <2>5. ~Good(a, j - 1)
    BY <1>8, <2>1, <2>3, <2>4
  <2> QED BY <2>2, <2>3, <2>5
<1> HIDE DEF A
<1>10. A \in SUBSET Nat
  BY DEF A
<1>11. A = {}
  BY <1>9, <1>10, Descent
<1>12. Good(c, l)
  BY <1>3, <1>11 DEF A
<1>13. Signed(OfSymbol(execs, s)) = Sums(h, l)[l]
  BY <1>1, <1>4, SignedOf DEF SumOf
<1> QED BY <1>12, <1>13 DEF Good

-----------------------------------------------------------------------------
(***************************************************************************)
(* What a synchronization of a quiet account does.                         *)
(***************************************************************************)
\* Nothing is lost of the executions that are chosen.
LEMMA ChosenHas ==
  ASSUME NEW S, NEW s \in Seq(S), NEW K, NEW k \in DOMAIN s, k \in K
  PROVE  \E j \in DOMAIN Chosen(s, K) : Chosen(s, K)[j] = s[k]
<1>1. PICK n \in Nat : n = Len(s) /\ DOMAIN s = 1 .. n /\ \A i \in 1 .. n : s[i] \in S
  OBVIOUS
<1>2. PICK ss : ss = [i \in DOMAIN s |-> IF i \in K THEN <<s[i]>> ELSE <<>>]
  OBVIOUS
<1>3. ss \in Seq(Seq(S)) /\ Len(ss) = n /\ \A i \in 1 .. n : ss[i] \in Seq(S)
  BY <1>1, <1>2
<1>4. PICK f : /\ \A i \in 1 .. n : f[i] = f[i - 1] \o ss[i]
               /\ \A i \in 0 .. n : f[i] \in Seq(S)
               /\ FlattenSeq(ss) = f[n]
  BY <1>3, FlattenIs
<1> DEFINE Has(x) == \E j \in DOMAIN x : x[j] = s[k]
           A == {i \in Nat : \E m \in k .. n : i = m - k /\ ~Has(f[m])}
<1>5. ASSUME NEW i \in A PROVE i # 0 /\ i - 1 \in A
  <2>1. PICK m \in k .. n : i = m - k /\ ~Has(f[m])
    OBVIOUS
  <2>2. m \in 1 .. n /\ m - 1 \in 0 .. n
    BY <1>1, <2>1
  <2>3. PICK a \in Seq(S), b \in Seq(S) : a = f[m - 1] /\ b = ss[m] /\ f[m] = a \o b
    BY <1>3, <1>4, <2>2
  <2>4. PICK x \in Nat, y \in Nat : x = Len(a) /\ y = Len(b)
    BY <2>3
  <2>5. PICK c \in Seq(S) : c = a \o b
    BY ConcatProperties
  <2>6. /\ Len(c) = x + y
        /\ \A j \in 1 .. x : c[j] = a[j]
        /\ \A j \in 1 .. y : c[x + j] = b[j]
    BY <2>4, <2>5, ConcatProperties
  <2>7. m # k
    <3> SUFFICES ASSUME m = k PROVE FALSE
      OBVIOUS
    <3>1. b = <<s[k]>>
      BY <1>1, <1>2, <2>3
    <3>2. y = 1 /\ b[1] = s[k]
      BY <2>4, <3>1
    <3>3. x + 1 \in DOMAIN c /\ c[x + 1] = s[k]
      BY <2>6, <3>2
    <3> QED BY <2>1, <2>3, <2>5, <3>3
  <2>8. ~Has(a)
    <3> SUFFICES ASSUME NEW j \in DOMAIN a, a[j] = s[k] PROVE FALSE
      OBVIOUS
    <3>1. j \in 1 .. x /\ j \in DOMAIN c /\ c[j] = s[k]
      BY <2>4, <2>6
    <3> QED BY <2>1, <2>3, <2>5, <3>1
  <2>9. m - 1 \in k .. n /\ i - 1 = (m - 1) - k /\ i - 1 \in Nat /\ i # 0
    BY <1>1, <2>1, <2>7
  <2> HIDE DEF Has
  <2> QED BY <2>3, <2>8, <2>9
<1> HIDE DEF A
<1>6. A \in SUBSET Nat
  BY DEF A
<1>7. A = {}
  BY <1>5, <1>6, Descent
<1>8. n \in k .. n /\ n - k \in Nat
  BY <1>1
<1> HIDE DEF Has
<1>9. Has(f[n])
  BY <1>7, <1>8 DEF A
<1> QED BY <1>2, <1>4, <1>9 DEF Chosen, Has

\* Nothing is dropped that leads from the start quantity to the position.
LEMMA AlignAll ==
  ASSUME NEW x \in Seq(Stamped), NEW p \in Int, NEW q, q = p + Signed(x)
  PROVE  Align(x, p, q) = x
<1>1. PICK n \in Nat : n = Len(x)
  OBVIOUS
<1>2. PICK fits : fits = {k \in 0 .. n : p + Signed(SubSeq(x, k + 1, n)) = q}
  OBVIOUS
<1>3. SubSeq(x, 0 + 1, n) = x
  BY <1>1, SubSeqFull
<1>4. 0 \in fits
  <2>1. PICK y : y = SubSeq(x, 0 + 1, n)
    OBVIOUS
  <2>2. p + Signed(y) = q
    BY <1>3, <2>1
  <2>3. 0 \in 0 .. n
    BY <1>1
  <2> QED BY <1>2, <2>1, <2>2, <2>3
<1>5. PICK S : S = fits \cup {n}
  OBVIOUS
<1>6. 0 \in S /\ \A y \in S : y \in Nat
  BY <1>2, <1>4, <1>5
<1>7. PICK m : m = Min(S)
  OBVIOUS
<1>8. \E y \in S : \A z \in S : y <= z
  BY <1>6
<1>9. m \in S /\ \A z \in S : m <= z
  BY <1>7, <1>8 DEF Min
<1>10. m = 0
  BY <1>6, <1>9
<1>11. Align(x, p, q) = SubSeq(x, m + 1, n)
  BY <1>1, <1>2, <1>5, <1>7 DEF Align
<1> QED BY <1>3, <1>10, <1>11

\* Nothing is stored, so nothing confirms what was fetched.
LEMMA NothingStored ==
  ASSUME now \in Nat, NEW t, NEW up
  PROVE  CheckExecutions(<<>>, t, up) = <<>>
<1>1. \A x \in Seq({}) : x = <<>>
  OBVIOUS
<1>2. ASSUME NEW k PROVE Rows(<<>>, k, up) \in Seq({})
  <2>1. PICK ss : ss = [i \in DOMAIN <<>> |-> At(<<>>[i].executions, k)]
    OBVIOUS
  <2>2. ss \in Seq(Seq({}))
    BY <2>1
  <2>3. Pieces(<<>>, k) \in Seq({})
    BY <2>1, <2>2, FlattenSeqType DEF Pieces
  <2> QED BY <2>3, ReverseType DEF Rows
<1>3. PICK ss : ss = [k \in 1 .. now |-> Rows(<<>>, k, up)]
  OBVIOUS
<1>4. ss \in Seq(Seq({}))
  BY <1>2, <1>3
<1>5. PICK x \in Seq({}) : x = FlattenSeq(ss)
  BY <1>4, FlattenSeqType
<1>6. After(x, t) \in Seq({})
  BY ChosenIs DEF After
<1> QED BY <1>1, <1>3, <1>5, <1>6, CheckIs

Unstarted == since = Never => book = <<>>

QuietInv ==
    /\ Unstarted
    /\ phase = "live" => since # Never
    /\ phase \in {"reversed", "positioned"} /\ quiet =>
          /\ since = Never => fetched = history /\ work = <<>>
          /\ Holds(Len(history)) => fetched = <<>> /\ work = book
    /\ phase = "positioned" /\ quiet => \A s \in Symbols : should[s] = Position(s)

\* The first synchronization fetches all there is.
LEMMA FetchFirst ==
  ASSUME Inv, QuietInv, Fetch, since = Never
  PROVE  fetched' = history /\ work' = <<>>
<1>1. PICK n \in Nat : n = now /\ history \in Seq(Stamped) /\ DOMAIN history = 1 .. n
                       /\ \A k \in 1 .. n : history[k].time = k
  BY DEF Inv, Clock
<1>2. book = <<>>
  BY DEF QuietInv, Unstarted
<1>3. After(history, Never) = history
  <2>1. DOMAIN history \subseteq {k \in DOMAIN history : history[k].time > Never}
    BY <1>1 DEF Never
  <2> QED BY <1>1, <2>1, ChosenAll DEF After
<1>4. PICK up \in BOOLEAN : LET v == ValidUntil(history, CheckExecutions(book, since, up), since)
                            IN  fetched' = After(history, v) /\ work' = Reversed(book, v)
  BY <1>3 DEF Fetch
<1>5. CheckExecutions(book, since, up) = <<>>
  BY <1>1, <1>2, NothingStored
<1>6. ValidUntil(history, <<>>, since) = Never
  BY <1>1, FirstIs
<1>7. fetched' = After(history, Never) /\ work' = Reversed(<<>>, Never)
  BY <1>2, <1>4, <1>5, <1>6
<1>8. Reversed(<<>>, Never) = <<>>
  <2>1. BookOk(<<>>, Never) /\ Never \in Int
    BY DEF BookOk, Never
  <2> QED BY <2>1, ReversedAll
<1> QED BY <1>3, <1>7, <1>8

\* When nothing is missing, nothing is fetched and no trade is reversed.
LEMMA FetchNothing ==
  ASSUME Inv, QuietInv, Fetch, Holds(Len(history))
  PROVE  fetched' = <<>> /\ work' = book
<1>1. PICK n \in Nat : n = now /\ n = Len(history) /\ history \in Seq(Stamped)
                       /\ DOMAIN history = 1 .. n /\ \A k \in 1 .. n : history[k].time = k
  BY DEF Inv, Clock
<1>2. BookOk(book, n)
  BY <1>1 DEF Inv, BookKept
<1>3. CASE since = Never
  <2>1. fetched' = history /\ work' = <<>> /\ book = <<>>
    BY <1>3, FetchFirst DEF QuietInv, Unstarted
  <2>2. n = 0
    <3> SUFFICES ASSUME n # 0 PROVE FALSE
      OBVIOUS
    <3>1. 1 \in 1 .. n /\ history[1] \in Stamped /\ history[1].time = 1
      BY <1>1
    <3>2. Held(<<>>, 1) = history[1].qty
      BY <1>1, <2>1, <3>1 DEF Holds, Recorded, Held
    <3>3. Held(<<>>, 1) = 0
      <4>1. PICK b \in Seq(Filed) : b = <<>>
        BY EmptySeq
      <4>2. DOMAIN b = {}
        BY <4>1
      <4>3. Held(b, 1) = 0
        BY <4>2, HeldNone
      <4> QED BY <4>1, <4>3
    <3> QED BY <3>1, <3>2, <3>3, SignedQty
  <2> QED BY <1>1, <2>1, <2>2
<1>4. CASE since # Never
  <2>1. PICK t \in Nat : t = since /\ t <= n
    BY <1>1, <1>4 DEF Inv, Shape
  <2>2. PICK up \in BOOLEAN : \E v :
          /\ v = ValidUntil(After(history, since), CheckExecutions(book, since, up), since)
          /\ fetched' = After(After(history, since), v)
          /\ work' = Reversed(book, v)
    BY DEF Fetch
  <2>3. PICK v :
          /\ v = ValidUntil(After(history, since), CheckExecutions(book, since, up), since)
          /\ fetched' = After(After(history, since), v)
          /\ work' = Reversed(book, v)
    BY <2>2
  <2>4. /\ v \in Int /\ since <= v /\ v <= now /\ Fresh(fetched', v)
        /\ \A j \in DOMAIN fetched' : fetched'[j].time \in 1 .. now
    BY <2>3, FetchedOk
  <2>5. v = n
    <3>1. CASE t < n
      BY <1>1, <2>1, <2>3, <3>1, ConfirmedIs
    <3>2. CASE t = n
      BY <1>1, <2>1, <2>4, <3>2
    <3> QED BY <2>1, <3>1, <3>2
  <2>6. DOMAIN fetched' = {}
    <3> SUFFICES ASSUME NEW j \in DOMAIN fetched' PROVE FALSE
      OBVIOUS
    <3>1. fetched'[j].time \in 1 .. n /\ n < fetched'[j].time
      BY <1>1, <2>4, <2>5 DEF Fresh
    <3> QED BY <3>1
  <2>7. fetched' = <<>>
    <3>1. PICK x \in Seq(Stamped) : x = fetched'
      BY <2>4 DEF Fresh
    <3>2. DOMAIN x = {}
      BY <2>6, <3>1
    <3>3. x = <<>>
      BY <3>2
    <3> QED BY <3>1, <3>3
  <2>8. work' = book
    BY <1>2, <2>3, <2>5, ReversedAll
  <2> QED BY <2>7, <2>8
<1> QED BY <1>3, <1>4

LEMMA QuietNext == Inv /\ QuietInv /\ [Next]_vars => QuietInv'
<1> SUFFICES ASSUME Inv, QuietInv, [Next]_vars PROVE QuietInv'
  OBVIOUS
<1>1. ASSUME NEW s \in Symbols, NEW side \in Sides, NEW qty \in Qtys, Fill(s, side, qty)
      PROVE  QuietInv'
  <2>1. quiet' = FALSE /\ since' = since /\ phase' = phase /\ (book' = book \/ phase = "live")
    BY <1>1 DEF Fill
  <2> QED BY <2>1 DEF QuietInv, Unstarted
<1>2. CASE Begin
  BY <1>2 DEF Begin, QuietInv, Unstarted
<1>3. CASE Fetch
  <2>1. UNCHANGED <<history, book, since, quiet>> /\ phase' = "reversed"
    BY <1>3 DEF Fetch, exchange, stored
  <2>2. Holds(Len(history))' = Holds(Len(history))
    BY <2>1 DEF Holds, Recorded
  <2> QED BY <1>3, <2>1, <2>2, FetchFirst, FetchNothing DEF QuietInv, Unstarted
<1>4. CASE Positions
  <2>1. UNCHANGED <<history, book, since, quiet, fetched, work>>
        /\ phase = "reversed" /\ phase' = "positioned"
        /\ should' = [s \in Symbols |-> Signed(OfSymbol(history, s))]
    BY <1>4 DEF Positions, exchange, stored
  <2>2. Holds(Len(history))' = Holds(Len(history)) /\ \A s : Position(s)' = Position(s)
    BY <2>1 DEF Holds, Recorded, Position
  <2>3. \A s \in Symbols : should'[s] = Position(s)
    BY <2>1 DEF Position
  <2> QED BY <2>1, <2>2, <2>3 DEF QuietInv, Unstarted
<1>5. CASE Finish
  <2>1. phase' = "live" /\ since' = now /\ now # Never
    BY <1>5 DEF Finish, Inv, Clock, Never
  <2> QED BY <2>1 DEF QuietInv, Unstarted
<1>6. CASE Stop
  <2>1. UNCHANGED <<book, since>> /\ phase' = "down"
    BY <1>6 DEF Stop, stored
  <2> QED BY <2>1 DEF QuietInv, Unstarted
<1>7. CASE UNCHANGED vars
  <2>1. UNCHANGED <<history, book, since, phase, fetched, work, should, quiet>>
    BY <1>7 DEF vars, exchange, stored, session
  <2>2. Holds(Len(history))' = Holds(Len(history)) /\ \A s : Position(s)' = Position(s)
    BY <2>1 DEF Holds, Recorded, Position
  <2> QED BY <2>1, <2>2 DEF QuietInv, Unstarted
<1> QED BY <1>1, <1>2, <1>3, <1>4, <1>5, <1>6, <1>7 DEF Next

LEMMA QuietHolds == Spec => []QuietInv
<1>1. Init => QuietInv
  BY DEF Init, QuietInv, Unstarted
<1> QED BY <1>1, InvHolds, QuietNext, PTL DEF Spec

LEMMA FirstFinish ==
  ASSUME Inv, QuietInv, Finish, quiet, since = Never
  PROVE  TradesShowPosition'
<1>1. PICK n \in Nat : n = now /\ history \in Seq(Stamped) /\ DOMAIN history = 1 .. n
                       /\ \A k \in 1 .. n : history[k].time = k
  BY DEF Inv, Clock
<1>2. /\ phase = "positioned" /\ history' = history
      /\ book = <<>> /\ fetched = history /\ work = <<>>
      /\ \A s \in Symbols : should[s] = Position(s)
  BY DEF Finish, exchange, QuietInv, Unstarted
<1>3. \A s : StartQtys(s) = {0}
  <2>1. DOMAIN book = {}
    BY <1>2
  <2> QED BY <2>1 DEF StartQtys
<1>4. PICK start :
        /\ \A s \in Symbols : start[s] \in StartQtys(s)
        /\ book' \in AddAll(work, Chosen(fetched, {k \in DOMAIN fetched :
              Contains(Align(OfSymbol(fetched, fetched[k].symbol),
                             start[fetched[k].symbol], should[fetched[k].symbol]), fetched[k])}))
  BY DEF Finish
<1>5. ASSUME NEW k \in 1 .. n
      PROVE  Contains(Align(OfSymbol(history, history[k].symbol),
                            start[history[k].symbol], should[history[k].symbol]), history[k])
  <2>1. PICK e \in Stamped : e = history[k]
    BY <1>1
  <2>2. PICK s \in Symbols : s = e.symbol
    BY DEF Stamped
  <2>3. PICK K : K = {i \in DOMAIN history : history[i].symbol = s}
    OBVIOUS
  <2>4. PICK x \in Seq(Stamped) : x = OfSymbol(history, s) /\ x = Chosen(history, K)
    BY <1>1, <2>3, ChosenIs DEF OfSymbol
  <2>5. start[s] = 0 /\ should[s] = Signed(x)
    BY <1>2, <1>3, <1>4, <2>4 DEF Position
  <2>6. Align(x, start[s], should[s]) = x
    <3>1. 0 + Signed(x) = Signed(x)
      BY SignedIs
    <3> QED BY <2>5, <3>1, AlignAll
  <2>7. k \in DOMAIN history /\ k \in K
    BY <1>1, <2>1, <2>2, <2>3
  <2>8. \E j \in DOMAIN x : x[j] = e
    BY <1>1, <2>1, <2>4, <2>7, ChosenHas
  <2>9. Contains(x, e)
    BY <2>8 DEF Contains
  <2> QED BY <2>1, <2>2, <2>4, <2>6, <2>9
<1>6. PICK K : /\ K = {k \in DOMAIN fetched :
                        Contains(Align(OfSymbol(fetched, fetched[k].symbol),
                                       start[fetched[k].symbol], should[fetched[k].symbol]),
                                 fetched[k])}
               /\ book' \in AddAll(work, Chosen(fetched, K))
  BY <1>4
<1>7. DOMAIN history \subseteq K
  BY <1>1, <1>2, <1>5, <1>6
<1>8. Chosen(fetched, K) = history
  BY <1>1, <1>2, <1>7, ChosenAll
<1>9. PICK c : c = book' /\ c \in AddAll(<<>>, history)
  BY <1>2, <1>6, <1>8
<1>10. Fresh(history, 0)
  BY <1>1 DEF Fresh
<1>11. ASSUME NEW s \in Symbols PROVE Shows(book', s, Position(s))
  <2>1. BookOk(<<>>, 0)
    BY DEF BookOk
  <2>2. Shows(<<>>, s, 0)
    BY DEF Shows, Open
  <2>3. PICK p \in Int : p = Signed(OfSymbol(history, s))
    <3>1. OfSymbol(history, s) \in Seq(Stamped)
      BY <1>1, ChosenIs DEF OfSymbol
    <3> QED BY <3>1, SignedIs
  <2>4. Shows(c, s, 0 + Signed(OfSymbol(history, s)))
    BY <1>9, <1>10, <2>1, <2>2, AddAllShows
  <2>5. 0 + Signed(OfSymbol(history, s)) = p
    BY <2>3
  <2> QED BY <1>9, <2>3, <2>4, <2>5 DEF Position
<1>12. \A s : Position(s)' = Position(s)
  BY <1>2 DEF Position
<1>13. ASSUME NEW s \in Symbols
       PROVE  IF Position(s)' = 0 THEN OpenTrades(s)' = {}
              ELSE \E i \in OpenTrades(s)' : /\ OpenTrades(s)' = {i}
                                             /\ Exposure(book'[i]) = Position(s)'
  BY <1>11, <1>12 DEF Shows, Open, OpenTrades
<1> QED BY <1>13 DEF TradesShowPosition

\* The first synchronization of an account that does not trade meanwhile leaves
\* one open trade per position, with its side and quantity, and none else.
THEOREM FirstSyncExact == Spec => FirstSyncIsExact
<1>1. Inv /\ QuietInv /\ [Next]_vars
      => [Finish /\ quiet /\ since = Never => TradesShowPosition']_vars
  BY FirstFinish
<1> QED BY <1>1, InvHolds, QuietHolds, PTL DEF Spec, FirstSyncIsExact

\* A synchronization of an account that did not trade since, and of which
\* every execution is stored, in however many pieces, leaves the book as it is.
THEOREM SyncRepeats == Spec => SyncIsIdempotent
<1>1. ASSUME Inv, QuietInv, Finish, quiet, Holds(Len(history)) PROVE book' = book
  <2>1. fetched = <<>> /\ work = book
    BY <1>1 DEF QuietInv, Finish
  <2>2. PICK K : book' \in AddAll(work, Chosen(fetched, K))
    BY <1>1 DEF Finish
  <2>3. PICK x \in Seq(Stamped) : x = <<>>
    BY EmptySeq
  <2>4. Chosen(x, K) = x
    <3>1. DOMAIN x \subseteq K
      BY <2>3
    <3> QED BY <3>1, ChosenAll
  <2>5. AddAll(book, x) = {book}
    <3>1. Len(x) = 0
      BY <2>3
    <3> QED BY <3>1, AddAllIs
  <2> QED BY <2>1, <2>2, <2>3, <2>4, <2>5
<1>2. Inv /\ QuietInv /\ [Next]_vars
      => [Finish /\ quiet /\ Holds(Len(history)) => book' = book]_vars
  BY <1>1
<1> QED BY <1>2, InvHolds, QuietHolds, PTL DEF Spec, SyncIsIdempotent

-----------------------------------------------------------------------------
(***************************************************************************)
(* What the stored trades are made of: executions of the account, or parts *)
(* of them, each of the trade's symbol.                                    *)
(***************************************************************************)
PartOf(e, h) ==
    /\ e.time \in 1 .. Len(h)
    /\ e.symbol = h[e.time].symbol
    /\ e.side = h[e.time].side

Told(h) ==
    {t \in Filed : \A j \in DOMAIN t.executions :
        t.executions[j].symbol = t.symbol /\ PartOf(t.executions[j], h)}

LEMMA ToldLonger ==
  ASSUME NEW h \in Seq(Stamped), NEW g \in Seq(Stamped), Len(h) <= Len(g),
         \A k \in 1 .. Len(h) : g[k] = h[k]
  PROVE  Told(h) \subseteq Told(g)
<1>1. \A k \in 1 .. Len(h) : k \in 1 .. Len(g)
  OBVIOUS
<1> QED BY <1>1 DEF Told, PartOf

LEMMA ToldOne ==
  ASSUME NEW h, NEW e \in Stamped, PartOf(e, h)
  PROVE  FromExecution(e) \in Told(h)
<1>1. e.time \in Int /\ e.time <= e.time
  BY DEF Stamped
<1>2. PICK t : t = FromExecution(e)
  OBVIOUS
<1>3. t \in Filed /\ t.symbol = e.symbol /\ t.executions = <<e>>
  BY <1>1, <1>2, FromExecutionOk DEF TradeOk
<1>4. PICK x : x = t.executions /\ DOMAIN x = {1} /\ x[1] = e
  BY <1>3
<1> QED BY <1>2, <1>3, <1>4 DEF Told

\* A part of an execution is of the same execution.
LEMMA ToldAdded ==
  ASSUME NEW h, NEW n \in Int, NEW t \in Told(h), TradeOk(t, n), IsOpen(t),
         NEW e \in Stamped, e.time > n, e.symbol = t.symbol, PartOf(e, h)
  PROVE  AddExecution(t, e) \in Told(h)
<1>1. PICK r : r = AddExecution(t, e)
  OBVIOUS
<1>2. r \in Filed /\ r.symbol = t.symbol
  BY <1>1, AddOk DEF TradeOk
<1>3. PICK d \in Stamped : /\ r.executions = Append(t.executions, d)
                           /\ d.time = e.time /\ d.side = e.side /\ d.symbol = e.symbol
  BY <1>1, AddOk
<1>4. PICK x \in Seq(Stamped), l \in Nat : x = t.executions /\ l = Len(x) /\ DOMAIN x = 1 .. l
  BY DEF Told, Filed
<1>5. PICK y \in Seq(Stamped) : y = Append(x, d)
  BY AppendProperties
<1>6. /\ DOMAIN y = 1 .. l + 1 /\ y[l + 1] = d
      /\ \A j \in 1 .. l : y[j] = x[j]
  BY <1>4, <1>5
<1>7. PartOf(d, h) /\ d.symbol = t.symbol
  BY <1>3 DEF PartOf
<1>8. \A j \in 1 .. l : x[j].symbol = t.symbol /\ PartOf(x[j], h)
  BY <1>4 DEF Told
<1>9. \A j \in 1 .. l + 1 : j \in 1 .. l \/ j = l + 1
  OBVIOUS
<1>10. \A j \in 1 .. l + 1 : y[j].symbol = t.symbol /\ PartOf(y[j], h)
  BY <1>6, <1>7, <1>8, <1>9
<1>11. r.executions = y
  BY <1>3, <1>4, <1>5
<1> QED BY <1>1, <1>2, <1>6, <1>10, <1>11 DEF Told

LEMMA ToldStep ==
  ASSUME NEW h, NEW b \in Seq(Told(h)), NEW n \in Int, BookOk(b, n),
         NEW e \in Stamped, e.time > n, PartOf(e, h), NEW c \in BooksAfter(b, e)
  PROVE  c \in Seq(Told(h))
<1> DEFINE T == Told(h)
<1>1. b \in Seq(T)
  OBVIOUS
<1>2. CASE Matching(b, e) = {}
  <2>1. c = Append(b, FromExecution(e))
    BY <1>2, MatchingOpen
  <2>2. FromExecution(e) \in T
    BY ToldOne
  <2> HIDE DEF T
  <2>3. c \in Seq(T)
    BY <1>1, <2>1, <2>2, AppendProperties
  <2> QED BY <2>3 DEF T
<1>3. CASE Matching(b, e) # {}
  <2>1. PICK i \in TradeFor(b, e) : c = AddTo(b, i, e)
    BY <1>3, MatchingOpen
  <2>2. i \in DOMAIN b /\ b[i].symbol = e.symbol /\ IsOpen(b[i])
    BY <2>1, MatchingOpen
  <2>3. PICK t \in T : t = b[i]
    <3> HIDE DEF T
    <3> QED BY <1>1, <2>2
  <2>4. TradeOk(t, n) /\ t \in Filed
    BY <2>2, <2>3 DEF BookOk, TradeOk
  <2>5. PICK r \in T : r = AddExecution(t, e)
    <3>1. t \in Told(h) /\ TradeOk(t, n) /\ IsOpen(t) /\ e.symbol = t.symbol
      BY <2>2, <2>3, <2>4
    <3> QED BY <3>1, ToldAdded
  <2>6. PICK a \in Seq(T) : a = [b EXCEPT ![i] = r]
    <3>1. r \in T
      BY <2>5
    <3> HIDE DEF T
    <3>2. [b EXCEPT ![i] = r] \in Seq(T)
      BY <1>1, <2>2, <3>1, ExceptSeq
    <3> QED BY <3>2
  <2>7. NewTrade(t, e) \in Seq(T)
    <3>1. CASE Shrinks(t, e) /\ e.qty > t.open_qty
      <4>1. NewTrade(t, e) = <<FromExecution(Rest(t, e))>>
        BY <3>1 DEF NewTrade
      <4>2. PICK f \in Stamped : f = Rest(t, e) /\ PartOf(f, h)
        BY <2>4, <3>1, RestIs DEF PartOf
      <4>3. FromExecution(f) \in T
        BY <4>2, ToldOne
      <4> HIDE DEF T
      <4> QED BY <4>1, <4>2, <4>3
    <3>2. CASE ~(Shrinks(t, e) /\ e.qty > t.open_qty)
      <4>1. NewTrade(t, e) = <<>>
        BY <3>2 DEF NewTrade, Rejects, Stamped
      <4> HIDE DEF T
      <4> QED BY <4>1
    <3> QED BY <3>1, <3>2
  <2>8. PICK z \in Seq(T) : z = NewTrade(t, e)
    BY <2>7
  <2>9. c = a \o z
    BY <2>1, <2>3, <2>5, <2>6, <2>8 DEF AddTo
  <2> HIDE DEF T
  <2>10. c \in Seq(T)
    BY <2>9, ConcatProperties
  <2> QED BY <2>10 DEF T
<1> QED BY <1>2, <1>3

LEMMA ToldReversed ==
  ASSUME NEW h, NEW b \in Seq(Told(h)), NEW n \in Int, BookOk(b, n), NEW date \in Int
  PROVE  Reversed(b, date) \in Seq(Told(h))
<1>1. PICK T : T = Told(h)
  OBVIOUS
<1>2. ASSUME NEW i \in DOMAIN b PROVE ReverseTo(b[i], date) \in Seq(T)
  <2>1. PICK t \in T : t = b[i]
    BY <1>1
  <2>2. TradeOk(t, n)
    BY <2>1 DEF BookOk
  <2>3. CASE date > Head(t.executions).time
    <3>1. PICK r : r = Rebuilt(t, date)
      OBVIOUS
    <3>2. Head(t.executions) = t.executions[1] /\ t.executions[1].time \in Int
      <4>1. PICK x \in Seq(Stamped) : x = t.executions /\ x # <<>>
        BY <2>2 DEF TradeOk, Filed
      <4>2. Head(x) = x[1] /\ x[1] \in Stamped
        BY <4>1
      <4>3. x[1].time \in Int
        BY <4>2 DEF Stamped
      <4> QED BY <4>1, <4>2, <4>3
    <3>3. t.executions[1].time < date
      BY <2>3, <3>2
    <3>4. /\ TradeOk(r, date) /\ r.symbol = t.symbol
          /\ Len(r.executions) <= Len(t.executions)
          /\ \A j \in DOMAIN r.executions : r.executions[j] = t.executions[j]
      BY <2>2, <3>1, <3>3, RebuiltOk
    <3>5. PICK x \in Seq(Stamped), y \in Seq(Stamped) : x = t.executions /\ y = r.executions
      BY <2>2, <3>4 DEF TradeOk, Filed
    <3>6. \A j \in DOMAIN y : j \in DOMAIN x
      BY <3>4, <3>5
    <3>7. r \in T
      BY <1>1, <2>1, <3>4, <3>5, <3>6 DEF Told, TradeOk
    <3>8. ReverseTo(t, date) = <<t>> \/ ReverseTo(t, date) = <<r>>
      <4>1. CASE Last(t.executions).time <= date
        BY <4>1 DEF ReverseTo
      <4>2. CASE ~(Last(t.executions).time <= date)
        BY <2>3, <3>1, <4>2 DEF ReverseTo
      <4> QED BY <4>1, <4>2
    <3>9. <<t>> \in Seq(T) /\ <<r>> \in Seq(T)
      BY <3>7
    <3>10. ReverseTo(t, date) \in Seq(T)
      BY <3>8, <3>9, ZenonT(30)
    <3> QED BY <2>1, <3>10, ZenonT(30)
  <2>4. CASE ~(date > Head(t.executions).time)
    <3>1. ReverseTo(t, date) = <<t>> \/ ReverseTo(t, date) = <<>>
      <4>1. CASE Last(t.executions).time <= date
        BY <4>1 DEF ReverseTo
      <4>2. CASE ~(Last(t.executions).time <= date)
        BY <2>4, <4>2 DEF ReverseTo
      <4> QED BY <4>1, <4>2
    <3>2. <<t>> \in Seq(T) /\ <<>> \in Seq(T)
      OBVIOUS
    <3>3. ReverseTo(t, date) \in Seq(T)
      BY <3>1, <3>2, ZenonT(30)
    <3> QED BY <2>1, <3>3, ZenonT(30)
  <2> QED BY <2>3, <2>4
<1>3. PICK ss : ss = [i \in DOMAIN b |-> ReverseTo(b[i], date)]
  OBVIOUS
<1>4. ss \in Seq(Seq(T))
  BY <1>2, <1>3
<1> QED BY <1>1, <1>3, <1>4, FlattenSeqType DEF Reversed

LEMMA ToldAll ==
  ASSUME NEW h, NEW b \in Seq(Told(h)), NEW n \in Int, BookOk(b, n),
         NEW execs, Fresh(execs, n), \A j \in DOMAIN execs : PartOf(execs[j], h),
         NEW c \in AddAll(b, execs)
  PROVE  c \in Seq(Told(h))
<1>1. PICK l \in Nat : l = Len(execs) /\ DOMAIN execs = 1 .. l /\ execs \in Seq(Stamped)
  BY DEF Fresh
<1>2. \A j \in 1 .. l : /\ execs[j] \in Stamped /\ execs[j].time \in Int /\ n < execs[j].time
                        /\ \A i \in 1 .. j - 1 : execs[i].time < execs[j].time
  <2>1. \A j \in 1 .. l : execs[j] \in Stamped
    BY <1>1
  <2>2. \A j \in 1 .. l : execs[j].time \in Int
    BY <2>1 DEF Stamped
  <2> QED BY <1>1, <2>1, <2>2 DEF Fresh
<1>3. PICK f : /\ f[0] = {b}
               /\ \A k \in 1 .. l : \A d :
                     d \in f[k] <=> \E a \in f[k - 1] : d \in BooksAfter(a, execs[k])
               /\ AddAll(b, execs) = f[l]
  BY <1>1, AddAllIs
<1> DEFINE T(j) == IF j = 0 THEN n ELSE execs[j].time
           Good(d, j) == BookOk(d, T(j)) /\ d \in Seq(Told(h))
           A == {j \in 0 .. l : \E d \in f[j] : ~Good(d, j)}
<1>4. Good(b, 0)
  OBVIOUS
<1>5. ASSUME NEW j \in 1 .. l, NEW a, Good(a, j - 1), NEW d \in BooksAfter(a, execs[j])
      PROVE  Good(d, j)
  <2>1. PICK e \in Stamped : e = execs[j]
    BY <1>2
  <2>2. PICK t \in Int : t = T(j - 1) /\ t < e.time
    <3>1. CASE j = 1
      BY <1>2, <2>1, <3>1
    <3>2. CASE j # 1
      <4>1. j - 1 \in 1 .. l /\ j - 1 \in 1 .. j - 1
        BY <3>2
      <4>2. T(j - 1) = execs[j - 1].time
        BY <3>2
      <4> QED BY <1>2, <2>1, <4>1, <4>2
    <3> QED BY <3>1, <3>2
  <2>3. BookOk(a, t) /\ a \in Seq(Told(h)) /\ d \in BooksAfter(a, e)
    BY <1>5, <2>1, <2>2
  <2>4. BookOk(d, e.time)
    BY <2>2, <2>3, BookStep
  <2>5. PartOf(e, h)
    BY <1>1, <2>1
  <2>6. d \in Seq(Told(h))
    BY <2>2, <2>3, <2>5, ToldStep
  <2>7. T(j) = e.time
    BY <2>1
  <2> QED BY <2>4, <2>6, <2>7
<1> HIDE DEF Good
<1>6. ASSUME NEW j \in A PROVE j # 0 /\ j - 1 \in A
  <2>1. PICK d \in f[j] : ~Good(d, j)
    OBVIOUS
  <2>2. j # 0
    BY <1>3, <1>4, <2>1
  <2>3. j \in 1 .. l /\ j - 1 \in 0 .. l
    BY <2>2
  <2>4. PICK a \in f[j - 1] : d \in BooksAfter(a, execs[j])
    BY <1>3, <2>3
  <2>5. ~Good(a, j - 1)
    BY <1>5, <2>1, <2>3, <2>4
  <2> QED BY <2>2, <2>3, <2>5
<1> HIDE DEF A
<1>7. A \in SUBSET Nat
  BY DEF A
<1>8. A = {}
  BY <1>6, <1>7, Descent
<1>9. Good(c, l)
  BY <1>3, <1>8 DEF A
<1> QED BY <1>9 DEF Good

ToldInv == book \in Seq(Told(history))

LEMMA ToldNext == Inv /\ ToldInv /\ [Next]_vars => ToldInv'
<1> SUFFICES ASSUME Inv, ToldInv, [Next]_vars PROVE ToldInv'
  OBVIOUS
<1>0. PICK n \in Nat : n = now /\ n = Len(history) /\ history \in Seq(Stamped)
                       /\ \A k \in 1 .. n : history[k].time = k
  BY DEF Inv, Clock
<1>1. ASSUME NEW s \in Symbols, NEW side \in Sides, NEW qty \in Qtys, Fill(s, side, qty)
      PROVE  ToldInv'
  <2>1. PICK e \in Stamped : e = Execution(s, side, qty) /\ e.time = n + 1
    BY <1>0, ExecutionIs
  <2>2. PICK h \in Seq(Stamped) : h = history' /\ h = Append(history, e)
    BY <1>0, <1>1, <2>1 DEF Fill
  <2>3. Len(h) = n + 1 /\ h[n + 1] = e /\ \A k \in 1 .. n : h[k] = history[k]
    BY <1>0, <2>2
  <2>4. Told(history) \subseteq Told(h)
    BY <1>0, <2>3, ToldLonger
  <2>5. book \in Seq(Told(h))
    <3>1. PICK S, R : S = Told(history) /\ R = Told(h)
      OBVIOUS
    <3>2. book \in Seq(S) /\ S \subseteq R
      BY <2>4, <3>1 DEF ToldInv
    <3>3. book \in Seq(R)
      BY <3>2
    <3> QED BY <3>1, <3>3
  <2>6. book' = book \/ book' \in BooksAfter(book, e)
    BY <1>1, <2>1 DEF Fill
  <2>7. BookOk(book, n) /\ PartOf(e, h)
    BY <1>0, <2>1, <2>3 DEF Inv, BookKept, PartOf
  <2>8. book' \in BooksAfter(book, e) => book' \in Seq(Told(h))
    BY <2>1, <2>5, <2>7, ToldStep
  <2> QED BY <2>2, <2>5, <2>6, <2>8 DEF ToldInv
<1>2. CASE UNCHANGED <<book, history>>
  BY <1>2 DEF ToldInv
<1>3. CASE Finish
  <2>1. PICK v \in Int : \E added :
            /\ ValidTo(v)
            /\ Fresh(added, v)
            /\ \A j \in DOMAIN added : \E p \in DOMAIN fetched : added[j] = fetched[p]
            /\ book' \in AddAll(work, added)
    BY <1>3, FinishIs
  <2>2. PICK added :
            /\ ValidTo(v)
            /\ Fresh(added, v)
            /\ \A j \in DOMAIN added : \E p \in DOMAIN fetched : added[j] = fetched[p]
            /\ book' \in AddAll(work, added)
    BY <2>1
  <2>3. BookOk(book, n) /\ book \in Seq(Told(history)) /\ work = Reversed(book, v)
    BY <1>0, <2>2 DEF Inv, BookKept, ToldInv, ValidTo
  <2>4. BookOk(work, v) /\ work \in Seq(Told(history))
    BY <2>3, ReversedOk, ToldReversed
  <2>5. \A j \in DOMAIN added : PartOf(added[j], history)
    BY <1>0, <2>2 DEF ValidTo, PartOf
  <2>6. book' \in Seq(Told(history))
    BY <2>2, <2>4, <2>5, ToldAll
  <2>7. history' = history
    BY <1>3 DEF Finish, exchange
  <2> QED BY <2>6, <2>7 DEF ToldInv
<1> QED BY <1>1, <1>2, <1>3 DEF Next, Begin, Fetch, Positions, Stop, vars, exchange, stored

LEMMA ToldHolds == Spec => []ToldInv
<1>1. Init => ToldInv
  BY DEF Init, ToldInv
<1> QED BY <1>1, InvHolds, ToldNext, PTL DEF Spec

-----------------------------------------------------------------------------
(***************************************************************************)
(* What the stored trades show: of each execution as much as they hold.    *)
(***************************************************************************)
LEMMA TotalBoth ==
  ASSUME NEW S, NEW y \in Seq(S), NEW u, NEW v, NEW w,
         \A e \in S : u[e] \in Int /\ v[e] \in Int /\ w[e] = u[e] + v[e]
  PROVE  Total(w, y) = Total(u, y) + Total(v, y)
<1>1. PICK n \in Nat : n = Len(y) /\ DOMAIN y = 1 .. n /\ \A k \in 1 .. n : y[k] \in S
  OBVIOUS
<1>2. PICK f, g, h : /\ f = [k \in DOMAIN y |-> u[y[k]]]
                     /\ g = [k \in DOMAIN y |-> v[y[k]]]
                     /\ h = [k \in DOMAIN y |-> w[y[k]]]
  OBVIOUS
<1>3. \A k \in 1 .. n : f[k] \in Int /\ g[k] \in Int /\ h[k] = f[k] + g[k]
  BY <1>1, <1>2
<1>4. SumOf(h, n) = SumOf(f, n) + SumOf(g, n)
  BY <1>3, SumOfBoth
<1> QED BY <1>1, <1>2, <1>4 DEF Total

LEMMA TotalSame ==
  ASSUME NEW S, NEW y \in Seq(S), NEW u, NEW w, \A e \in S : u[e] = w[e]
  PROVE  Total(u, y) = Total(w, y)
<1>1. \A k \in DOMAIN y : y[k] \in S
  OBVIOUS
<1>2. [k \in DOMAIN y |-> u[y[k]]] = [k \in DOMAIN y |-> w[y[k]]]
  BY <1>1
<1> QED BY <1>2 DEF Total

LEMMA TotalNothing ==
  ASSUME NEW S, NEW y \in Seq(S), NEW w, \A e \in S : w[e] = 0
  PROVE  Total(w, y) = 0
<1>1. PICK n \in Nat : n = Len(y) /\ DOMAIN y = 1 .. n /\ \A k \in 1 .. n : y[k] \in S
  OBVIOUS
<1>2. PICK f : f = [k \in DOMAIN y |-> w[y[k]]]
  OBVIOUS
<1>3. \A k \in 1 .. n : f[k] = 0
  BY <1>1, <1>2
<1>4. SumOf(f, n) = 0
  BY <1>3, SumOfNothing
<1> QED BY <1>1, <1>2, <1>4 DEF Total

\* What the executions of a trade come to is what it has open.
LEMMA TradeTotal ==
  ASSUME NEW t, NEW n \in Int, TradeOk(t, n)
  PROVE  Total(Effect, t.executions) = Exposure(t)
<1>1. PICK x \in Seq(Stamped), l \in Nat :
        x = t.executions /\ l = Len(x) /\ l # 0 /\ DOMAIN x = 1 .. l
        /\ \A k \in 1 .. l : x[k] \in Stamped
  BY DEF TradeOk, Filed
<1>2. t \in Filed /\ t.side \in Sides /\ x[1].side = t.side
  BY <1>1 DEF TradeOk, Filed
<1>3. PICK o : OpenRun(t, o)
  BY DEF TradeOk
<1>4. /\ o[1] = x[1].qty /\ o[l] = t.open_qty
      /\ \A k \in 1 .. l : /\ o[k] \in Nat
                           /\ k # 1 => o[k] = IF x[k].side = t.side THEN o[k - 1] + x[k].qty
                                              ELSE o[k - 1] - x[k].qty
  BY <1>1, <1>3 DEF OpenRun
<1>5. PICK f : f = [k \in DOMAIN x |-> Effect[x[k]]]
  OBVIOUS
<1>6. \A k \in 1 .. l : /\ x[k].side \in Sides /\ x[k].qty \in Nat
                        /\ f[k] = IF x[k].side = "BUY" THEN x[k].qty ELSE 0 - x[k].qty
  <2>1. \A e \in Stamped : /\ e.side \in Sides /\ e.qty \in Nat
                           /\ Effect[e] = IF e.side = "BUY" THEN e.qty ELSE 0 - e.qty
    <3>1. \A e \in Stamped : e.side \in Sides
      BY DEF Stamped
    <3> QED BY <3>1, SignedQty DEF Effect
  <2> QED BY <1>1, <1>5, <2>1
<1> DEFINE Way(q) == IF t.side = "BUY" THEN q ELSE 0 - q
           A == {k \in 1 .. l : Sums(f, l)[k] # Way(o[k])}
<1>7. ASSUME NEW k \in A PROVE k # 0 /\ k - 1 \in A
  <2>1. k \in 1 .. l /\ k \in 0 .. l /\ k # 0
    OBVIOUS
  <2>2. Sums(f, l)[k] = Sums(f, l)[k - 1] + f[k]
    BY <2>1, SumsAre
  <2>3. k # 1
    <3> SUFFICES ASSUME k = 1 PROVE FALSE
      OBVIOUS
    <3>1. Sums(f, l)[0] = 0
      <4>1. 0 \in 0 .. l
        OBVIOUS
      <4> QED BY <4>1, SumsAre
    <3>2. Sums(f, l)[1] = f[1]
      BY <1>6, <2>1, <2>2, <3>1
    <3>3. f[1] = Way(o[1])
      BY <1>2, <1>4, <1>6, <2>1
    <3> QED BY <3>2, <3>3
  <2>4. k - 1 \in 1 .. l
    BY <2>1, <2>3
  <2>5. o[k] \in Nat /\ o[k - 1] \in Nat
        /\ o[k] = IF x[k].side = t.side THEN o[k - 1] + x[k].qty ELSE o[k - 1] - x[k].qty
    BY <1>4, <2>1, <2>3, <2>4
  <2>6. Sums(f, l)[k - 1] = Way(o[k - 1]) => Sums(f, l)[k] = Way(o[k])
    <3>1. PICK q \in Nat, a \in Nat, b \in Nat :
            q = x[k].qty /\ a = o[k - 1] /\ b = o[k]
            /\ b = IF x[k].side = t.side THEN a + q ELSE a - q
      BY <1>6, <2>1, <2>5
    <3>2. x[k].side \in {"BUY", "SELL"} /\ t.side \in {"BUY", "SELL"}
      BY <1>2, <1>6, <2>1 DEF Sides
    <3>3. f[k] = IF x[k].side = "BUY" THEN q ELSE 0 - q
      BY <1>6, <2>1, <3>1
    <3>4. Way(b) = Way(a) + f[k]
      <4>1. CASE t.side = "BUY"
        <5>1. Way(b) = b /\ Way(a) = a
          BY <4>1
        <5>2. CASE x[k].side = "BUY"
          <6>1. b = a + q /\ f[k] = q
            BY <3>1, <3>3, <4>1, <5>2
          <6> HIDE DEF Way
          <6> QED BY <5>1, <6>1
        <5>3. CASE x[k].side # "BUY"
          <6>1. b = a - q /\ f[k] = 0 - q
            BY <3>1, <3>3, <4>1, <5>3
          <6> HIDE DEF Way
          <6> QED BY <5>1, <6>1
        <5> QED BY <5>2, <5>3
      <4>2. CASE t.side = "SELL"
        <5>1. Way(b) = 0 - b /\ Way(a) = 0 - a
          BY <4>2
        <5>2. CASE x[k].side = "BUY"
          <6>1. b = a - q /\ f[k] = q
            BY <3>1, <3>3, <4>2, <5>2
          <6> HIDE DEF Way
          <6> QED BY <5>1, <6>1
        <5>3. CASE x[k].side = "SELL"
          <6>1. b = a + q /\ f[k] = 0 - q
            BY <3>1, <3>3, <4>2, <5>3
          <6> HIDE DEF Way
          <6> QED BY <5>1, <6>1
        <5> QED BY <3>2, <5>2, <5>3
      <4> QED BY <3>2, <4>1, <4>2
    <3> HIDE DEF Way
    <3> QED BY <2>2, <3>1, <3>4
  <2> QED BY <2>1, <2>4, <2>6
<1> HIDE DEF A
<1>8. A \in SUBSET Nat
  BY DEF A
<1>9. A = {}
  BY <1>7, <1>8, Descent
<1>10. Sums(f, l)[l] = Way(t.open_qty)
  BY <1>1, <1>4, <1>9 DEF A
<1>11. Exposure(t) = Way(t.open_qty)
  BY <1>2, SignedQty
<1> QED BY <1>1, <1>5, <1>10, <1>11 DEF Total, SumOf

\* What an execution adds to the position of a symbol, and what it has of a time.
Share(s) == [e \in Stamped |-> IF e.symbol = s THEN EffectiveQty(e) ELSE 0]

AtTime(k) == [e \in Stamped |-> IF e.time = k THEN e.qty ELSE 0]

\* What a quantity of the execution e adds to the position of the symbol s.
Way(e, s, q) == IF e.symbol = s THEN IF e.side = "BUY" THEN q ELSE 0 - q ELSE 0

LEMMA ShareType ==
  ASSUME NEW s
  PROVE  /\ Share(s) \in [Stamped -> Int]
         /\ \A e \in Stamped : Share(s)[e] \in Int /\ Share(s)[e] = Way(e, s, e.qty)
<1>1. \A e \in Stamped : /\ EffectiveQty(e) \in Int /\ e.qty \in Int
                         /\ EffectiveQty(e) = IF e.side = "BUY" THEN e.qty ELSE 0 - e.qty
  BY SignedQty
<1> QED BY <1>1 DEF Share, Way

LEMMA AtTimeType ==
  ASSUME NEW k
  PROVE  /\ AtTime(k) \in [Stamped -> Int]
         /\ \A e \in Stamped : AtTime(k)[e] \in Int
                               /\ AtTime(k)[e] = IF e.time = k THEN e.qty ELSE 0
BY QuantityType DEF AtTime

\* All stored executions, trade after trade.
Everything(b) == FlattenSeq([i \in DOMAIN b |-> b[i].executions])

LEMMA EverythingIs ==
  ASSUME NEW h, NEW b \in Seq(Told(h)), NEW w \in [Stamped -> Int], NEW g,
         \A i \in DOMAIN b : g[i] = Total(w, b[i].executions)
  PROVE  /\ Everything(b) \in Seq({e \in Stamped : PartOf(e, h)})
         /\ Everything(b) \in Seq(Stamped)
         /\ Total(w, Everything(b)) = SumOf(g, Len(b))
<1>1. PICK n \in Nat : n = Len(b) /\ DOMAIN b = 1 .. n /\ \A i \in 1 .. n : b[i] \in Told(h)
  OBVIOUS
<1>2. PICK P : P = {e \in Stamped : PartOf(e, h)}
  OBVIOUS
<1>3. PICK ss : ss = [i \in DOMAIN b |-> b[i].executions]
  OBVIOUS
<1>4. ASSUME NEW i \in 1 .. n PROVE b[i].executions \in Seq(P) /\ b[i].executions \in Seq(Stamped)
  <2>1. PICK x \in Seq(Stamped) : x = b[i].executions
    BY <1>1 DEF Told, Filed
  <2>2. \A j \in DOMAIN x : x[j] \in P
    BY <1>1, <1>2, <2>1 DEF Told
  <2>3. x \in Seq(P)
    BY <2>2
  <2> QED BY <2>1, <2>3
<1>5. ss \in Seq(Seq(P)) /\ ss \in Seq(Seq(Stamped)) /\ Len(ss) = n
  BY <1>1, <1>3, <1>4
<1>6. \A i \in 1 .. Len(ss) : g[i] = Total(w, ss[i])
  BY <1>1, <1>3, <1>5
<1>7. Total(w, FlattenSeq(ss)) = SumOf(g, Len(ss))
  BY <1>5, <1>6, TotalFlatten
<1>8. FlattenSeq(ss) \in Seq(P) /\ FlattenSeq(ss) \in Seq(Stamped)
  BY <1>5, FlattenSeqType
<1> QED BY <1>1, <1>2, <1>3, <1>5, <1>7, <1>8 DEF Everything

\* How much is stored of the execution of one time.
LEMMA HeldTotal ==
  ASSUME NEW h, NEW b \in Seq(Told(h)), b \in Seq(Filed), NEW k
  PROVE  Total(AtTime(k), Everything(b)) = Held(b, k)
<1>1. PICK g : g = [i \in DOMAIN b |-> HeldBy(b[i], k)]
  OBVIOUS
<1>2. ASSUME NEW i \in DOMAIN b PROVE g[i] = Total(AtTime(k), b[i].executions)
  <2>1. PICK t \in Filed : t = b[i]
    OBVIOUS
  <2>2. PICK x \in Seq(Stamped) : x = t.executions
    BY DEF Filed
  <2>3. \A j \in DOMAIN x : x[j] \in Stamped
    BY <2>2
  <2>4. [j \in DOMAIN x |-> IF x[j].time = k THEN x[j].qty ELSE 0]
        = [j \in DOMAIN x |-> AtTime(k)[x[j]]]
    BY <2>3, AtTimeType
  <2>5. HeldBy(t, k) = Total(AtTime(k), x)
    BY <2>2, <2>4, HeldByIs DEF Total
  <2> QED BY <1>1, <2>1, <2>2, <2>5
<1>3. Total(AtTime(k), Everything(b)) = SumOf(g, Len(b))
  <2>1. PICK w \in [Stamped -> Int] : w = AtTime(k)
    BY AtTimeType
  <2>2. \A i \in DOMAIN b : g[i] = Total(w, b[i].executions)
    BY <1>2, <2>1
  <2>3. Total(w, Everything(b)) = SumOf(g, Len(b))
    BY <2>2, EverythingIs
  <2> QED BY <2>1, <2>3
<1> QED BY <1>1, <1>3, HeldIs

\* Executions counted time after time.
LEMMA TimeAfterTime ==
  ASSUME NEW h, NEW n \in Nat, n = Len(h), NEW y, y \in Seq({e \in Stamped : PartOf(e, h)}),
         NEW s, NEW E, \A k \in 1 .. n : E[k] = Way(h[k], s, Total(AtTime(k), y))
  PROVE  Total(Share(s), y) = SumOf(E, n)
<1>1. PICK P : P = {e \in Stamped : PartOf(e, h)} /\ y \in Seq(P)
  OBVIOUS
<1>2. \A e \in P : /\ e \in Stamped /\ e.time \in 1 .. n /\ e.qty \in Int
                   /\ Share(s)[e] \in Int /\ Share(s)[e] = Way(h[e.time], s, e.qty)
  BY <1>1, ShareType, QuantityType DEF PartOf, Way
<1> DEFINE Until(k) == [e \in Stamped |-> IF e.time <= k THEN Share(s)[e] ELSE 0]
           On(k) == [e \in Stamped |-> IF e.time = k THEN Share(s)[e] ELSE 0]
           A == {k \in 0 .. n : Total(Until(k), y) # Sums(E, n)[k]}
<1>3. ASSUME NEW k \in 1 .. n PROVE Total(On(k), y) = E[k] /\ E[k] \in Int
  <2>1. PICK u, w : u = On(k) /\ w = AtTime(k)
    OBVIOUS
  <2>2. \A e \in P : /\ w[e] \in Int /\ w[e] = (IF e.time = k THEN e.qty ELSE 0)
                     /\ u[e] = IF e.time = k THEN Way(h[k], s, e.qty) ELSE 0
    BY <1>2, <2>1, AtTimeType
  <2>3. E[k] = Way(h[k], s, Total(w, y))
    BY <2>1
  <2>4. Total(w, y) \in Int
    <3>1. y \in Seq(Stamped)
      <4>1. P \subseteq Stamped
        BY <1>1
      <4> QED BY <1>1, <4>1
    <3> QED BY <2>1, <3>1, AtTimeType, TotalInt
  <2>5. CASE h[k].symbol # s
    <3>1. \A e \in P : u[e] = 0
      BY <2>2, <2>5 DEF Way
    <3>2. Total(u, y) = 0
      BY <1>1, <3>1, TotalNothing
    <3> QED BY <2>1, <2>3, <2>5, <3>2 DEF Way
  <2>6. CASE h[k].symbol = s /\ h[k].side = "BUY"
    <3>1. \A e \in P : u[e] = w[e]
      BY <2>2, <2>6 DEF Way
    <3>2. Total(u, y) = Total(w, y)
      BY <1>1, <3>1, TotalSame
    <3> QED BY <2>1, <2>3, <2>4, <2>6, <3>2 DEF Way
  <2>7. CASE h[k].symbol = s /\ h[k].side # "BUY"
    <3>1. PICK z : z = [e \in P |-> 0]
      OBVIOUS
    <3>2. \A e \in P : u[e] \in Int /\ w[e] \in Int /\ z[e] = u[e] + w[e]
      <4> SUFFICES ASSUME NEW e \in P PROVE u[e] \in Int /\ w[e] \in Int /\ z[e] = u[e] + w[e]
        OBVIOUS
      <4>1. PICK q \in Int : q = e.qty
        BY <1>2
      <4>2. Way(h[k], s, q) = 0 - q
        BY <2>7 DEF Way
      <4>3. u[e] = IF e.time = k THEN 0 - q ELSE 0
        BY <2>2, <4>1, <4>2
      <4>4. w[e] = (IF e.time = k THEN q ELSE 0) /\ z[e] = 0
        BY <2>2, <3>1, <4>1
      <4> QED BY <4>1, <4>3, <4>4
    <3>3. Total(z, y) = Total(u, y) + Total(w, y)
      BY <1>1, <3>2, TotalBoth
    <3>4. Total(z, y) = 0
      BY <1>1, <3>1, TotalNothing
    <3>5. Total(u, y) \in Int
      <4>1. PICK g : g = [j \in DOMAIN y |-> u[y[j]]]
        OBVIOUS
      <4>2. Len(y) \in Nat /\ \A j \in 1 .. Len(y) : g[j] \in Int
        BY <1>1, <3>2, <4>1
      <4> QED BY <4>1, <4>2, SumOfInt DEF Total
    <3>6. Total(u, y) = 0 - Total(w, y)
      BY <2>4, <3>3, <3>4, <3>5
    <3> QED BY <2>1, <2>3, <2>4, <2>7, <3>6 DEF Way
  <2> QED BY <2>5, <2>6, <2>7
<1>4. ASSUME NEW k \in A PROVE k # 0 /\ k - 1 \in A
  <2>1. Sums(E, n)[k] = IF k = 0 THEN 0 ELSE Sums(E, n)[k - 1] + E[k]
    BY SumsAre
  <2>2. k # 0
    <3> SUFFICES ASSUME k = 0 PROVE FALSE
      OBVIOUS
    <3>1. PICK w : w = Until(k)
      OBVIOUS
    <3>2. \A e \in P : w[e] = 0
      BY <1>2, <3>1
    <3>3. Total(w, y) = 0
      BY <1>1, <3>2, TotalNothing
    <3> QED BY <2>1, <3>1, <3>3
  <2>3. k \in 1 .. n /\ k - 1 \in 0 .. n
    BY <2>2
  <2>4. PICK u, v, w : u = Until(k - 1) /\ v = On(k) /\ w = Until(k)
    OBVIOUS
  <2>5. \A e \in P : u[e] \in Int /\ v[e] \in Int /\ w[e] = u[e] + v[e]
    BY <1>2, <2>3, <2>4
  <2>6. Total(w, y) = Total(u, y) + Total(v, y)
    BY <1>1, <2>5, TotalBoth
  <2>7. Total(v, y) = E[k]
    BY <1>3, <2>3, <2>4
  <2>8. Total(w, y) # Sums(E, n)[k]
    BY <2>4
  <2>9. Total(u, y) # Sums(E, n)[k - 1]
    BY <2>1, <2>2, <2>6, <2>7, <2>8
  <2> QED BY <2>2, <2>3, <2>4, <2>9
<1>5. PICK w : w = Until(n)
  OBVIOUS
<1>6. \A e \in P : Share(s)[e] = w[e]
  BY <1>2, <1>5
<1> HIDE DEF A
<1>7. A \in SUBSET Nat
  BY DEF A
<1>8. A = {}
  BY <1>4, <1>7, Descent
<1>9. Total(w, y) = Sums(E, n)[n]
  <2>1. n \in 0 .. n
    OBVIOUS
  <2>2. n \notin A
    BY <1>8
  <2> QED BY <1>5, <2>1, <2>2 DEF A
<1>10. Total(Share(s), y) = Total(w, y)
  BY <1>1, <1>6, TotalSame
<1> QED BY <1>9, <1>10 DEF SumOf

\* A book shows of each symbol what its trades of the symbol come to.
LEMMA BookShows ==
  ASSUME NEW b, NEW n \in Int, BookOk(b, n), NEW s \in Symbols, NEW f,
         \A i \in DOMAIN b : f[i] = IF b[i].symbol = s THEN Exposure(b[i]) ELSE 0
  PROVE  Shows(b, s, SumOf(f, Len(b)))
<1>1. PICK l \in Nat : l = Len(b) /\ DOMAIN b = 1 .. l /\ \A i \in 1 .. l : b[i] \in Filed
  BY DEF BookOk
<1>2. \A i \in 1 .. l : f[i] \in Int /\ (i \notin Open(b, s) => f[i] = 0)
                        /\ (i \in Open(b, s) => f[i] = Exposure(b[i]) /\ f[i] # 0)
  <2> SUFFICES ASSUME NEW i \in 1 .. l
               PROVE  f[i] \in Int /\ (i \notin Open(b, s) => f[i] = 0)
                      /\ (i \in Open(b, s) => f[i] = Exposure(b[i]) /\ f[i] # 0)
    OBVIOUS
  <2>1. PICK t \in Filed, q \in Nat :
          t = b[i] /\ q = t.open_qty /\ Exposure(t) = IF t.side = "BUY" THEN q ELSE 0 - q
    BY <1>1, SignedQty
  <2>2. f[i] = IF t.symbol = s THEN Exposure(t) ELSE 0
    BY <1>1, <2>1
  <2>3. i \in Open(b, s) <=> t.symbol = s /\ q > 0
    BY <1>1, <2>1 DEF Open, IsOpen
  <2> QED BY <2>1, <2>2, <2>3
<1>3. CASE Open(b, s) = {}
  <2>1. SumOf(f, l) = 0
    BY <1>2, <1>3, SumOfNothing
  <2> QED BY <1>1, <1>3, <2>1 DEF Shows
<1>4. CASE Open(b, s) # {}
  <2>1. PICK i : i \in Open(b, s)
    BY <1>4
  <2>2. i \in 1 .. l
    BY <1>1, <2>1 DEF Open
  <2>3. ASSUME NEW j \in Open(b, s), NEW k \in Open(b, s), j < k PROVE FALSE
    <3>1. j \in 1 .. k - 1 /\ k \in DOMAIN b /\ b[j].symbol = b[k].symbol /\ IsOpen(b[j])
      BY <1>1, <2>3 DEF Open
    <3>2. Follows(b[j], b[k])
      BY <3>1 DEF BookOk
    <3> QED BY <3>1, <3>2 DEF Follows
  <2>4. ASSUME NEW j \in Open(b, s) PROVE j = i
    <3>1. j \in 1 .. l
      BY <1>1 DEF Open
    <3>2. ~(j < i) /\ ~(i < j)
      BY <2>1, <2>3
    <3> QED BY <2>2, <3>1, <3>2
  <2>5. Open(b, s) = {i}
    BY <2>1, <2>4
  <2>6. \A k \in 1 .. l : k # i => f[k] = 0
    BY <1>2, <2>5
  <2>7. SumOf(f, l) = f[i]
    BY <1>2, <2>2, <2>6, SumOfSingle
  <2> QED BY <1>1, <1>2, <2>1, <2>2, <2>5, <2>7 DEF Shows
<1> QED BY <1>3, <1>4

\* The open trades show of each symbol what the stored parts of the account's
\* executions come to.
LEMMA HeldShows ==
  ASSUME NEW h, NEW n \in Nat, n = Len(h), NEW b \in Seq(Told(h)), NEW m \in Int, BookOk(b, m),
         NEW s \in Symbols, NEW E, \A k \in 1 .. n : E[k] = Way(h[k], s, Held(b, k))
  PROVE  Shows(b, s, SumOf(E, n))
<1>1. PICK l \in Nat : l = Len(b) /\ DOMAIN b = 1 .. l /\ b \in Seq(Filed)
                       /\ \A i \in 1 .. l : b[i] \in Filed /\ b[i] \in Told(h) /\ TradeOk(b[i], m)
  BY DEF BookOk
<1>2. PICK f : f = [i \in DOMAIN b |-> IF b[i].symbol = s THEN Exposure(b[i]) ELSE 0]
  OBVIOUS
<1>3. ASSUME NEW i \in DOMAIN b PROVE f[i] = Total(Share(s), b[i].executions)
  <2>1. PICK t : t = b[i] /\ t \in Filed /\ t \in Told(h) /\ TradeOk(t, m)
    BY <1>1
  <2>2. PICK x \in Seq(Stamped) : x = t.executions
    BY <2>1 DEF Filed
  <2>3. PICK S : S = {e \in Stamped : e.symbol = t.symbol}
    OBVIOUS
  <2>4. x \in Seq(S)
    <3>1. \A j \in DOMAIN x : x[j] \in S
      BY <2>1, <2>2, <2>3 DEF Told
    <3> QED BY <3>1
  <2>5. CASE t.symbol = s
    <3>1. \A e \in S : Share(s)[e] = Effect[e]
      BY <2>3, <2>5 DEF Share, Effect
    <3>2. Total(Share(s), x) = Total(Effect, x)
      BY <2>4, <3>1, TotalSame
    <3>3. Total(Effect, x) = Exposure(t)
      BY <2>1, <2>2, TradeTotal
    <3> QED BY <1>2, <2>1, <2>2, <2>5, <3>2, <3>3
  <2>6. CASE t.symbol # s
    <3>1. \A e \in S : Share(s)[e] = 0
      BY <2>3, <2>6 DEF Share
    <3>2. Total(Share(s), x) = 0
      BY <2>4, <3>1, TotalNothing
    <3> QED BY <1>2, <2>1, <2>2, <2>6, <3>2
  <2> QED BY <2>5, <2>6
<1>4. /\ Everything(b) \in Seq({e \in Stamped : PartOf(e, h)})
      /\ Total(Share(s), Everything(b)) = SumOf(f, Len(b))
  BY <1>3, ShareType, EverythingIs
<1>5. \A k \in 1 .. n : E[k] = Way(h[k], s, Total(AtTime(k), Everything(b)))
  BY <1>1, HeldTotal
<1>6. PICK y : y = Everything(b)
  OBVIOUS
<1>7. Total(Share(s), y) = SumOf(E, n)
  BY <1>4, <1>5, <1>6, TimeAfterTime
<1>8. Shows(b, s, SumOf(f, Len(b)))
  BY <1>2, BookShows
<1> QED BY <1>4, <1>6, <1>7, <1>8

-----------------------------------------------------------------------------
(***************************************************************************)
(* What a synchronization fetches when only the end is missing.            *)
(***************************************************************************)

\* Who chooses the end of a sequence gets the end.
LEMMA ChosenTail ==
  ASSUME NEW S, NEW s \in Seq(S), NEW m \in Nat, m <= Len(s), NEW K,
         \A k \in 1 .. Len(s) : k \in K <=> m < k
  PROVE  /\ Len(Chosen(s, K)) = Len(s) - m
         /\ \A j \in 1 .. Len(s) - m : Chosen(s, K)[j] = s[m + j]
<1>1. PICK n \in Nat : n = Len(s) /\ DOMAIN s = 1 .. n /\ \A i \in 1 .. n : s[i] \in S
  OBVIOUS
<1>2. PICK ss : ss = [i \in DOMAIN s |-> IF i \in K THEN <<s[i]>> ELSE <<>>]
  OBVIOUS
<1>3. ss \in Seq(Seq(S)) /\ Len(ss) = n
  BY <1>1, <1>2
<1>4. PICK f : /\ f[0] = <<>>
               /\ \A i \in 1 .. n : f[i] = f[i - 1] \o ss[i]
               /\ \A i \in 0 .. n : f[i] \in Seq(S)
               /\ FlattenSeq(ss) = f[n]
  BY <1>3, FlattenIs
<1> DEFINE Length(i) == IF i <= m THEN 0 ELSE i - m
           Good(x, i) == Len(x) = Length(i) /\ \A j \in 1 .. Length(i) : x[j] = s[m + j]
           A == {i \in 0 .. n : ~Good(f[i], i)}
<1>5. ASSUME NEW i \in A PROVE i # 0 /\ i - 1 \in A
  <2>1. i # 0
    <3>1. Len(f[0]) = 0
      BY <1>4
    <3> QED BY <3>1
  <2>2. i \in 1 .. n /\ i - 1 \in 0 .. n
    BY <2>1
  <2>3. PICK a \in Seq(S) : a = f[i - 1]
    BY <1>4, <2>2
  <2>4. ASSUME Good(a, i - 1) PROVE Good(f[i], i)
    <3>1. CASE i <= m
      <4>1. ss[i] = <<>>
        BY <1>1, <1>2, <2>2, <3>1
      <4>2. f[i] = a
        <5>1. f[i] = a \o <<>>
          BY <1>4, <2>2, <2>3, <4>1
        <5> QED BY <5>1, ConcatEmptySeq
      <4>3. Length(i) = 0 /\ Length(i - 1) = 0
        BY <2>2, <3>1
      <4> QED BY <2>4, <4>2, <4>3
    <3>2. CASE ~(i <= m)
      <4>1. ss[i] = <<s[i]>> /\ s[i] \in S
        BY <1>1, <1>2, <2>2, <3>2
      <4>2. f[i] = Append(a, s[i])
        <5>1. f[i] = a \o <<s[i]>>
          BY <1>4, <2>2, <2>3, <4>1
        <5> QED BY <4>1, <5>1
      <4>3. Length(i) = i - m /\ Length(i - 1) = i - 1 - m /\ i - 1 - m \in Nat
        BY <2>2, <3>2
      <4>4. PICK l \in Nat : l = i - 1 - m /\ l = Len(a) /\ \A j \in 1 .. l : a[j] = s[m + j]
        BY <2>4, <4>3
      <4>5. Len(f[i]) = l + 1 /\ f[i][l + 1] = s[i] /\ \A j \in 1 .. l : f[i][j] = a[j]
        BY <4>1, <4>2, <4>4
      <4>6. l + 1 = i - m /\ m + (l + 1) = i
        BY <2>2, <4>4
      <4>7. \A j \in 1 .. l + 1 : f[i][j] = s[m + j]
        <5> SUFFICES ASSUME NEW j \in 1 .. l + 1 PROVE f[i][j] = s[m + j]
          OBVIOUS
        <5>1. CASE j = l + 1
          BY <4>5, <4>6, <5>1
        <5>2. CASE j # l + 1
          <6>1. j \in 1 .. l
            BY <5>2
          <6> QED BY <4>4, <4>5, <6>1
        <5> QED BY <5>1, <5>2
      <4> QED BY <4>3, <4>5, <4>6, <4>7
    <3> QED BY <3>1, <3>2
  <2> HIDE DEF Good
  <2> QED BY <2>1, <2>2, <2>3, <2>4
<1> HIDE DEF A
<1>6. A \in SUBSET Nat
  BY DEF A
<1>7. A = {}
  BY <1>5, <1>6, Descent
<1>8. n \in 0 .. n
  OBVIOUS
<1> HIDE DEF Good
<1>9. Good(f[n], n)
  BY <1>7, <1>8 DEF A
<1>10. Length(n) = n - m
  BY <1>1
<1>11. Chosen(s, K) = f[n]
  BY <1>2, <1>4 DEF Chosen
<1> HIDE DEF Length
<1> QED BY <1>1, <1>9, <1>10, <1>11 DEF Good

\* The executions of an account after a time, which its clock counts.
RestOf(x, h, t) ==
    /\ x \in Seq(Stamped)
    /\ Len(x) = Len(h) - t
    /\ \A j \in 1 .. Len(h) - t : x[j] = h[t + j]

\* Executions whose times follow each other from t on.
Ticks(s, l, t) == s \in Seq(Stamped) /\ l = Len(s) /\ \A j \in 1 .. l : s[j].time = t + j

\* A sequence of length l without its first d entries.
Cut(y, s, l, d) ==
    /\ y \in Seq(Stamped)
    /\ Len(y) = l - d
    /\ \A j \in 1 .. l - d : y[j] = s[d + j]

LEMMA AfterTail ==
  ASSUME NEW t \in Nat, NEW l \in Nat, NEW s, Ticks(s, l, t), NEW d \in Nat, d <= l, NEW m,
         m = t + d
  PROVE  Cut(After(s, m), s, l, d)
<1>1. PICK K : K = {k \in DOMAIN s : s[k].time > m}
  OBVIOUS
<1>2. s \in Seq(Stamped) /\ l = Len(s) /\ \A k \in 1 .. l : k \in K <=> d < k
  BY <1>1 DEF Ticks
<1>3. /\ Len(Chosen(s, K)) = l - d
      /\ \A j \in 1 .. l - d : Chosen(s, K)[j] = s[d + j]
  <2>1. s \in Seq(Stamped) /\ d <= Len(s)
    BY <1>2
  <2>2. \A k \in 1 .. Len(s) : k \in K <=> d < k
    BY <1>2
  <2>3. /\ Len(Chosen(s, K)) = Len(s) - d
        /\ \A j \in 1 .. Len(s) - d : Chosen(s, K)[j] = s[d + j]
    BY <2>1, <2>2, ChosenTail
  <2> QED BY <1>2, <2>3
<1>4. Chosen(s, K) \in Seq(Stamped) /\ After(s, m) = Chosen(s, K)
  BY <1>1, <1>2, ChosenIs DEF After
<1> QED BY <1>3, <1>4 DEF Cut

LEMMA HistoryTail ==
  ASSUME Clock, NEW t \in Nat, t <= now
  PROVE  RestOf(After(history, t), history, t)
<1>1. PICK h \in Seq(Stamped), n \in Nat :
        h = history /\ n = now /\ n = Len(h) /\ \A j \in 1 .. n : h[j].time = j
  BY DEF Clock
<1>4. PICK z \in Nat : z = 0
  OBVIOUS
<1>2. t <= n /\ t = z + t /\ Ticks(h, n, z)
  <2>1. \A j \in 1 .. n : h[j].time = z + j
    BY <1>1, <1>4
  <2> QED BY <1>1, <1>4, <2>1 DEF Ticks
<1>3. Cut(After(h, t), h, n, t)
  BY <1>2, AfterTail
<1> QED BY <1>1, <1>3 DEF RestOf, Cut

LEMMA TailTail ==
  ASSUME Clock, NEW t \in Nat, NEW m \in Nat, t <= m, m <= now,
         NEW x, RestOf(x, history, t)
  PROVE  RestOf(After(x, m), history, m)
<1>1. PICK h \in Seq(Stamped), n \in Nat :
        h = history /\ n = now /\ n = Len(h) /\ \A j \in 1 .. n : h[j].time = j
  BY DEF Clock
<1>2. PICK l \in Nat, d \in Nat : l = n - t /\ d = m - t
  <2>1. n - t \in Nat /\ m - t \in Nat
    BY <1>1
  <2> QED BY <2>1
<1>3. x \in Seq(Stamped) /\ Len(x) = l /\ \A j \in 1 .. l : x[j] = h[t + j]
  BY <1>1, <1>2 DEF RestOf
<1>4. \A j \in 1 .. l : t + j \in 1 .. n
  BY <1>1, <1>2
<1>5. \A j \in 1 .. l : x[j].time = t + j
  BY <1>1, <1>3, <1>4
<1>6. d <= l /\ m = t + d /\ Ticks(x, l, t)
  BY <1>1, <1>2, <1>3, <1>5 DEF Ticks
<1>7. Cut(After(x, m), x, l, d)
  BY <1>6, AfterTail
<1>8. l - d = n - m
  BY <1>1, <1>2
<1>9. ASSUME NEW j \in 1 .. l - d PROVE x[d + j] = h[m + j]
  <2>1. d + j \in 1 .. l /\ t + (d + j) = m + j
    BY <1>2, <1>6
  <2> QED BY <1>3, <2>1
<1> QED BY <1>1, <1>7, <1>8, <1>9 DEF RestOf, Cut

\* An execution that is not divided is stored in one piece, if at all.
LEMMA PiecesCount ==
  ASSUME NEW b \in Seq(Filed), NEW k, NEW q \in Nat, q > 0,
         \A i \in DOMAIN b : \A j \in DOMAIN b[i].executions :
            b[i].executions[j].time = k => b[i].executions[j].qty = q
  PROVE  /\ Held(b, k) = 0 => Len(Pieces(b, k)) = 0
         /\ Held(b, k) = q => Len(Pieces(b, k)) <= 1
<1>1. PICK R : R = {e \in Stamped : e.time = k /\ e.qty = q}
  OBVIOUS
<1>2. PICK ss : ss = [i \in DOMAIN b |-> At(b[i].executions, k)]
  OBVIOUS
<1>3. Len(b) \in Nat /\ DOMAIN b = 1 .. Len(b) /\ \A i \in DOMAIN b : b[i] \in Filed
  OBVIOUS
<1>4. ASSUME NEW i \in DOMAIN b PROVE At(b[i].executions, k) \in Seq(R)
  <2>1. PICK x \in Seq(Stamped) : x = b[i].executions
    BY <1>3 DEF Filed
  <2>2. PICK K : K = {j \in DOMAIN x : x[j].time = k}
    OBVIOUS
  <2>3. \A j \in DOMAIN x \cap K : x[j] \in R
    BY <1>1, <2>1, <2>2
  <2>4. Chosen(x, K) \in Seq(R)
    BY <2>3, ChosenTyped
  <2> QED BY <2>1, <2>2, <2>4 DEF At
<1>5. ss \in Seq(Seq(R))
  BY <1>2, <1>3, <1>4
<1>6. PICK s \in Seq(R), l \in Nat : s = Pieces(b, k) /\ l = Len(s)
  BY <1>2, <1>5, FlattenSeqType DEF Pieces
<1>7. PICK f : f = [j \in DOMAIN s |-> s[j].qty]
  OBVIOUS
<1>8. \A j \in 1 .. l : f[j] = q /\ f[j] \in Nat
  BY <1>1, <1>6, <1>7
<1>9. Held(b, k) = SumOf(f, l)
  BY <1>6, <1>7 DEF Held, Gross
<1>10. SumOf(f, l) \in Int
  BY <1>8, SumOfInt
<1>11. l >= 1 => q <= SumOf(f, l)
  <2> SUFFICES ASSUME l >= 1 PROVE q <= SumOf(f, l)
    OBVIOUS
  <2>1. 1 \in 1 .. l
    OBVIOUS
  <2>2. f[1] <= SumOf(f, l)
    BY <1>8, <2>1, SumOfSome
  <2> QED BY <1>8, <2>1, <2>2
<1>12. l >= 2 => q + q <= SumOf(f, l)
  <2> SUFFICES ASSUME l >= 2 PROVE q + q <= SumOf(f, l)
    OBVIOUS
  <2>1. 1 \in 1 .. l /\ 2 \in 1 .. l
    OBVIOUS
  <2>2. f[1] + f[2] <= SumOf(f, l)
    BY <1>8, SumOfTwo
  <2> QED BY <1>8, <2>1, <2>2
<1> QED BY <1>6, <1>9, <1>10, <1>11, <1>12

\* One for each execution, and for each that happened after t.
Each == [e \in Stamped |-> 1]

Counted(t) == [e \in Stamped |-> IF e.time > t THEN 1 ELSE 0]

LEMMA CountedType ==
  ASSUME NEW t
  PROVE  Counted(t) \in [Stamped -> Int]
BY DEF Counted

LEMMA AfterLength ==
  ASSUME NEW s \in Seq(Stamped), NEW t
  PROVE  Len(After(s, t)) = Total(Counted(t), s)
<1>1. PICK K : K = {k \in DOMAIN s : s[k].time > t}
  OBVIOUS
<1>2. Each \in [Stamped -> Int] /\ \A e \in Stamped : Each[e] = 1
  BY DEF Each
<1>3. Total(Each, Chosen(s, K)) =
        SumOf([k \in DOMAIN s |-> IF k \in K THEN Each[s[k]] ELSE 0], Len(s))
  BY <1>2, TotalChosen
<1>4. \A k \in DOMAIN s : s[k] \in Stamped
  OBVIOUS
<1>5. [k \in DOMAIN s |-> IF k \in K THEN Each[s[k]] ELSE 0]
      = [k \in DOMAIN s |-> Counted(t)[s[k]]]
  BY <1>1, <1>2, <1>4 DEF Counted
<1>6. PICK r \in Seq(Stamped) : r = After(s, t) /\ r = Chosen(s, K)
  BY <1>1, ChosenIs DEF After
<1>7. PICK l \in Nat : l = Len(r)
  OBVIOUS
<1>8. PICK f : f = [j \in DOMAIN r |-> Each[r[j]]]
  OBVIOUS
<1>9. \A j \in 1 .. l : f[j] = 1
  BY <1>2, <1>7, <1>8
<1>10. SumOf(f, l) = l
  BY <1>9, SumOfOnes
<1>11. Total(Each, r) = l
  BY <1>7, <1>8, <1>10 DEF Total
<1> QED BY <1>3, <1>5, <1>6, <1>7, <1>11 DEF Total

LEMMA RowsCounted ==
  ASSUME NEW b \in Seq(Filed), NEW k, NEW up, NEW t
  PROVE  Total(Counted(t), Rows(b, k, up)) = IF k > t THEN Len(Pieces(b, k)) ELSE 0
<1>1. PICK s \in Seq({e \in Stamped : e.time = k}), l \in Nat : s = Pieces(b, k) /\ l = Len(s)
  BY PiecesTime
<1>2. s \in Seq(Stamped) /\ \A j \in DOMAIN s : s[j] \in Stamped /\ s[j].time = k
  <2>1. \A j \in DOMAIN s : s[j] \in Stamped /\ s[j].time = k
    OBVIOUS
  <2> QED BY <1>1, <2>1, PiecesType
<1>3. Total(Counted(t), Rows(b, k, up)) = Total(Counted(t), s)
  <2>1. Total(Counted(t), Reverse(s)) = Total(Counted(t), s)
    BY <1>2, CountedType, TotalReversed
  <2> QED BY <1>1, <2>1 DEF Rows
<1>4. PICK g : g = [j \in DOMAIN s |-> Counted(t)[s[j]]]
  OBVIOUS
<1>5. CASE k > t
  <2>1. \A j \in 1 .. l : g[j] = 1
    BY <1>1, <1>2, <1>4, <1>5 DEF Counted
  <2>2. SumOf(g, l) = l
    BY <2>1, SumOfOnes
  <2> QED BY <1>1, <1>3, <1>4, <1>5, <2>2 DEF Total
<1>6. CASE ~(k > t)
  <2>1. \A j \in 1 .. l : g[j] = 0
    BY <1>1, <1>2, <1>4, <1>6 DEF Counted
  <2>2. SumOf(g, l) = 0
    BY <2>1, SumOfNothing
  <2> QED BY <1>1, <1>3, <1>4, <1>6, <2>2 DEF Total
<1> QED BY <1>5, <1>6

\* Executions stored in one piece each, up to n, are no more than n - t.
LEMMA ChecksLength ==
  ASSUME NEW b \in Seq(Filed), NEW m \in Nat, m = now, NEW t \in Nat, NEW n \in Nat,
         t <= n, n <= m, NEW up,
         \A k \in 1 .. m : k > t => Len(Pieces(b, k)) <= IF k <= n THEN 1 ELSE 0
  PROVE  Len(CheckExecutions(b, t, up)) <= n - t
<1>1. PICK ss : ss = [k \in 1 .. m |-> Rows(b, k, up)]
  OBVIOUS
<1>2. ASSUME NEW k \in 1 .. m PROVE Rows(b, k, up) \in Seq(Stamped)
  <2>1. Pieces(b, k) \in Seq(Stamped)
    BY PiecesType
  <2> QED BY <2>1, ReverseType DEF Rows
<1>3. ss \in Seq(Seq(Stamped)) /\ Len(ss) = m
  BY <1>1, <1>2
<1>4. PICK g : g = [k \in 1 .. m |-> IF k > t THEN Len(Pieces(b, k)) ELSE 0]
  OBVIOUS
<1>5. \A k \in 1 .. m : g[k] = Total(Counted(t), ss[k])
  BY <1>1, <1>4, RowsCounted
<1>6. PICK x : x = FlattenSeq(ss) /\ x \in Seq(Stamped)
  BY <1>3, FlattenSeqType
<1>7. Total(Counted(t), x) = SumOf(g, m)
  BY <1>3, <1>5, <1>6, CountedType, TotalFlatten, ZenonT(30)
<1>8. CheckExecutions(b, t, up) = After(x, t)
  BY <1>1, <1>6, CheckIs
<1>9. Len(CheckExecutions(b, t, up)) = SumOf(g, m)
  BY <1>6, <1>7, <1>8, AfterLength
<1>10. \A k \in 1 .. m : /\ g[k] \in Nat
                         /\ g[k] <= IF k > t /\ k <= n THEN 1 ELSE 0
  <2>1. \A k : Len(Pieces(b, k)) \in Nat
    BY PiecesType
  <2> QED BY <1>4, <2>1
<1> DEFINE Most(k) == IF k <= t THEN 0 ELSE IF k <= n THEN k - t ELSE n - t
           A == {k \in 0 .. m : ~(Sums(g, m)[k] <= Most(k))}
<1>11. \A k \in 0 .. m : Sums(g, m)[k] \in Nat
  BY <1>10, SumsNat
<1>12. ASSUME NEW k \in A PROVE k # 0 /\ k - 1 \in A
  <2>1. Sums(g, m)[k] = IF k = 0 THEN 0 ELSE Sums(g, m)[k - 1] + g[k]
    BY SumsAre
  <2>2. k # 0
    BY <2>1
  <2>3. k \in 1 .. m /\ k - 1 \in 0 .. m
    BY <2>2
  <2>4. Most(k) = Most(k - 1) + (IF k > t /\ k <= n THEN 1 ELSE 0) /\ Most(k - 1) \in Nat
    BY <2>3
  <2>5. Sums(g, m)[k - 1] \in Nat /\ g[k] \in Nat /\ g[k] <= IF k > t /\ k <= n THEN 1 ELSE 0
    BY <1>10, <1>11, <2>3
  <2>6. Sums(g, m)[k] = Sums(g, m)[k - 1] + g[k] /\ ~(Sums(g, m)[k] <= Most(k))
    BY <2>1, <2>2
  <2> HIDE DEF Most, A
  <2>7. ~(Sums(g, m)[k - 1] <= Most(k - 1))
    BY <2>4, <2>5, <2>6
  <2> QED BY <2>2, <2>3, <2>7 DEF A
<1> HIDE DEF A
<1>13. A \in SUBSET Nat
  BY DEF A
<1>14. A = {}
  BY <1>12, <1>13, Descent
<1>15. m \in 0 .. m /\ Most(m) <= n - t
  OBVIOUS
<1> HIDE DEF Most
<1>16. Sums(g, m)[m] <= Most(m)
  BY <1>14, <1>15 DEF A
<1>17. Most(m) \in Int /\ Sums(g, m)[m] \in Int
  <2>1. Most(m) \in Int
    BY DEF Most
  <2> QED BY <1>11, <1>15, <2>1
<1> QED BY <1>9, <1>15, <1>16, <1>17 DEF SumOf

LEMMA HeldHas ==
  ASSUME NEW b \in Seq(Filed), NEW i \in DOMAIN b, NEW j \in DOMAIN b[i].executions
  PROVE  Held(b, b[i].executions[j].time) > 0
<1>1. PICK t \in Filed, x \in Seq(Stamped) : t = b[i] /\ x = t.executions
  <2>1. b[i] \in Filed
    OBVIOUS
  <2> QED BY <2>1 DEF Filed
<1>2. PICK k : k = x[j].time
  OBVIOUS
<1>3. PICK f : f = [p \in DOMAIN x |-> IF x[p].time = k THEN x[p].qty ELSE 0]
  OBVIOUS
<1>4. PICK l \in Nat : l = Len(x) /\ \A p \in 1 .. l : f[p] \in Nat
  BY <1>3, QuantityType
<1>5. j \in 1 .. l /\ f[j] > 0
  <2>1. j \in 1 .. l /\ x[j] \in Stamped
    BY <1>1, <1>4
  <2>2. f[j] = x[j].qty
    BY <1>2, <1>3, <1>4, <2>1
  <2> QED BY <2>1, <2>2, QuantityType DEF Pos
<1>6. f[j] <= SumOf(f, l)
  BY <1>4, <1>5, SumOfSome
<1>7. HeldBy(t, k) = SumOf(f, l)
  <2>1. HeldBy(t, k) = SumOf([p \in DOMAIN t.executions |->
                IF t.executions[p].time = k THEN t.executions[p].qty ELSE 0], Len(t.executions))
    BY HeldByIs
  <2> QED BY <1>1, <1>3, <1>4, <2>1
<1>8. PICK g : g = [p \in DOMAIN b |-> HeldBy(b[p], k)]
  OBVIOUS
<1>9. PICK m \in Nat : m = Len(b) /\ DOMAIN b = 1 .. m /\ \A p \in 1 .. m : g[p] \in Nat
  BY <1>8, HeldByNat
<1>10. i \in 1 .. m /\ g[i] = HeldBy(t, k)
  BY <1>1, <1>8, <1>9
<1>11. g[i] <= SumOf(g, m)
  BY <1>9, <1>10, SumOfSome
<1>12. Held(b, k) = SumOf(g, m)
  BY <1>8, <1>9, HeldIs
<1>13. Held(b, k) \in Nat /\ g[i] \in Nat /\ f[j] \in Nat
  BY <1>4, <1>5, <1>9, <1>10, HeldNat
<1>14. Held(b, k) > 0
  BY <1>5, <1>6, <1>7, <1>10, <1>11, <1>12, <1>13
<1> QED BY <1>1, <1>2, <1>14

LEMMA HeldUpto ==
  ASSUME Inv, NEW n \in Nat, Holds(n), NEW k \in 1 .. now
  PROVE  Held(book, k) = IF k <= n THEN history[k].qty ELSE 0
<1>1. PICK m \in Nat : m = now /\ DOMAIN history = 1 .. m /\ \A p \in 1 .. m : history[p].time = p
  BY DEF Inv, Clock
<1> QED BY <1>1 DEF Holds, Recorded, Held

\* Who holds nothing of what happened after n, holds trades until n.
LEMMA BookUpto ==
  ASSUME Inv, ToldInv, NEW n \in Nat, Holds(n)
  PROVE  BookOk(book, n)
<1>1. PICK m \in Nat : m = now /\ m = Len(history) /\ BookOk(book, m) /\ book \in Seq(Filed)
  BY DEF Inv, Clock, BookKept, BookOk
<1>2. ASSUME NEW i \in DOMAIN book, NEW j \in DOMAIN book[i].executions
      PROVE  book[i].executions[j].time <= n
  <2>1. PICK k : k = book[i].executions[j].time
    OBVIOUS
  <2>2. k \in 1 .. m
    <3>1. book[i] \in Told(history)
      BY DEF ToldInv
    <3>2. PartOf(book[i].executions[j], history)
      BY <3>1 DEF Told
    <3> QED BY <1>1, <2>1, <3>2 DEF PartOf
  <2>3. Held(book, k) > 0
    BY <1>1, <2>1, HeldHas
  <2>4. Held(book, k) = IF k <= n THEN history[k].qty ELSE 0
    BY <1>1, <2>2, HeldUpto
  <2>5. k <= n
    BY <2>3, <2>4
  <2> QED BY <2>1, <2>5
<1>3. ASSUME NEW i \in DOMAIN book PROVE TradeOk(book[i], n)
  <2>1. TradeOk(book[i], m)
    BY <1>1 DEF BookOk
  <2>2. \A j \in DOMAIN book[i].executions : book[i].executions[j].time <= n
    BY <1>2
  <2> QED BY <2>1, <2>2 DEF TradeOk
<1> QED BY <1>1, <1>3 DEF BookOk

LEMMA OnePiece ==
  ASSUME Inv, ToldInv, NEW n \in Nat, Holds(n), Undivided, NEW k \in 1 .. now, k > since
  PROVE  Len(Pieces(book, k)) <= IF k <= n THEN 1 ELSE 0
<1>1. PICK m \in Nat : m = now /\ m = Len(history) /\ book \in Seq(Filed)
                       /\ history \in Seq(Stamped)
  BY DEF Inv, Clock, BookKept, BookOk
<1>2. PICK q \in Nat : q = history[k].qty /\ q > 0
  <2>1. history[k] \in Stamped
    BY <1>1
  <2> QED BY <2>1, QuantityType DEF Pos
<1>3. ASSUME NEW i \in DOMAIN book, NEW j \in DOMAIN book[i].executions,
             book[i].executions[j].time = k
      PROVE  book[i].executions[j].qty = q
  BY <1>2, <1>3 DEF Undivided
<1>4. /\ Held(book, k) = 0 => Len(Pieces(book, k)) = 0
      /\ Held(book, k) = q => Len(Pieces(book, k)) <= 1
  BY <1>1, <1>2, <1>3, PiecesCount
<1>5. Held(book, k) = IF k <= n THEN q ELSE 0
  BY <1>2, HeldUpto
<1> QED BY <1>4, <1>5

Quantities(g, s, l) == \A k \in 1 .. l : g[k] = s[k].qty

LEMMA UptoGross ==
  ASSUME NEW s \in Seq(Stamped), NEW l \in Nat, l = Len(s), NEW m \in 0 .. l,
         NEW g, Quantities(g, s, l)
  PROVE  Gross(Upto(s, m)) = Sums(g, l)[m]
<1>1. (IF m < l THEN m ELSE l) = m
  OBVIOUS
<1>2. PICK y : y = SubSeq(s, 1, m) /\ y = Upto(s, m)
  BY <1>1 DEF Upto
<1>3. y \in Seq(Stamped) /\ Len(y) = m /\ DOMAIN y = 1 .. m /\ \A k \in 1 .. m : y[k] = s[k]
  BY <1>2
<1>4. PICK f : f = [k \in DOMAIN y |-> y[k].qty]
  OBVIOUS
<1>5. \A k \in 1 .. m : f[k] = g[k]
  BY <1>3, <1>4 DEF Quantities
<1>6. m \in 0 .. m /\ m <= l
  OBVIOUS
<1>7. \A k \in 0 .. m : Sums(f, m)[k] = Sums(g, l)[k]
  BY <1>5, <1>6, SumsAgree
<1> QED BY <1>2, <1>3, <1>4, <1>6, <1>7 DEF Gross, SumOf

\* What is stored after t is as much as happened after t and until n.
LEMMA ChecksPrefix ==
  ASSUME Inv, NEW n \in Nat, Holds(n), n <= now, NEW t \in Nat, t <= n, NEW up,
         NEW x, RestOf(x, history, t), NEW l \in Nat, l = now - t,
         NEW q, Quantities(q, x, l)
  PROVE  Gross(CheckExecutions(book, t, up)) = Sums(q, l)[n - t]
<1>1. PICK m \in Nat : m = now /\ m = Len(history) /\ history \in Seq(Stamped)
                       /\ book \in Seq(Filed)
  BY DEF Inv, Clock, BookKept, BookOk
<1>2. PICK g : g = [k \in 1 .. m |-> IF k > t THEN Held(book, k) ELSE 0]
  OBVIOUS
<1>3. Gross(CheckExecutions(book, t, up)) = SumOf(g, m)
  BY <1>1, <1>2, ChecksGross
<1>4. \A k \in 1 .. m : history[k].qty \in Int
  BY <1>1, QuantityType
<1>5. ASSUME NEW k \in 1 .. m
      PROVE  g[k] = IF k > t /\ k <= n THEN q[k - t] ELSE 0
  <2>1. Held(book, k) = IF k <= n THEN history[k].qty ELSE 0
    BY <1>1, HeldUpto
  <2>2. g[k] = IF k > t /\ k <= n THEN history[k].qty ELSE 0
    BY <1>2, <2>1
  <2>3. k > t => q[k - t] = history[k].qty
    <3> SUFFICES ASSUME k > t PROVE q[k - t] = history[k].qty
      OBVIOUS
    <3>1. PICK j \in 1 .. l : j = k - t /\ t + j = k
      BY <1>1
    <3>2. x[j] = history[t + j]
      BY <1>1, <3>1 DEF RestOf
    <3> QED BY <3>1, <3>2 DEF Quantities
  <2> QED BY <2>2, <2>3
<1> DEFINE Most(k) == IF k <= t THEN 0 ELSE IF k <= n THEN k - t ELSE n - t
           A == {k \in 0 .. m : Sums(g, m)[k] # Sums(q, l)[Most(k)]}
<1>6. ASSUME NEW k \in A PROVE k # 0 /\ k - 1 \in A
  <2>1. Sums(g, m)[k] = IF k = 0 THEN 0 ELSE Sums(g, m)[k - 1] + g[k]
    BY SumsAre
  <2>2. Sums(q, l)[0] = 0
    <3>1. 0 \in 0 .. l
      OBVIOUS
    <3> QED BY <3>1, SumsAre
  <2>3. k # 0
    BY <2>1, <2>2
  <2>4. k \in 1 .. m /\ k - 1 \in 0 .. m
    BY <2>3
  <2>5. \A j \in 0 .. m : Sums(g, m)[j] \in Int
    <3>1. \A j \in 1 .. m : g[j] \in Int
      <4>1. \A j \in 1 .. m : Held(book, j) \in Int
        BY <1>1, HeldNat
      <4> QED BY <1>2, <4>1
    <3> QED BY <3>1, SumsInt
  <2>6. CASE k > t /\ k <= n
    <3>1. Most(k) = k - t /\ Most(k - 1) = k - t - 1 /\ g[k] = q[k - t]
      BY <1>5, <2>4, <2>6
    <3>2. k - t \in 0 .. l /\ k - t # 0
      BY <1>1, <2>4, <2>6
    <3>3. Sums(q, l)[k - t] = Sums(q, l)[k - t - 1] + q[k - t]
      BY <3>2, SumsAre
    <3>4. Sums(g, m)[k - 1] = Sums(q, l)[k - t - 1] => Sums(g, m)[k] = Sums(q, l)[k - t]
      BY <2>1, <2>3, <3>1, <3>3
    <3> QED BY <2>3, <2>4, <3>1, <3>4
  <2>7. CASE ~(k > t /\ k <= n)
    <3>1. Most(k) = Most(k - 1) /\ g[k] = 0
      BY <1>5, <2>4, <2>7
    <3>2. Sums(g, m)[k] = Sums(g, m)[k - 1]
      <4>1. Sums(g, m)[k - 1] \in Int
        BY <2>4, <2>5
      <4> QED BY <2>1, <2>3, <3>1, <4>1
    <3> HIDE DEF Most
    <3> QED BY <2>3, <2>4, <3>1, <3>2
  <2> HIDE DEF A
  <2> QED BY <2>6, <2>7
<1> HIDE DEF A
<1>7. A \in SUBSET Nat
  BY DEF A
<1>8. A = {}
  BY <1>6, <1>7, Descent
<1>9. m \in 0 .. m /\ Most(m) = n - t
  BY <1>1
<1> HIDE DEF Most
<1>10. Sums(g, m)[m] = Sums(q, l)[Most(m)]
  BY <1>8, <1>9 DEF A
<1> QED BY <1>3, <1>9, <1>10 DEF SumOf

\* When only the end is missing, and no execution since t was divided, the
\* stored trades are valid until the last execution they hold.
LEMMA TailValid ==
  ASSUME Inv, ToldInv, NEW n \in Nat, Holds(n), n <= now, Undivided,
         NEW t \in Nat, t = since, t <= n, NEW up
  PROVE  ValidUntil(After(history, t), CheckExecutions(book, t, up), t) = n
<1>1. PICK m \in Nat : m = now /\ m = Len(history) /\ history \in Seq(Stamped)
                       /\ book \in Seq(Filed) /\ \A k \in 1 .. m : history[k].time = k
  BY DEF Inv, Clock, BookKept, BookOk
<1>2. PICK x \in Seq(Stamped) : x = After(history, t) /\ RestOf(x, history, t)
  <2>1. RestOf(After(history, t), history, t)
    BY <1>1, HistoryTail DEF Inv
  <2> QED BY <2>1 DEF RestOf
<1>3. PICK l \in Nat : l = m - t /\ l = now - t /\ l = Len(x) /\ DOMAIN x = 1 .. l
                       /\ \A j \in 1 .. l : x[j] = history[t + j]
  BY <1>1, <1>2 DEF RestOf
<1>4. PICK q : q = [k \in 1 .. l |-> x[k].qty]
  OBVIOUS
<1>5. \A k \in 1 .. l : q[k] = x[k].qty /\ q[k] \in Nat /\ q[k] > 0
  BY <1>3, <1>4, QuantityType DEF Pos
<1>20. Quantities(q, x, l)
  BY <1>5 DEF Quantities
<1>6. PICK c \in Seq(Stamped), r \in Nat :
        c = CheckExecutions(book, t, up) /\ r = Len(c) /\ DOMAIN c = 1 .. r
  <2>1. CheckExecutions(book, t, up) \in Seq(Stamped)
    BY <1>1, ChecksOk
  <2> QED BY <2>1
<1>7. PICK d \in Nat : d = n - t
  OBVIOUS
<1>8. r <= d
  <2>1. \A k \in 1 .. m : k > t => Len(Pieces(book, k)) <= IF k <= n THEN 1 ELSE 0
    BY <1>1, OnePiece
  <2>2. Len(CheckExecutions(book, t, up)) <= n - t
    BY <1>1, <2>1, ChecksLength
  <2> QED BY <1>6, <1>7, <2>2
<1>9. d <= l /\ d \in 0 .. l
  BY <1>1, <1>3, <1>7
<1>10. Gross(c) = Sums(q, l)[d]
  <2>1. Gross(CheckExecutions(book, t, up)) = Sums(q, l)[n - t]
    BY <1>2, <1>3, <1>20, ChecksPrefix
  <2> QED BY <1>6, <1>7, <2>1
<1>11. CASE d = 0
  <2>1. c = <<>> /\ n = t
    BY <1>6, <1>7, <1>8, <1>11
  <2>2. ValidUntil(x, <<>>, t) = t
    BY FirstIs
  <2> QED BY <1>2, <1>6, <2>1, <2>2
<1>12. CASE d # 0
  <2>1. PICK longest \in Seq(Stamped) :
          longest = (IF Len(x) > Len(c) THEN x ELSE c) /\ DOMAIN longest = 1 .. l
    <3>1. CASE l > r
      BY <1>3, <1>6, <3>1
    <3>2. CASE ~(l > r)
      <4>1. r = l
        BY <1>8, <1>9, <3>2
      <4> QED BY <1>3, <1>6, <3>2, <4>1
    <3> QED BY <3>1, <3>2
  <2>2. PICK equal : equal = {k \in DOMAIN longest : /\ Gross(Upto(x, k)) = Gross(Upto(c, k))
                                                     /\ Gross(Upto(x, k)) # 0}
    OBVIOUS
  <2>3. \A k \in 0 .. l : Gross(Upto(x, k)) = Sums(q, l)[k]
    <3> SUFFICES ASSUME NEW k \in 0 .. l PROVE Gross(Upto(x, k)) = Sums(q, l)[k]
      OBVIOUS
    <3>1. l = Len(x)
      BY <1>3
    <3> QED BY <1>20, <3>1, UptoGross
  <2>4. \A k \in d .. l : Upto(c, k) = c
    <3> SUFFICES ASSUME NEW k \in d .. l PROVE Upto(c, k) = c
      OBVIOUS
    <3>1. k \in Nat /\ Len(c) <= k
      BY <1>6, <1>8
    <3> QED BY <3>1, UptoAll
  <2>5. \A k \in 0 .. l : Sums(q, l)[k] \in Nat
    BY <1>5, SumsNat
  <2>6. d \in equal
    <3>1. 0 \in 0 .. l /\ 0 < d
      BY <1>12
    <3>2. Sums(q, l)[0] = 0
      BY <3>1, SumsAre
    <3>3. Sums(q, l)[0] < Sums(q, l)[d]
      BY <1>5, <1>9, <3>1, SumsRise
    <3>4. Gross(Upto(x, d)) = Sums(q, l)[d] /\ Gross(Upto(c, d)) = Sums(q, l)[d]
      <4>1. d \in d .. l
        BY <1>9
      <4> QED BY <1>9, <1>10, <2>3, <2>4, <4>1
    <3>5. Sums(q, l)[d] # 0
      BY <1>9, <2>5, <3>2, <3>3
    <3>6. d \in 1 .. l
      BY <1>9, <1>12
    <3> QED BY <2>1, <2>2, <3>4, <3>5, <3>6
  <2>7. ASSUME NEW k \in equal PROVE k <= d
    <3> SUFFICES ASSUME ~(k <= d) PROVE FALSE
      OBVIOUS
    <3>1. k \in 1 .. l /\ k \in 0 .. l /\ k \in d .. l /\ d < k
      BY <2>1, <2>2
    <3>2. Gross(Upto(x, k)) = Gross(Upto(c, k))
      BY <2>2
    <3>3. Sums(q, l)[k] = Sums(q, l)[d]
      BY <1>10, <2>3, <2>4, <3>1, <3>2
    <3>4. Sums(q, l)[d] < Sums(q, l)[k]
      BY <1>5, <1>9, <3>1, SumsRise
    <3> QED BY <1>9, <2>5, <3>1, <3>3, <3>4
  <2>8. Max(equal) = d
    <3>1. equal \in SUBSET (1 .. l) /\ equal # {}
      BY <2>1, <2>2, <2>6
    <3>2. Max(equal) \in equal /\ \A y \in equal : y <= Max(equal)
      BY <3>1, MaxIs
    <3>3. Max(equal) \in 1 .. l /\ Max(equal) <= d /\ d <= Max(equal)
      BY <2>6, <2>7, <3>1, <3>2
    <3> QED BY <3>3
  <2>9. ValidUntil(x, c, t) =
          IF equal = {} THEN t
          ELSE IF Max(equal) \in DOMAIN x THEN x[Max(equal)].time
               ELSE c[Max(equal)].time
    BY <2>1, <2>2 DEF ValidUntil
  <2>10. d \in 1 .. l
    BY <1>9, <1>12
  <2>11. ValidUntil(x, c, t) = x[d].time
    BY <1>3, <2>6, <2>8, <2>9, <2>10
  <2>12. x[d].time = n
    <3>1. t + d = n /\ n \in 1 .. m
      BY <1>1, <1>7, <2>10
    <3>2. x[d] = history[n]
      BY <1>3, <2>10, <3>1
    <3> QED BY <1>1, <3>1, <3>2
  <2> QED BY <1>2, <1>6, <2>11, <2>12
<1> QED BY <1>11, <1>12

\* Then exactly the rest is fetched, and no trade is reversed.
LEMMA FetchTail ==
  ASSUME Inv, ToldInv, Fetch, since # Never, NEW n \in Nat, n <= now, since <= n,
         Holds(n), Undivided
  PROVE  RestOf(fetched', history, n) /\ work' = book /\ BookOk(book, n)
<1>1. PICK t \in Nat : t = since
  BY DEF Inv, Shape
<1>2. PICK up \in BOOLEAN : \E v :
        /\ v = ValidUntil(After(history, since), CheckExecutions(book, since, up), since)
        /\ fetched' = After(After(history, since), v)
        /\ work' = Reversed(book, v)
  BY DEF Fetch
<1>3. PICK v :
        /\ v = ValidUntil(After(history, since), CheckExecutions(book, since, up), since)
        /\ fetched' = After(After(history, since), v)
        /\ work' = Reversed(book, v)
  BY <1>2
<1>4. v = n
  BY <1>1, <1>3, TailValid
<1>5. Clock /\ t <= now /\ t <= n
  BY <1>1 DEF Inv, Clock
<1>6. RestOf(After(history, t), history, t)
  BY <1>5, HistoryTail
<1>7. RestOf(After(After(history, t), n), history, n)
  BY <1>5, <1>6, TailTail
<1>8. BookOk(book, n)
  BY BookUpto
<1> QED BY <1>1, <1>3, <1>4, <1>7, <1>8, ReversedAll

CatchInv ==
    phase \in {"reversed", "positioned"} /\ quiet /\ since # Never /\ Undivided =>
        \A n \in Nat : n <= now /\ since <= n /\ Holds(n) =>
            RestOf(fetched, history, n) /\ work = book /\ BookOk(book, n)

LEMMA CatchNext == Inv /\ ToldInv /\ CatchInv /\ [Next]_vars => CatchInv'
<1> SUFFICES ASSUME Inv, ToldInv, CatchInv, [Next]_vars PROVE CatchInv'
  OBVIOUS
<1>1. CASE Fetch
  <2>1. UNCHANGED <<history, now, book, since, quiet>>
    BY <1>1 DEF Fetch, exchange, stored
  <2>2. (\A n : Holds(n)' = Holds(n)) /\ Undivided' = Undivided
    BY <2>1 DEF Holds, Recorded, Undivided
  <2>3. ASSUME since # Never, NEW n \in Nat, n <= now, since <= n, Holds(n), Undivided
        PROVE  RestOf(fetched', history', n) /\ work' = book' /\ BookOk(book', n)
    BY <1>1, <2>1, <2>3, FetchTail
  <2> QED BY <2>1, <2>2, <2>3 DEF CatchInv
<1>2. CASE UNCHANGED <<history, now, book, since, quiet, fetched, work>>
           /\ (phase' = phase \/ phase = "reversed")
  <2>1. (\A n : Holds(n)' = Holds(n)) /\ Undivided' = Undivided
    BY <1>2 DEF Holds, Recorded, Undivided
  <2> QED BY <1>2, <2>1 DEF CatchInv
<1>3. CASE quiet' = FALSE \/ phase' \notin {"reversed", "positioned"}
  BY <1>3 DEF CatchInv
<1> QED BY <1>1, <1>2, <1>3
        DEF Next, Fill, Begin, Positions, Finish, Stop, vars, exchange, stored, session

LEMMA CatchHolds == Spec => []CatchInv
<1>1. Init => CatchInv
  BY DEF Init, CatchInv
<1> QED BY <1>1, InvHolds, ToldHolds, CatchNext, PTL DEF Spec

\* What the stored trades have of each execution.
Stores(E, s) == \A k \in 1 .. now : E[k] = Way(history[k], s, Held(book, k))

\* A position is what the stored executions come to and what the rest does.
LEMMA PositionSplit ==
  ASSUME Clock, book \in Seq(Filed), NEW n \in Nat, n <= now, Holds(n), NEW x,
         RestOf(x, history, n), NEW s, NEW E, Stores(E, s)
  PROVE  /\ SumOf(E, now) \in Int
         /\ Position(s) = SumOf(E, now) + Signed(OfSymbol(x, s))
<1>1. PICK m \in Nat, h \in Seq(Stamped) :
        m = now /\ m = Len(h) /\ h = history /\ DOMAIN h = 1 .. m
        /\ \A k \in 1 .. m : h[k].time = k
  BY DEF Clock
<1>2. PICK r \in Nat : r = m - n /\ n + r = m
  <2>1. m - n \in Nat /\ n + (m - n) = m
    BY <1>1
  <2> QED BY <2>1
<1>3. x \in Seq(Stamped) /\ r = Len(x) /\ DOMAIN x = 1 .. r /\ \A j \in 1 .. r : x[j] = h[n + j]
  BY <1>1, <1>2 DEF RestOf
<1>4. PICK H : H = [k \in DOMAIN h |-> IF h[k].symbol = s THEN EffectiveQty(h[k]) ELSE 0]
  OBVIOUS
<1>5. PICK G : G = [k \in DOMAIN x |-> IF x[k].symbol = s THEN EffectiveQty(x[k]) ELSE 0]
  OBVIOUS
<1>6. Position(s) = SumOf(H, m) /\ Signed(OfSymbol(x, s)) = SumOf(G, r)
  <2>1. Signed(OfSymbol(h, s)) =
          SumOf([k \in DOMAIN h |-> IF h[k].symbol = s THEN EffectiveQty(h[k]) ELSE 0], Len(h))
    BY SignedOf
  <2>2. x \in Seq(Stamped)
    BY <1>3
  <2>3. Signed(OfSymbol(x, s)) =
          SumOf([k \in DOMAIN x |-> IF x[k].symbol = s THEN EffectiveQty(x[k]) ELSE 0], Len(x))
    BY <2>2, SignedOf
  <2> QED BY <1>1, <1>3, <1>4, <1>5, <2>1, <2>3 DEF Position
<1>7. ASSUME NEW k \in 1 .. m
      PROVE  H[k] \in Int /\ E[k] = IF k <= n THEN H[k] ELSE 0
  <2>1. PICK e \in Stamped : e = h[k] /\ e.qty \in Int
                             /\ EffectiveQty(e) = IF e.side = "BUY" THEN e.qty ELSE 0 - e.qty
    BY <1>1, SignedQty
  <2>2. H[k] = Way(e, s, e.qty) /\ H[k] \in Int
    BY <1>1, <1>4, <2>1 DEF Way
  <2>3. Held(book, k) = IF k <= n THEN e.qty ELSE 0
    BY <1>1, <2>1 DEF Holds, Recorded, Held
  <2>4. Way(e, s, 0) = 0
    BY DEF Way
  <2>5. E[k] = Way(e, s, Held(book, k))
    BY <1>1, <2>1 DEF Stores
  <2> QED BY <2>2, <2>3, <2>4, <2>5
<1>8. \A j \in 1 .. r : n + j \in 1 .. m /\ ~(n + j <= n)
  BY <1>2
<1>9. \A j \in 1 .. r : H[n + j] = G[j] /\ G[j] \in Int
  <2> SUFFICES ASSUME NEW j \in 1 .. r PROVE H[n + j] = G[j] /\ G[j] \in Int
    OBVIOUS
  <2>1. n + j \in 1 .. m /\ x[j] = h[n + j]
    BY <1>3, <1>8
  <2>2. H[n + j] \in Int
    BY <1>7, <2>1
  <2> QED BY <1>1, <1>3, <1>4, <1>5, <2>1, <2>2
<1>10. PICK z : z = [j \in 1 .. r |-> 0]
  OBVIOUS
<1>11. \A k \in 1 .. n : k \in 1 .. m /\ k <= n
  BY <1>2
<1>12. Joins(E, E, n, z, r)
  <2>1. \A k \in 1 .. n : E[k] \in Int
    BY <1>7, <1>11
  <2>2. ASSUME NEW j \in 1 .. r PROVE z[j] \in Int /\ E[n + j] = z[j]
    <3>1. n + j \in 1 .. m /\ ~(n + j <= n)
      BY <1>8
    <3>2. E[n + j] = 0
      BY <1>7, <3>1
    <3> QED BY <1>10, <3>2
  <2> QED BY <2>1, <2>2 DEF Joins
<1>13. Joins(H, E, n, G, r)
  BY <1>7, <1>9, <1>11 DEF Joins
<1>14. SumOf(E, m) = SumOf(E, n) + SumOf(z, r) /\ SumOf(H, m) = SumOf(E, n) + SumOf(G, r)
  BY <1>2, <1>12, <1>13, SumOfJoined
<1>15. SumOf(z, r) = 0
  BY <1>10, SumOfNothing
<1>16. SumOf(E, n) \in Int
  <2>1. \A k \in 1 .. n : E[k] \in Int
    BY <1>7, <1>11
  <2> QED BY <2>1, SumOfInt
<1> QED BY <1>1, <1>6, <1>14, <1>15, <1>16

\* The start quantity of a symbol is the position its open trade shows.
LEMMA StartIs ==
  ASSUME book \in Seq(Filed), PlainOpen, NEW s, NEW p \in Int, Shows(book, s, p),
         NEW q \in StartQtys(s)
  PROVE  q = p
<1>1. PICK all : all = Open(book, s)
  OBVIOUS
<1>2. StartQtys(s) = IF all = {} THEN {0} ELSE {book[i].qty : i \in all}
  BY <1>1 DEF StartQtys, Open
<1>3. CASE p = 0
  BY <1>1, <1>2, <1>3 DEF Shows
<1>4. CASE p # 0
  <2>1. PICK i : i \in all /\ all = {i} /\ Exposure(book[i]) = p
    BY <1>1, <1>4 DEF Shows
  <2>2. PICK t \in Filed : t = book[i] /\ IsOpen(t) /\ i \in DOMAIN book
    BY <1>1, <2>1 DEF Open
  <2>3. t.side = "BUY" /\ t.open_qty = t.qty
    BY <2>2 DEF PlainOpen
  <2>4. Exposure(t) = t.open_qty
    BY <2>3, SignedQty
  <2>5. q = t.qty
    BY <1>2, <2>1, <2>2
  <2> QED BY <2>1, <2>2, <2>3, <2>4, <2>5
<1> QED BY <1>3, <1>4

LEMMA CatchFinish ==
  ASSUME Inv, QuietInv, ToldInv, CatchInv, Finish, quiet, since # Never,
         OnlyTailMissed, PlainOpen, Undivided
  PROVE  TradesShowPosition'
<1>1. PICK m \in Nat : m = now /\ m = Len(history) /\ history \in Seq(Stamped)
                       /\ DOMAIN history = 1 .. m /\ \A k \in 1 .. m : history[k].time = k
  BY DEF Inv, Clock
<1>0. book \in Seq(Filed)
  BY DEF Inv, BookKept, BookOk
<1>2. PICK n \in Nat : n <= now /\ since <= n /\ Holds(n)
  BY <1>1 DEF OnlyTailMissed
<1>3. /\ phase = "positioned" /\ history' = history
      /\ \A s \in Symbols : should[s] = Position(s)
  BY DEF Finish, exchange, QuietInv
<1>4. RestOf(fetched, history, n) /\ work = book /\ BookOk(book, n)
  BY <1>2, <1>3 DEF CatchInv
<1>5. PICK x \in Seq(Stamped), r \in Nat :
        x = fetched /\ r = Len(x) /\ DOMAIN x = 1 .. r /\ r = m - n
        /\ \A j \in 1 .. r : x[j] = history[n + j]
  BY <1>1, <1>4 DEF RestOf
<1>6. Fresh(x, n)
  <2>1. \A j \in 1 .. r : n + j \in 1 .. m
    BY <1>5
  <2>2. \A j \in 1 .. r : x[j].time = n + j
    BY <1>1, <1>5, <2>1
  <2>3. \A j \in 1 .. r : n < x[j].time /\ \A i \in 1 .. j - 1 : x[i].time < x[j].time
    BY <2>2
  <2> QED BY <1>5, <2>3 DEF Fresh
<1>7. ASSUME NEW s \in Symbols
      PROVE  \E p \in Int : Shows(book, s, p) /\ Position(s) = p + Signed(OfSymbol(x, s))
  <2>1. PICK E : E = [k \in 1 .. m |-> Way(history[k], s, Held(book, k))]
    OBVIOUS
  <2>2. \A k \in 1 .. m : E[k] = Way(history[k], s, Held(book, k))
    BY <2>1
  <2>3. Shows(book, s, SumOf(E, m))
    BY <1>1, <1>4, <2>2, HeldShows DEF ToldInv
  <2>4. SumOf(E, m) \in Int /\ Position(s) = SumOf(E, m) + Signed(OfSymbol(x, s))
    <3>1. Clock /\ Stores(E, s)
      BY <1>1, <2>2 DEF Inv, Stores
    <3> QED BY <1>0, <1>1, <1>2, <1>4, <1>5, <3>1, PositionSplit
  <2> QED BY <2>3, <2>4
<1>8. PICK start :
        /\ \A s \in Symbols : start[s] \in StartQtys(s)
        /\ book' \in AddAll(work, Chosen(fetched, {k \in DOMAIN fetched :
              Contains(Align(OfSymbol(fetched, fetched[k].symbol),
                             start[fetched[k].symbol], should[fetched[k].symbol]), fetched[k])}))
  BY DEF Finish
<1>9. ASSUME NEW k \in 1 .. r
      PROVE  Contains(Align(OfSymbol(x, x[k].symbol),
                            start[x[k].symbol], should[x[k].symbol]), x[k])
  <2>1. PICK e \in Stamped : e = x[k]
    BY <1>5
  <2>2. PICK s \in Symbols : s = e.symbol
    BY DEF Stamped
  <2>3. PICK K : K = {i \in DOMAIN x : x[i].symbol = s}
    OBVIOUS
  <2>4. PICK y \in Seq(Stamped) : y = OfSymbol(x, s) /\ y = Chosen(x, K)
    BY <2>3, ChosenIs DEF OfSymbol
  <2>5. PICK p \in Int : Shows(book, s, p) /\ Position(s) = p + Signed(y)
    BY <1>7, <2>4
  <2>6. start[s] = p /\ should[s] = p + Signed(y)
    <3>1. start[s] \in StartQtys(s)
      BY <1>8
    <3>2. start[s] = p
      <4>1. PICK q : q = start[s] /\ q \in StartQtys(s)
        BY <3>1
      <4> QED BY <1>0, <2>5, <4>1, StartIs
    <3> QED BY <1>3, <2>5, <3>2
  <2>7. Align(y, start[s], should[s]) = y
    BY <2>6, AlignAll
  <2>8. k \in DOMAIN x /\ k \in K
    BY <1>5, <2>1, <2>2, <2>3
  <2>9. \E j \in DOMAIN y : y[j] = e
    BY <2>1, <2>4, <2>8, ChosenHas
  <2>10. Contains(y, e)
    BY <2>9 DEF Contains
  <2> QED BY <2>1, <2>2, <2>4, <2>7, <2>10
<1>10. PICK K : /\ K = {k \in DOMAIN fetched :
                        Contains(Align(OfSymbol(fetched, fetched[k].symbol),
                                       start[fetched[k].symbol], should[fetched[k].symbol]),
                                 fetched[k])}
               /\ book' \in AddAll(work, Chosen(fetched, K))
  BY <1>8
<1>11. DOMAIN x \subseteq K
  BY <1>5, <1>9, <1>10
<1>12. Chosen(x, K) = x
  BY <1>11, ChosenAll
<1>13. PICK c : c = book' /\ c \in AddAll(book, x)
  BY <1>4, <1>5, <1>10, <1>12
<1>14. ASSUME NEW s \in Symbols PROVE Shows(book', s, Position(s))
  <2>1. PICK p \in Int : Shows(book, s, p) /\ Position(s) = p + Signed(OfSymbol(x, s))
    BY <1>7
  <2>2. Shows(c, s, p + Signed(OfSymbol(x, s)))
    BY <1>4, <1>6, <1>13, <2>1, AddAllShows
  <2> QED BY <1>13, <2>1, <2>2
<1>15. \A s : Position(s)' = Position(s)
  BY <1>3 DEF Position
<1>16. ASSUME NEW s \in Symbols
       PROVE  IF Position(s)' = 0 THEN OpenTrades(s)' = {}
              ELSE \E i \in OpenTrades(s)' : /\ OpenTrades(s)' = {i}
                                             /\ Exposure(book'[i]) = Position(s)'
  BY <1>14, <1>15 DEF Shows, Open, OpenTrades
<1> QED BY <1>16 DEF TradesShowPosition

\* A synchronization of an account that did not trade since it began catches up
\* with what the websocket missed: if the stored trades hold the executions of
\* the account up to some time after the last synchronization and none later,
\* the open ones are long and nothing of them is closed, and no execution since
\* the last synchronization is stored in two parts, then there is one open
\* trade per position afterwards, with its side and quantity, and none else.
THEOREM CatchesUp == Spec => SyncCatchesUp
<1>1. Inv /\ QuietInv /\ ToldInv /\ CatchInv /\ [Next]_vars
      => [/\ Finish /\ quiet
          /\ OnlyTailMissed /\ PlainOpen /\ Undivided
          => TradesShowPosition']_vars
  BY FirstFinish, CatchFinish
<1> QED BY <1>1, InvHolds, QuietHolds, ToldHolds, CatchHolds, PTL DEF Spec, SyncCatchesUp

=============================================================================
