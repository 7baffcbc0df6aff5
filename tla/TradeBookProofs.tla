--------------------------- MODULE TradeBookProofs --------------------------
(***************************************************************************)
(* Proofs about TradeBook, for every set of symbols, quantities and prices *)
(* and any number of executions.  Inv is the inductive invariant: the      *)
(* types, that no trade is over-closed (without which the weighted average *)
(* of the exit would divide by an unknown number), and that an account     *)
(* whose executions all reduce shows its position as one open trade.       *)
(* MoneyInv adds the sums: what the open trades show of a symbol, the fees,*)
(* and that every trade is accounted for by its executions.                *)
(***************************************************************************)
EXTENDS TradeBook, SummationProofs, FiniteSetTheorems, SequenceTheorems, TLAPS

\* A trade as TypeOK and NeverOverclosed describe it.
SoundTrades == {t \in Trades : t.open_qty <= t.qty}

\* A whole number is what a division by a positive whole number gives.
LEMMA DivInt == \A a \in Int, b \in Pos : a \div b \in Int
  BY DEF Pos

LEMMA ProductInt == \A a, b \in Int : a * b \in Int
  OBVIOUS

LEMMA QuantitiesPos == \A q \in Qtys : q \in Pos /\ q \in Nat /\ q <= MaxQty
  <1>1. \A q \in 1 .. MaxQty : q \in Pos /\ q \in Nat /\ q <= MaxQty
    BY TradeBookAssumption DEF Pos
  <1>2. QED
    BY <1>1, TradeBookAssumption

LEMMA ScalePos == Scale \in Int /\ Scale > 0
  BY ScaleAssumption

\* An average of whole numbers, weighted by quantities, is a whole number.
LEMMA WeightedAvgInt ==
  ASSUME NEW v \in Int, NEW m \in Nat, NEW w \in Int, NEW n \in Pos
  PROVE  WeightedAvg(v, m, w, n) \in Int
  <1>1. v * m \in Int /\ w * n \in Int
    BY ProductInt DEF Pos
  <1>2. v * m + w * n \in Int /\ m + n \in Pos
    BY <1>1 DEF Pos
  <1>3. QED
    BY <1>2, DivInt DEF WeightedAvg

\* An execution that starts a trade starts a sound, open one.
LEMMA FromExecutionSound ==
  ASSUME NEW e \in Executions
  PROVE  /\ FromExecution(e) \in SoundTrades
         /\ FromExecution(e).symbol = e.symbol
         /\ Exposure(FromExecution(e)) = EffectiveQty(e)
         /\ IsOpen(FromExecution(e))
  <1>1. Scale * e.price \in Int
    BY ScalePos DEF Executions, Pos
  <1>2. <<e>> \in Seq(Executions)
    OBVIOUS
  <1>3. FromExecution(e) \in Trades
    BY <1>1, <1>2 DEF FromExecution, Trades, Executions, NoExit, Pos
  <1>4. QED
    BY <1>3 DEF FromExecution, SoundTrades, Executions, Pos, Exposure,
                EffectiveQty, IsOpen

\* Both halves of a divided execution are executions of their own.
LEMMA ClosingType ==
  ASSUME NEW t \in SoundTrades, IsOpen(t), NEW e \in Executions
  PROVE  /\ Closing(t, e) \in Executions
         /\ Closing(t, e).qty <= t.open_qty
         /\ Closing(t, e).side = e.side
         /\ Closing(t, e).qty = IF e.qty > t.open_qty THEN t.open_qty ELSE e.qty
  <1>1. t.open_qty \in Pos
    BY DEF SoundTrades, Trades, IsOpen, Pos
  <1>2. e.qty \in Pos /\ e.commission \in Int
    BY DEF Executions
  <1>3. CASE e.qty > t.open_qty
    <2>1. e.commission * (e.qty - t.open_qty) \in Int
      BY <1>1, <1>2 DEF Pos
    <2>2. (e.commission * (e.qty - t.open_qty)) \div e.qty \in Int
      BY <2>1, <1>2, DivInt
    <2> DEFINE c == e.commission
                       - (e.commission * (e.qty - t.open_qty)) \div e.qty
    <2>3. c \in Int
      BY <1>2, <2>2
    <2>4. Closing(t, e) = [e EXCEPT !.qty = t.open_qty, !.commission = c]
      BY <1>3 DEF Closing
    <2> HIDE DEF c
    <2>5. /\ Closing(t, e) \in Executions
          /\ Closing(t, e).qty = t.open_qty
          /\ Closing(t, e).side = e.side
      BY <1>1, <2>3, <2>4, Zenon DEF Executions
    <2>6. QED
      BY <1>1, <1>3, <2>5 DEF Pos
  <1>4. CASE ~(e.qty > t.open_qty)
    BY <1>1, <1>2, <1>4 DEF Closing, Pos
  <1>5. QED
    BY <1>3, <1>4

LEMMA RestType ==
  ASSUME NEW t \in SoundTrades, NEW e \in Executions, e.qty > t.open_qty
  PROVE  /\ Rest(t, e) \in Executions
         /\ Rest(t, e).side = e.side
         /\ Rest(t, e).symbol = e.symbol
         /\ Rest(t, e).qty = e.qty - t.open_qty
  <1>1. t.open_qty \in Nat
    BY DEF SoundTrades, Trades
  <1>2. e.qty \in Pos /\ e.commission \in Int
    BY DEF Executions
  <1>3. e.commission * (e.qty - t.open_qty) \in Int
    BY <1>1, <1>2 DEF Pos
  <1>4. (e.commission * (e.qty - t.open_qty)) \div e.qty \in Int
    BY <1>3, <1>2, DivInt
  <1> DEFINE c == (e.commission * (e.qty - t.open_qty)) \div e.qty
             q == e.qty - t.open_qty
  <1>5. c \in Int /\ q \in Pos
    BY <1>1, <1>2, <1>4 DEF Pos
  <1>6. Rest(t, e) = [e EXCEPT !.qty = q, !.commission = c, !.realized = Unset,
                               !.reduce = TRUE, !.tagged = TRUE]
    BY DEF Rest
  <1>7. q = e.qty - t.open_qty
    OBVIOUS
  <1> HIDE DEF c, q
  <1>8. QED
    BY <1>5, <1>6, <1>7, Zenon DEF Executions

\* The profit calc_pnl finds is a whole number.
LEMMA CalcPnlInt ==
  ASSUME NEW t \in SoundTrades, NEW q \in Pos, NEW price \in Pos
  PROVE  CalcPnl(t, q, price) \in Int
  <1>0. t.entry \in Int /\ Sign(t.side) \in Int
    BY DEF SoundTrades, Trades, Sign
  <1>1. Scale * price \in Int
    BY ScalePos, ProductInt DEF Pos
  <1>2. Scale * price - t.entry \in Int
    BY <1>0, <1>1
  <1>3. Sign(t.side) * (Scale * price - t.entry) \in Int
    BY <1>0, <1>2, ProductInt
  <1>4. QED
    BY <1>3, ProductInt DEF CalcPnl, Pos

\* A valued execution is the execution, with a profit in any case.
LEMMA ValuedType ==
  ASSUME NEW t \in SoundTrades, NEW e \in Executions
  PROVE  /\ Valued(t, e) \in Executions
         /\ Valued(t, e).realized \in Int
         /\ Valued(t, e).realized = IF e.realized = Unset THEN CalcPnl(t, e.qty, e.price)
                                    ELSE e.realized
         /\ Valued(t, e).symbol = e.symbol /\ Valued(t, e).side = e.side
         /\ Valued(t, e).type = e.type /\ Valued(t, e).qty = e.qty
         /\ Valued(t, e).price = e.price /\ Valued(t, e).commission = e.commission
         /\ Valued(t, e).reduce = e.reduce /\ Valued(t, e).tagged = e.tagged
  <1> DEFINE v == IF e.realized = Unset THEN CalcPnl(t, e.qty, e.price) ELSE e.realized
  <1>1. v \in Int
    <2>1. CalcPnl(t, e.qty, e.price) \in Int
      BY CalcPnlInt DEF Executions
    <2>2. e.realized \in Int \cup {Unset}
      BY DEF Executions
    <2>3. QED
      BY <2>1, <2>2
  <1>2. Valued(t, e) = [e EXCEPT !.realized = v]
    BY DEF Valued, Executions
  <1> HIDE DEF v
  <1>3. /\ Valued(t, e) \in Executions /\ Valued(t, e).realized = v
        /\ Valued(t, e).symbol = e.symbol /\ Valued(t, e).side = e.side
        /\ Valued(t, e).type = e.type /\ Valued(t, e).qty = e.qty
        /\ Valued(t, e).price = e.price /\ Valued(t, e).commission = e.commission
        /\ Valued(t, e).reduce = e.reduce /\ Valued(t, e).tagged = e.tagged
    BY <1>1, <1>2, Zenon DEF Executions
  <1>4. QED
    BY <1>1, <1>3 DEF v

\* What add_execution makes of a sound open trade is sound, of the same symbol
\* and side.
LEMMA AddExecutionSound ==
  ASSUME NEW t \in SoundTrades, IsOpen(t), NEW e \in Executions
  PROVE  /\ AddExecution(t, e) \in SoundTrades
         /\ AddExecution(t, e).symbol = t.symbol
         /\ AddExecution(t, e).side = t.side
  <1>0. /\ t \in Trades
        /\ t.open_qty \in Pos /\ t.qty \in Pos /\ t.open_qty <= t.qty
        /\ t.entry \in Int /\ t.exit \in Int /\ t.realized_pnl \in Int
        /\ t.total_commissions \in Int
        /\ t.executions \in Seq(Executions)
        /\ Sign(t.side) \in Int
    BY DEF SoundTrades, Trades, IsOpen, Pos, Sign
  <1>1. CASE Grows(t, e)
    <2> DEFINE en == WeightedAvg(t.entry, t.qty, Scale * e.price, e.qty)
               xs == Append(t.executions, e)
               q == t.qty + e.qty
               o == t.open_qty + e.qty
               c == t.total_commissions + e.commission
    <2>1. /\ e.qty \in Pos /\ e.price \in Pos /\ e.commission \in Int
          /\ xs \in Seq(Executions)
      BY <1>0 DEF Executions
    <2>2. Scale * e.price \in Int
      BY <2>1, ScalePos, ProductInt DEF Pos
    <2>3. en \in Int
      BY <1>0, <2>1, <2>2, WeightedAvgInt DEF Pos
    <2>4. q \in Pos /\ o \in Nat /\ c \in Int /\ o <= q
      BY <1>0, <2>1, SMTT(30) DEF Pos
    <2>5. Increase(t, e) = [t EXCEPT !.entry = en, !.qty = q, !.open_qty = o,
                                    !.total_commissions = c, !.executions = xs]
      BY DEF Increase
    <2> HIDE DEF en, xs, q, o, c
    <2>6. Increase(t, e) \in Trades
      BY <1>0, <2>1, <2>3, <2>4, <2>5, Zenon DEF Trades
    <2>7. /\ Increase(t, e).open_qty = o /\ Increase(t, e).qty = q
          /\ Increase(t, e).symbol = t.symbol /\ Increase(t, e).side = t.side
      BY <1>0, <2>5 DEF Trades
    <2>8. QED
      BY <1>1, <2>4, <2>6, <2>7 DEF AddExecution, SoundTrades
  <1>2. CASE ~Grows(t, e) /\ Shrinks(t, e)
    <2> DEFINE x == Closing(t, e)
    <2>1. x \in Executions /\ x.qty <= t.open_qty
      BY ClosingType
    <2>2. AddExecution(t, e) = Reduce(t, x)
      BY <1>2 DEF AddExecution
    <2> HIDE DEF x
    <2> DEFINE ex == IF t.exit = NoExit THEN Scale * x.price
                     ELSE WeightedAvg(t.exit, t.qty - t.open_qty,
                                      Scale * x.price, x.qty)
               xs == Append(t.executions, Valued(t, x))
               o == t.open_qty - x.qty
               p == t.realized_pnl + Valued(t, x).realized
               c == t.total_commissions + x.commission
    <2>3. /\ x.qty \in Pos /\ x.price \in Pos /\ x.commission \in Int
          /\ xs \in Seq(Executions)
      <3>1. Valued(t, x) \in Executions
        BY <2>1, ValuedType
      <3>2. QED
        BY <1>0, <2>1, <3>1 DEF Executions
    <2>4. Scale * x.price \in Int
      BY <2>3, ScalePos, ProductInt DEF Pos
    <2>5. ex \in Int
      <3>1. t.qty - t.open_qty \in Nat
        BY <1>0 DEF Pos
      <3>2. QED
        BY <1>0, <2>3, <2>4, <3>1, WeightedAvgInt
    <2>6. p \in Int
      <3>1. Valued(t, x).realized \in Int
        BY <2>1, ValuedType
      <3>2. QED
        BY <1>0, <3>1
    <2>7. o \in Nat /\ o <= t.qty /\ c \in Int
      BY <1>0, <2>1, <2>3, SMTT(30) DEF Pos
    <2>8. Reduce(t, x) = [t EXCEPT !.exit = ex, !.open_qty = o,
                             !.realized_pnl = p, !.total_commissions = c,
                             !.executions = xs]
      BY DEF Reduce
    <2> HIDE DEF ex, xs, o, p, c
    <2>9. Reduce(t, x) \in Trades
      BY <1>0, <2>3, <2>5, <2>6, <2>7, <2>8, Zenon DEF Trades
    <2>10. /\ Reduce(t, x).open_qty = o /\ Reduce(t, x).qty = t.qty
           /\ Reduce(t, x).symbol = t.symbol /\ Reduce(t, x).side = t.side
      BY <1>0, <2>8 DEF Trades
    <2>11. QED
      BY <2>2, <2>7, <2>9, <2>10 DEF SoundTrades
  <1>3. CASE ~Grows(t, e) /\ ~Shrinks(t, e)
    <2> DEFINE xs == Append(t.executions, e)
               c == t.total_commissions + e.commission
               p == t.realized_pnl + (IF e.realized = Unset THEN 0 ELSE e.realized)
    <2>1. xs \in Seq(Executions) /\ c \in Int /\ p \in Int
      <3>1. e.realized \in Int \cup {Unset} /\ e.commission \in Int
        BY DEF Executions
      <3>2. QED
        BY <1>0, <3>1
    <2>2. /\ Attach(t, e) = [t EXCEPT !.executions = xs]
          /\ Charge(t, e) = [t EXCEPT !.realized_pnl = p, !.total_commissions = c,
                                      !.executions = xs]
      BY DEF Attach, Charge
    <2> HIDE DEF xs, c, p
    <2>3. Attach(t, e) \in Trades /\ Charge(t, e) \in Trades
      BY <1>0, <2>1, <2>2, Zenon DEF Trades
    <2>4. /\ Attach(t, e).open_qty = t.open_qty /\ Attach(t, e).qty = t.qty
          /\ Attach(t, e).symbol = t.symbol /\ Attach(t, e).side = t.side
          /\ Charge(t, e).open_qty = t.open_qty /\ Charge(t, e).qty = t.qty
          /\ Charge(t, e).symbol = t.symbol /\ Charge(t, e).side = t.side
      BY <1>0, <2>2 DEF Trades
    <2>5. QED
      BY <1>0, <1>3, <2>3, <2>4 DEF AddExecution, SoundTrades
  <1>4. QED
    BY <1>1, <1>2, <1>3

\* What add_execution starts beside it is a sound trade, or nothing.
LEMMA NewTradeSound ==
  ASSUME NEW t \in SoundTrades, NEW e \in Executions
  PROVE  NewTrade(t, e) \in Seq(SoundTrades)
  <1>1. CASE Shrinks(t, e) /\ e.qty > t.open_qty
    <2>1. FromExecution(Rest(t, e)) \in SoundTrades
      BY <1>1, RestType, FromExecutionSound
    <2>2. NewTrade(t, e) = <<FromExecution(Rest(t, e))>>
      BY <1>1 DEF NewTrade
    <2>3. QED
      BY <2>1, <2>2
  <1>2. CASE ~(Shrinks(t, e) /\ e.qty > t.open_qty) /\ Rejects(t, e)
    <2>1. FromExecution(e) \in SoundTrades
      BY FromExecutionSound
    <2>2. NewTrade(t, e) = <<FromExecution(e)>>
      BY <1>2 DEF NewTrade
    <2>3. QED
      BY <2>1, <2>2
  <1>3. CASE ~(Shrinks(t, e) /\ e.qty > t.open_qty) /\ ~Rejects(t, e)
    <2>1. NewTrade(t, e) = <<>>
      BY <1>3 DEF NewTrade
    <2>2. QED
      BY <2>1
  <1>4. QED
    BY <1>1, <1>2, <1>3

\* An index that get_trade may choose is that of a matching trade.
LEMMA TradeForMatches ==
  \A b, e : TradeFor(b, e) \subseteq Matching(b, e)
  BY DEF TradeFor

\* An execution with a quantity, no liquidation, matches the open trades of its symbol
\* if it is tagged, and starts one when it matches none.
LEMMA MatchingOpen ==
  ASSUME NEW b, NEW e \in Executions
  PROVE  /\ Matching(b, e) = {i \in DOMAIN b : /\ e.tagged
                                               /\ b[i].symbol = e.symbol
                                               /\ IsOpen(b[i])}
         /\ BooksAfter(b, e) = IF Matching(b, e) = {} THEN {Append(b, FromExecution(e))}
                               ELSE {AddTo(b, i, e) : i \in TradeFor(b, e)}
  <1>1. e.type \in {"trade", "funding"} /\ e.qty \in Nat \ {0}
    BY DEF Executions, ExecTypes, Pos
  <1>2. e.type # "liquidation" /\ ~IsBare(e)
    BY <1>1 DEF IsBare
  <1>3. QED
    BY <1>2 DEF Matching, BooksAfter, Refused

\* What has no quantity is in no trade, and starts none.
LEMMA BareChangesNothing ==
  ASSUME NEW b, NEW s, NEW type, NEW c, NEW r
  PROVE  BooksAfter(b, Bare(s, type, c, r)) = {b}
  <1>1. Matching(b, Bare(s, type, c, r)) = {} /\ IsBare(Bare(s, type, c, r))
    BY DEF Matching, Bare, IsBare
  <1>2. QED
    BY <1>1 DEF BooksAfter, Refused

\* One execution changes one open trade, or none, and may append one.
LEMMA BookStep ==
  ASSUME NEW b \in Seq(SoundTrades), NEW e \in Executions,
         NEW c \in BooksAfter(b, e)
  PROVE  /\ c \in Seq(SoundTrades)
         /\ \A i \in DOMAIN b :
               /\ i \in DOMAIN c
               /\ c[i].symbol = b[i].symbol
               /\ c[i].side = b[i].side
               /\ ~IsOpen(b[i]) => c[i] = b[i]
  <1>1. CASE Matching(b, e) = {}
    <2>1. c = Append(b, FromExecution(e))
      BY <1>1, MatchingOpen
    <2>2. FromExecution(e) \in SoundTrades
      BY FromExecutionSound
    <2>3. QED
      BY <2>1, <2>2
  <1>2. CASE Matching(b, e) # {}
    <2>1. PICK k \in TradeFor(b, e) : c = AddTo(b, k, e)
      BY <1>2, MatchingOpen
    <2>2. k \in DOMAIN b /\ IsOpen(b[k]) /\ b[k] \in SoundTrades
      BY <2>1, TradeForMatches, MatchingOpen
    <2> DEFINE t == AddExecution(b[k], e)
               n == NewTrade(b[k], e)
               d == [b EXCEPT ![k] = t]
    <2>3. /\ t \in SoundTrades
          /\ t.symbol = b[k].symbol
          /\ t.side = b[k].side
      BY <2>2, AddExecutionSound
    <2>4. n \in Seq(SoundTrades)
      BY <2>2, NewTradeSound
    <2>5. c = d \o n
      BY <2>1 DEF AddTo
    <2> HIDE DEF t, n
    <2>6. d \in Seq(SoundTrades) /\ DOMAIN d = DOMAIN b /\ Len(d) = Len(b)
      BY <2>2, <2>3, ExceptSeq
    <2>7. \A i \in DOMAIN b : d[i] = IF i = k THEN t ELSE b[i]
      BY <2>2
    <2> HIDE DEF d
    <2>8. c \in Seq(SoundTrades)
      BY <2>4, <2>5, <2>6
    <2>9. \A i \in DOMAIN b : i \in DOMAIN c /\ c[i] = d[i]
      BY <2>4, <2>5, <2>6, ConcatProperties
    <2>10. QED
      BY <2>2, <2>3, <2>7, <2>8, <2>9
  <1>3. QED
    BY <1>1, <1>2

-----------------------------------------------------------------------------
\* The open trades of a symbol in any book, and what TradeShowsPosition says
\* of one symbol.
Open(b, s) == {i \in DOMAIN b : b[i].symbol = s /\ IsOpen(b[i])}

Shows(b, s, p) ==
    IF p = 0 THEN Open(b, s) = {}
    ELSE \E i \in Open(b, s) : Open(b, s) = {i} /\ Exposure(b[i]) = p

\* Opening a trade for a symbol without one shows its exposure.
LEMMA AppendShows ==
  ASSUME NEW b \in Seq(SoundTrades), NEW t \in SoundTrades, IsOpen(t)
  PROVE  /\ Open(b, t.symbol) = {} => Shows(Append(b, t), t.symbol, Exposure(t))
         /\ \A s : s # t.symbol =>
               /\ Open(Append(b, t), s) = Open(b, s)
               /\ \A i \in Open(b, s) : Append(b, t)[i] = b[i]
  <1> DEFINE c == Append(b, t)
             n == Len(b) + 1
  <1>1. /\ DOMAIN b = 1 .. Len(b) /\ Len(b) \in Nat
        /\ DOMAIN c = 1 .. n
        /\ c[n] = t
        /\ \A i \in DOMAIN b : c[i] = b[i]
    BY AppendProperties
  <1> HIDE DEF c
  <1>2. DOMAIN c = DOMAIN b \cup {n}
    BY <1>1
  <1>3. Exposure(t) # 0
    BY DEF Exposure, Sign, IsOpen, SoundTrades, Trades
  <1>4. ASSUME Open(b, t.symbol) = {}
        PROVE  Shows(c, t.symbol, Exposure(t))
    <2>1. Open(c, t.symbol) = {n}
      BY <1>1, <1>2, <1>4 DEF Open
    <2>2. QED
      BY <1>1, <1>3, <2>1 DEF Shows
  <1>5. \A s : s # t.symbol => /\ Open(c, s) = Open(b, s)
                               /\ \A i \in Open(b, s) : c[i] = b[i]
    BY <1>1, <1>2 DEF Open
  <1>6. QED
    BY <1>4, <1>5 DEF c

\* Replacing the only open trade of a symbol by another trade of it shows the
\* exposure of that one, or nothing if it is closed.
LEMMA ReplaceShows ==
  ASSUME NEW b \in Seq(SoundTrades), NEW k \in DOMAIN b, NEW t \in SoundTrades,
         t.symbol = b[k].symbol, Open(b, t.symbol) = {k}
  PROVE  /\ [b EXCEPT ![k] = t] \in Seq(SoundTrades)
         /\ ~IsOpen(t) => Open([b EXCEPT ![k] = t], t.symbol) = {}
         /\ Shows([b EXCEPT ![k] = t], t.symbol, Exposure(t))
         /\ \A s : s # t.symbol =>
               /\ Open([b EXCEPT ![k] = t], s) = Open(b, s)
               /\ \A i \in Open(b, s) : [b EXCEPT ![k] = t][i] = b[i]
  <1> DEFINE c == [b EXCEPT ![k] = t]
  <1>1. c \in Seq(SoundTrades)
    BY ExceptSeq
  <1>2. DOMAIN c = DOMAIN b /\ \A i \in DOMAIN b : c[i] = IF i = k THEN t ELSE b[i]
    OBVIOUS
  <1> HIDE DEF c
  <1>2a. \A i \in DOMAIN b \ {k} : ~(b[i].symbol = t.symbol /\ IsOpen(b[i]))
    BY DEF Open
  <1>2b. Open(c, t.symbol) = {i \in {k} : IsOpen(t)}
    BY <1>2, <1>2a DEF Open
  <1>3. ~IsOpen(t) => Open(c, t.symbol) = {} /\ Exposure(t) = 0
    <2>1. t.open_qty \in Nat
      BY DEF SoundTrades, Trades
    <2>2. ~IsOpen(t) => t.open_qty = 0
      BY <2>1 DEF IsOpen
    <2>3. t.open_qty = 0 => Exposure(t) = 0
      BY DEF Exposure, Sign
    <2>4. QED
      BY <1>2b, <2>2, <2>3
  <1>4. IsOpen(t) => Open(c, t.symbol) = {k} /\ Exposure(t) # 0
    <2>1. IsOpen(t) => Open(c, t.symbol) = {k}
      BY <1>2b
    <2>2. IsOpen(t) => Exposure(t) # 0
      <3>1. t.open_qty \in Nat
        BY DEF SoundTrades, Trades
      <3>2. QED
        BY <3>1 DEF IsOpen, Exposure, Sign
    <2>3. QED
      BY <2>1, <2>2
  <1>5. Shows(c, t.symbol, Exposure(t))
    BY <1>2, <1>3, <1>4 DEF Shows
  <1>6. \A s : s # t.symbol => /\ Open(c, s) = Open(b, s)
                               /\ \A i \in Open(b, s) : c[i] = b[i]
    BY <1>2 DEF Open
  <1>7. QED
    BY <1>1, <1>3, <1>5, <1>6 DEF c

\* The exposure of the trade after a reducing execution, and of the remainder.
LEMMA ExposureAfter ==
  ASSUME NEW t \in SoundTrades, IsOpen(t), NEW e \in Executions,
         e.type = "trade", e.reduce
  PROVE  IF Shrinks(t, e) /\ e.qty > t.open_qty
         THEN /\ ~IsOpen(AddExecution(t, e))
              /\ NewTrade(t, e) = <<FromExecution(Rest(t, e))>>
              /\ EffectiveQty(Rest(t, e)) = Exposure(t) + EffectiveQty(e)
         ELSE /\ NewTrade(t, e) = <<>>
              /\ Exposure(AddExecution(t, e)) = Exposure(t) + EffectiveQty(e)
  <1>0. /\ t \in Trades /\ t.open_qty \in Pos /\ t.side \in Sides
        /\ e.qty \in Pos /\ e.side \in Sides
    BY DEF SoundTrades, Trades, Executions, IsOpen, Pos
  <1>1. CASE Grows(t, e)
    <2>1. /\ Increase(t, e).open_qty = t.open_qty + e.qty
          /\ Increase(t, e).side = t.side
      BY <1>0 DEF Increase, Trades
    <2>2. AddExecution(t, e) = Increase(t, e)
      BY <1>1 DEF AddExecution
    <2>3. e.side = t.side /\ ~Shrinks(t, e) /\ ~Rejects(t, e)
      BY <1>1 DEF Grows, Shrinks, Rejects
    <2>4. NewTrade(t, e) = <<>>
      BY <2>3 DEF NewTrade
    <2>5. QED
      BY <1>0, <2>1, <2>2, <2>3, <2>4 DEF Exposure, EffectiveQty, Sign, Pos
  <1>2. CASE ~Grows(t, e)
    <2> DEFINE x == Closing(t, e)
    <2>1. Shrinks(t, e) /\ ~Rejects(t, e) /\ e.side # t.side
      BY <1>2 DEF Grows, Shrinks, Rejects, Moves
    <2>2. AddExecution(t, e) = Reduce(t, x)
      BY <1>2, <2>1 DEF AddExecution
    <2>3. x.qty = IF e.qty > t.open_qty THEN t.open_qty ELSE e.qty
      BY ClosingType
    <2> HIDE DEF x
    <2>4. /\ Reduce(t, x).open_qty = t.open_qty - x.qty
          /\ Reduce(t, x).side = t.side
      BY <1>0 DEF Reduce, Trades
    <2>5. CASE e.qty > t.open_qty
      <3>1. NewTrade(t, e) = <<FromExecution(Rest(t, e))>>
        BY <2>1, <2>5 DEF NewTrade
      <3>2. /\ Rest(t, e).qty = e.qty - t.open_qty
            /\ Rest(t, e).side = e.side
        BY <2>5, RestType
      <3>3. EffectiveQty(Rest(t, e)) = Exposure(t) + EffectiveQty(e)
        BY <1>0, <2>1, <3>2 DEF EffectiveQty, Exposure, Sign, Sides, Pos
      <3>4. ~IsOpen(AddExecution(t, e))
        BY <1>0, <2>2, <2>3, <2>4, <2>5 DEF IsOpen, Pos
      <3>5. QED
        BY <2>1, <2>5, <3>1, <3>3, <3>4
    <2>6. CASE ~(e.qty > t.open_qty)
      <3>1. NewTrade(t, e) = <<>>
        BY <2>1, <2>6 DEF NewTrade
      <3>2. Exposure(AddExecution(t, e)) = Exposure(t) + EffectiveQty(e)
        BY <1>0, <2>1, <2>2, <2>3, <2>4, <2>6
           DEF EffectiveQty, Exposure, Sign, Sides, Pos
      <3>3. QED
        BY <2>6, <3>1, <3>2
    <2>7. QED
      BY <2>5, <2>6
  <1>3. QED
    BY <1>1, <1>2

\* A reducing execution moves what the book shows of its symbol by its signed
\* quantity, and what it shows of other symbols not at all.
LEMMA ShowsStep ==
  ASSUME NEW b \in Seq(SoundTrades), NEW e \in Executions, NEW p \in Int,
         e.type = "trade", e.reduce, e.tagged,
         NEW c \in BooksAfter(b, e), Shows(b, e.symbol, p)
  PROVE  /\ Shows(c, e.symbol, p + EffectiveQty(e))
         /\ \A s : s # e.symbol =>
               /\ Open(c, s) = Open(b, s)
               /\ \A i \in Open(b, s) : c[i] = b[i]
  <1>0. Matching(b, e) = Open(b, e.symbol)
    BY MatchingOpen DEF Open
  <1>1. CASE Open(b, e.symbol) = {}
    <2>1. p = 0
      BY <1>1 DEF Shows
    <2>2. c = Append(b, FromExecution(e))
      BY <1>0, <1>1, MatchingOpen
    <2> DEFINE f == FromExecution(e)
    <2>3. /\ f \in SoundTrades /\ IsOpen(f) /\ f.symbol = e.symbol
          /\ Exposure(f) = EffectiveQty(e)
      BY FromExecutionSound
    <2>4. p + EffectiveQty(e) = Exposure(f)
      <3>1. EffectiveQty(e) \in Int
        BY DEF EffectiveQty, Sign, Executions, Pos
      <3>2. QED
        BY <2>1, <2>3, <3>1
    <2> HIDE DEF f
    <2>5. Open(b, f.symbol) = {}
      BY <1>1, <2>3
    <2>6. /\ Shows(Append(b, f), f.symbol, Exposure(f))
          /\ \A s : s # f.symbol =>
                /\ Open(Append(b, f), s) = Open(b, s)
                /\ \A i \in Open(b, s) : Append(b, f)[i] = b[i]
      BY <2>3, <2>5, AppendShows
    <2>7. c = Append(b, f)
      BY <2>2 DEF f
    <2>8. QED
      BY <2>3, <2>4, <2>6, <2>7
  <1>2. CASE Open(b, e.symbol) # {}
    <2>1. PICK k \in Open(b, e.symbol) :
            Open(b, e.symbol) = {k} /\ Exposure(b[k]) = p
      BY <1>2 DEF Shows
    <2>2. k \in DOMAIN b /\ b[k].symbol = e.symbol /\ IsOpen(b[k])
      BY <2>1 DEF Open
    <2>3. b[k] \in SoundTrades
      BY <2>2
    <2>4. TradeFor(b, e) \subseteq {k}
      BY <1>0, <2>1, TradeForMatches
    <2> DEFINE t == AddExecution(b[k], e)
               n == NewTrade(b[k], e)
               d == [b EXCEPT ![k] = t]
    <2>4a. BooksAfter(b, e) = {AddTo(b, i, e) : i \in TradeFor(b, e)}
      BY <1>0, <1>2, MatchingOpen, Zenon
    <2>4b. c = AddTo(b, k, e)
      BY <2>4, <2>4a
    <2>5. c = d \o n
      BY <2>4b DEF AddTo
    <2>6. t \in SoundTrades /\ t.symbol = e.symbol
      BY <2>2, <2>3, AddExecutionSound
    <2>7. IF Shrinks(b[k], e) /\ e.qty > b[k].open_qty
          THEN /\ ~IsOpen(t)
               /\ n = <<FromExecution(Rest(b[k], e))>>
               /\ EffectiveQty(Rest(b[k], e)) = p + EffectiveQty(e)
          ELSE n = <<>> /\ Exposure(t) = p + EffectiveQty(e)
      BY <2>1, <2>2, <2>3, ExposureAfter
    <2> HIDE DEF t, n
    <2>8a. t.symbol = b[k].symbol /\ Open(b, t.symbol) = {k}
      BY <2>1, <2>2, <2>6
    <2>8b. /\ [b EXCEPT ![k] = t] \in Seq(SoundTrades)
           /\ ~IsOpen(t) => Open([b EXCEPT ![k] = t], t.symbol) = {}
           /\ Shows([b EXCEPT ![k] = t], t.symbol, Exposure(t))
           /\ \A s : s # t.symbol =>
                 /\ Open([b EXCEPT ![k] = t], s) = Open(b, s)
                 /\ \A i \in Open(b, s) : [b EXCEPT ![k] = t][i] = b[i]
      BY <2>2, <2>6, <2>8a, ReplaceShows
    <2>8c. d = [b EXCEPT ![k] = t]
      OBVIOUS
    <2> HIDE DEF d
    <2>8. /\ d \in Seq(SoundTrades)
          /\ ~IsOpen(t) => Open(d, e.symbol) = {}
          /\ Shows(d, e.symbol, Exposure(t))
          /\ \A s : s # e.symbol =>
                /\ Open(d, s) = Open(b, s)
                /\ \A i \in Open(b, s) : d[i] = b[i]
      BY <2>6, <2>8b, <2>8c
    <2>9. CASE Shrinks(b[k], e) /\ e.qty > b[k].open_qty
      <3> DEFINE f == FromExecution(Rest(b[k], e))
      <3>1. Rest(b[k], e) \in Executions /\ Rest(b[k], e).symbol = e.symbol
        BY <2>3, <2>9, RestType
      <3>2. /\ f \in SoundTrades /\ IsOpen(f) /\ f.symbol = e.symbol
            /\ Exposure(f) = p + EffectiveQty(e)
        BY <2>7, <2>9, <3>1, FromExecutionSound
      <3>3. c = d \o <<f>>
        BY <2>5, <2>7, <2>9
      <3> HIDE DEF f
      <3>4. c = Append(d, f)
        BY <2>8, <3>2, <3>3, AppendIsConcat
      <3>5. Open(d, f.symbol) = {}
        BY <2>7, <2>8, <2>9, <3>2
      <3>6. /\ Shows(Append(d, f), f.symbol, Exposure(f))
            /\ \A s : s # f.symbol =>
                  /\ Open(Append(d, f), s) = Open(d, s)
                  /\ \A i \in Open(d, s) : Append(d, f)[i] = d[i]
        BY <2>8, <3>2, <3>5, AppendShows
      <3>7. QED
        BY <2>8, <3>2, <3>4, <3>6
    <2>10. CASE ~(Shrinks(b[k], e) /\ e.qty > b[k].open_qty)
      <3>1. c = d
        BY <2>5, <2>7, <2>8, <2>10, ConcatEmptySeq
      <3>2. QED
        BY <2>7, <2>8, <2>10, <3>1
    <2>11. QED
      BY <2>9, <2>10
  <1>3. QED
    BY <1>1, <1>2

-----------------------------------------------------------------------------
\* The inductive invariant.
Inv == TypeOK /\ NeverOverclosed /\ ReducingAccountShowsPosition

LEMMA BookIsSound == TypeOK /\ NeverOverclosed => book \in Seq(SoundTrades)
  BY DEF TypeOK, NeverOverclosed, SoundTrades

LEMMA SoundIsBook ==
  ASSUME NEW b \in Seq(SoundTrades)
  PROVE  b \in Seq(Trades) /\ \A i \in DOMAIN b : b[i].open_qty <= b[i].qty
  BY DEF SoundTrades

\* TradeShowsPosition, symbol by symbol.
LEMMA ShowsEverySymbol ==
  TradeShowsPosition <=> \A s \in Symbols : Shows(book, s, position[s])
  BY DEF TradeShowsPosition, Shows, Open, OpenTrades

\* What the exchange delivers is an execution with a fee that is not negative.
LEMMA ExecutionType ==
  ASSUME NEW s \in Symbols, NEW side \in Sides, NEW type \in ExecTypes,
         NEW qty \in Pos, NEW price \in Pos, NEW reduce \in BOOLEAN,
         NEW realized \in Int \cup {Unset}
  PROVE  /\ Execution(s, side, type, qty, price, reduce, realized) \in Executions
         /\ Execution(s, side, type, qty, price, reduce, realized).commission \in Nat
  <1>1. FeeRate * qty \in Nat
    BY TradeBookAssumption DEF Pos
  <1>2. QED
    BY <1>1 DEF Execution, Executions

\* What is reported as realized, if anything is, is a whole number.
LEMMA RealizedType ==
  ASSUME NEW s, NEW side
  PROVE  /\ Realized(s, side) \subseteq Int \cup {Unset}
         /\ account = "binance" => Realized(s, side) \subseteq Int
         /\ account # "binance" => Realized(s, side) = {Unset}
  <1>1. CASE account # "binance"
    BY <1>1 DEF Realized
  <1>2. CASE account = "binance"
    <2>1. Realized(s, side) = Figures \/ Realized(s, side) = {0}
      BY <1>2 DEF Realized
    <2>2. Figures \subseteq Int /\ {0} \subseteq Int
      BY TradeBookAssumption
    <2>3. Realized(s, side) \subseteq Int
      BY <2>1, <2>2
    <2>4. Realized(s, side) \subseteq Int \cup {Unset}
      BY <2>3
    <2>5. QED
      BY <1>2, <2>3, <2>4
  <1>3. QED
    BY <1>1, <1>2

\* The handler, whatever execution it is given.
LEMMA OnExecutionStep ==
  ASSUME Inv, NEW e \in Executions, e.commission \in Nat, OnExecution(e)
  PROVE  /\ book' \in Seq(SoundTrades)
         /\ charged' \in Nat /\ gained' \in Int
         /\ fills' \in 0 .. MaxFills /\ refused' \in BOOLEAN
         /\ \A i \in DOMAIN book :
               /\ i \in DOMAIN book'
               /\ book'[i].symbol = book[i].symbol
               /\ book'[i].side = book[i].side
               /\ ~IsOpen(book[i]) => book'[i] = book[i]
  <1>1. /\ book \in Seq(SoundTrades) /\ charged \in Nat /\ fills \in 0 .. MaxFills
        /\ gained \in Int /\ e.realized \in Int \cup {Unset}
    BY BookIsSound DEF Inv, TypeOK, Executions
  <1>2. book' \in BooksAfter(book, e)
    BY DEF OnExecution, Add
  <1>3. /\ charged' \in Nat /\ fills' \in 0 .. MaxFills /\ gained' \in Int
        /\ refused' \in BOOLEAN
    BY <1>1, TradeBookAssumption DEF OnExecution, Add, Refused
  <1>4. QED
    BY <1>1, <1>2, <1>3, BookStep

\* One fill preserves the invariant.
LEMMA FillStep ==
  ASSUME Inv, NEW s \in Symbols, NEW side \in Sides, NEW qty \in Qtys,
         NEW price \in Prices, Fill(s, side, qty, price)
  PROVE  Inv' /\ \A i \in DOMAIN book :
                    /\ i \in DOMAIN book'
                    /\ book'[i].symbol = book[i].symbol
                    /\ book'[i].side = book[i].side
                    /\ ~IsOpen(book[i]) => book'[i] = book[i]
  <1>1. PICK reduce \in ReduceFlags(s, side, qty), realized \in Realized(s, side) :
          OnExecution(Execution(s, side, "trade", qty, price, reduce, realized))
    BY DEF Fill
  <1>1a. reduce \in BOOLEAN /\ account \in {"mock", "binance"} => reduce
    BY DEF ReduceFlags
  <1>1b. reduce \in BOOLEAN
    BY DEF ReduceFlags
  <1>1c. qty \in Pos
    BY QuantitiesPos
  <1>2. /\ reduce \in BOOLEAN
        /\ qty \in Pos /\ price \in Pos /\ "trade" \in ExecTypes
        /\ account \in {"mock", "binance"} => reduce
        /\ realized \in Int \cup {Unset}
    BY <1>1a, <1>1b, <1>1c, TradeBookAssumption, RealizedType DEF ExecTypes
  <1> DEFINE e == Execution(s, side, "trade", qty, price, reduce, realized)
  <1>3. e \in Executions /\ e.commission \in Nat
    BY <1>2, ExecutionType
  <1>4. /\ e.symbol = s /\ e.type = "trade" /\ e.reduce = reduce
        /\ e.tagged = (account # "stream")
        /\ EffectiveQty(e) = Sign(side) * qty
    BY DEF Execution, EffectiveQty
  <1>5. OnExecution(e)
    BY <1>1
  <1> HIDE DEF e
  <1>6. /\ book' \in Seq(SoundTrades)
        /\ charged' \in Nat /\ gained' \in Int
        /\ fills' \in 0 .. MaxFills /\ refused' \in BOOLEAN
        /\ \A i \in DOMAIN book :
              /\ i \in DOMAIN book'
              /\ book'[i].symbol = book[i].symbol
              /\ book'[i].side = book[i].side
              /\ ~IsOpen(book[i]) => book'[i] = book[i]
    BY <1>3, <1>5, OnExecutionStep
  <1>7. position \in [Symbols -> Int] /\ account \in Accounts
    BY DEF Inv, TypeOK
  <1>8. Sign(side) * qty \in Int
    BY <1>2 DEF Sign, Pos
  <1>9. /\ position' = [position EXCEPT ![s] = @ + Sign(side) * qty]
        /\ account' = account
    BY DEF Fill
  <1>10. /\ position' \in [Symbols -> Int]
         /\ position'[s] = position[s] + EffectiveQty(e)
         /\ \A z \in Symbols : z # s => position'[z] = position[z]
    BY <1>4, <1>7, <1>8, <1>9
  <1>11. TypeOK' /\ NeverOverclosed'
    BY <1>6, <1>7, <1>9, <1>10, SoundIsBook DEF TypeOK, NeverOverclosed
  <1>12. ASSUME account' \in {"mock", "binance"} PROVE TradeShowsPosition'
    <2>1. account \in {"mock", "binance"} /\ e.reduce /\ e.tagged /\ e.type = "trade"
      BY <1>2, <1>4, <1>9, <1>12
    <2>2. TradeShowsPosition
      BY <2>1 DEF Inv, ReducingAccountShowsPosition
    <2>3. \A z \in Symbols : Shows(book, z, position[z])
      BY <2>2, ShowsEverySymbol
    <2>4. book \in Seq(SoundTrades)
      BY BookIsSound DEF Inv
    <2>5. book' \in BooksAfter(book, e)
      BY <1>5 DEF OnExecution, Add
    <2>6. position[e.symbol] \in Int /\ Shows(book, e.symbol, position[e.symbol])
      BY <1>4, <1>7, <2>3
    <2>7. /\ Shows(book', e.symbol, position[e.symbol] + EffectiveQty(e))
          /\ \A z : z # e.symbol =>
                /\ Open(book', z) = Open(book, z)
                /\ \A i \in Open(book, z) : book'[i] = book[i]
      BY <1>3, <2>1, <2>4, <2>5, <2>6, ShowsStep
    <2>8. Shows(book', s, position'[s])
      BY <1>4, <1>10, <2>7
    <2>9. \A z \in Symbols : z # s => Shows(book', z, position'[z])
      BY <1>4, <1>10, <2>3, <2>7 DEF Shows
    <2>10. \A z \in Symbols : Shows(book', z, position'[z])
      BY <2>8, <2>9
    <2>11. QED
      BY <2>10 DEF TradeShowsPosition, Shows, Open, OpenTrades
  <1>13. QED
    BY <1>6, <1>11, <1>12 DEF Inv, ReducingAccountShowsPosition

\* A funding fee preserves the invariant.
LEMMA FundingStep ==
  ASSUME Inv, NEW s \in Symbols, NEW side \in Sides, NEW price \in Prices,
         Funding(s, side, price)
  PROVE  Inv' /\ \A i \in DOMAIN book :
                    /\ i \in DOMAIN book'
                    /\ book'[i].symbol = book[i].symbol
                    /\ book'[i].side = book[i].side
                    /\ ~IsOpen(book[i]) => book'[i] = book[i]
  <1> DEFINE q == Sign(side) * position[s]
             e == Execution(s, side, "funding", q, price, FALSE, Unset)
  <1>1. position \in [Symbols -> Int] /\ account \in Accounts
    BY DEF Inv, TypeOK
  <1>2. q \in Pos /\ price \in Pos /\ "funding" \in ExecTypes
    <2>1. q \in Int
      BY <1>1 DEF Sign
    <2>2. q > 0
      BY DEF Funding
    <2>3. QED
      BY <2>1, <2>2, TradeBookAssumption DEF Pos, ExecTypes
  <1>3. OnExecution(e) /\ account' = account /\ position' = position
        /\ account = "bybit"
    BY DEF Funding
  <1> HIDE DEF q
  <1>4. e \in Executions /\ e.commission \in Nat
    BY <1>2, ExecutionType
  <1> HIDE DEF e
  <1>5. /\ book' \in Seq(SoundTrades)
        /\ charged' \in Nat /\ gained' \in Int
        /\ fills' \in 0 .. MaxFills /\ refused' \in BOOLEAN
        /\ \A i \in DOMAIN book :
              /\ i \in DOMAIN book'
              /\ book'[i].symbol = book[i].symbol
              /\ book'[i].side = book[i].side
              /\ ~IsOpen(book[i]) => book'[i] = book[i]
    BY <1>3, <1>4, OnExecutionStep
  <1>6. TypeOK' /\ NeverOverclosed'
    BY <1>1, <1>3, <1>5, SoundIsBook DEF TypeOK, NeverOverclosed
  <1>7. QED
    BY <1>3, <1>5, <1>6 DEF Inv, ReducingAccountShowsPosition

\* A clearance is in no trade.
LEMMA ClearStep ==
  ASSUME Inv, NEW s \in Symbols, Clear(s)
  PROVE  /\ Inv' /\ book' = book /\ fills < MaxFills /\ fills' = fills + 1
         /\ UNCHANGED <<account, position, charged, gained>>
  <1>1. /\ UNCHANGED <<account, position, charged, gained>>
        /\ fills < MaxFills /\ fills' = fills + 1 /\ refused' \in BOOLEAN
    BY DEF Clear, Add, Refused
  <1>2. book' = book
    BY BareChangesNothing DEF Clear, Add
  <1>3. fills' \in 0 .. MaxFills
    BY <1>1, TradeBookAssumption DEF Inv, TypeOK
  <1>4. TypeOK' /\ NeverOverclosed' /\ ReducingAccountShowsPosition'
    BY <1>1, <1>2, <1>3 DEF Inv, TypeOK, NeverOverclosed, ReducingAccountShowsPosition,
                            TradeShowsPosition, OpenTrades
  <1>5. QED
    BY <1>1, <1>2, <1>4 DEF Inv

-----------------------------------------------------------------------------
LEMMA InitInv == Init => Inv
  <1> SUFFICES ASSUME Init PROVE Inv
    OBVIOUS
  <1>1. refused \in BOOLEAN
    BY DEF Init
  <1>1a. TypeOK /\ NeverOverclosed
    BY <1>1, TradeBookAssumption DEF Init, TypeOK, NeverOverclosed
  <1>2. TradeShowsPosition
    BY DEF Init, TradeShowsPosition, OpenTrades
  <1>3. QED
    BY <1>1a, <1>2 DEF Inv, ReducingAccountShowsPosition

\* No trade disappears or changes sides, and closed trades do not change:
\* what ClosedTradesAreFinal says of a step.
Final ==
    \A i \in DOMAIN book :
       /\ i \in DOMAIN book'
       /\ book'[i].symbol = book[i].symbol
       /\ book'[i].side = book[i].side
       /\ ~IsOpen(book[i]) => book'[i] = book[i]

LEMMA NextStep ==
  ASSUME Inv, Next
  PROVE  Inv' /\ Final
  <1>1. ASSUME NEW s \in Symbols, NEW side \in Sides, NEW price \in Prices,
               NEW qty \in Qtys, Fill(s, side, qty, price)
        PROVE  Inv' /\ Final
    BY <1>1, FillStep DEF Final
  <1>2. ASSUME NEW s \in Symbols, NEW side \in Sides, NEW price \in Prices,
               Funding(s, side, price)
        PROVE  Inv' /\ Final
    BY <1>2, FundingStep DEF Final
  <1>3. ASSUME NEW s \in Symbols, Clear(s)
        PROVE  Inv' /\ Final
    BY <1>3, ClearStep DEF Final
  <1>4. QED
    BY <1>1, <1>2, <1>3 DEF Next

LEMMA InvStep == Inv /\ [Next]_vars => Inv'
  <1>1. Inv /\ Next => Inv'
    BY NextStep
  <1>2. Inv /\ UNCHANGED vars => Inv'
    BY DEF vars, Inv, TypeOK, NeverOverclosed, ReducingAccountShowsPosition,
           TradeShowsPosition, OpenTrades
  <1>3. QED
    BY <1>1, <1>2

\* The inductive invariant holds in every reachable state.
THEOREM Invariance == Spec => []Inv
  <1>1. QED
    BY InitInv, InvStep, PTL DEF Spec

\* Trades stay well formed: quantities and fees are numbers of the expected
\* range whatever executions Worker._on_execution is given.
THEOREM TypeCorrect == Spec => []TypeOK
  <1>1. Inv => TypeOK
    BY DEF Inv
  <1>2. QED
    BY <1>1, Invariance, PTL

\* Trade.add_execution never closes more of a trade than the trade took.
THEOREM NoOverclosing == Spec => []NeverOverclosed
  <1>1. Inv => NeverOverclosed
    BY DEF Inv
  <1>2. QED
    BY <1>1, Invariance, PTL

\* Where every execution is marked as reducing, the client has exactly one
\* open trade per position held, with its side and quantity, and none without.
THEOREM ReducingAccount == Spec => []ReducingAccountShowsPosition
  <1>1. Inv => ReducingAccountShowsPosition
    BY DEF Inv
  <1>2. QED
    BY <1>1, Invariance, PTL

\* Executions never touch a closed trade, and never remove one.
THEOREM ClosedFinal == Spec => ClosedTradesAreFinal
  <1>1. Inv /\ [Next]_vars => [Final]_vars
    BY NextStep
  <1>2. QED
    BY <1>1, Invariance, PTL DEF Spec, ClosedTradesAreFinal, Final

-----------------------------------------------------------------------------
(* The sums of a book.                                                     *)

Net(b, s) == SumOf([i \in DOMAIN b |-> IF b[i].symbol = s /\ IsOpen(b[i]) THEN Exposure(b[i]) ELSE 0],
                   Len(b))
Fees(b) == SumOf([i \in DOMAIN b |-> b[i].total_commissions], Len(b))
Profits(b) == SumOf([i \in DOMAIN b |-> b[i].realized_pnl], Len(b))

\* What one execution does to a book: it is the first of a new trade, or goes to a
\* matching one, and may start another beside it.
LEMMA BookCases ==
  ASSUME NEW b \in Seq(SoundTrades), NEW e \in Executions, NEW c \in BooksAfter(b, e)
  PROVE  \/ /\ Matching(b, e) = {}
            /\ c = Append(b, FromExecution(e))
         \/ \E k \in Matching(b, e) :
              /\ k \in 1 .. Len(b) /\ c[k] = AddExecution(b[k], e)
              /\ \A i \in 1 .. Len(b) : i # k => c[i] = b[i]
              /\ \/ NewTrade(b[k], e) = <<>> /\ Len(c) = Len(b)
                 \/ /\ NewTrade(b[k], e) # <<>> /\ Len(c) = Len(b) + 1
                    /\ NewTrade(b[k], e) = <<c[Len(b) + 1]>>
<1>1. CASE Matching(b, e) = {}
  BY <1>1, MatchingOpen
<1>2. CASE Matching(b, e) # {}
  <2>1. PICK k \in TradeFor(b, e) : c = AddTo(b, k, e)
    BY <1>2, MatchingOpen
  <2>2. k \in Matching(b, e) /\ k \in 1 .. Len(b) /\ IsOpen(b[k]) /\ b[k] \in SoundTrades
    BY <2>1, TradeForMatches, MatchingOpen
  <2> DEFINE t == AddExecution(b[k], e)
             n == NewTrade(b[k], e)
             d == [b EXCEPT ![k] = t]
  <2>3. t \in SoundTrades /\ n \in Seq(SoundTrades)
    BY <2>2, AddExecutionSound, NewTradeSound
  <2>4. c = d \o n
    BY <2>1 DEF AddTo
  <2>5. n = <<>> \/ (n # <<>> /\ \E x : n = <<x>>)
    BY DEF NewTrade
  <2> HIDE DEF t, n
  <2>6. /\ d \in Seq(SoundTrades) /\ Len(d) = Len(b)
        /\ d[k] = t /\ \A i \in 1 .. Len(b) : i # k => d[i] = b[i]
    BY <2>2, <2>3, ExceptSeq
  <2> HIDE DEF d
  <2>7. \A i \in 1 .. Len(b) : c[i] = d[i]
    BY <2>3, <2>4, <2>6, ConcatProperties
  <2>8. CASE n = <<>>
    <3>1. Len(c) = Len(b)
      BY <2>3, <2>4, <2>6, <2>8, ConcatProperties
    <3> QED BY <2>2, <2>6, <2>7, <2>8, <3>1 DEF t, n
  <2>9. CASE n # <<>> /\ \E x : n = <<x>>
    <3>1. PICK x : n = <<x>>
      BY <2>9
    <3>2. Len(n) = 1 /\ n[1] = x
      BY <3>1
    <3>a. Len(d \o n) = Len(d) + Len(n)
      BY <2>3, <2>6, ConcatProperties
    <3>3. Len(c) = Len(b) + 1
      BY <2>4, <2>6, <3>2, <3>a
    <3>4. Len(b) \in Nat /\ Len(b) + 1 \in 1 .. Len(d) + Len(n) /\ ~(Len(b) + 1 <= Len(d))
          /\ Len(b) + 1 - Len(d) = 1
      BY <2>6, <3>2
    <3>5. c[Len(b) + 1] = n[Len(b) + 1 - Len(d)]
      BY <2>3, <2>4, <2>6, <3>4, ConcatProperties
    <3>6. c[Len(b) + 1] = x
      BY <3>2, <3>4, <3>5
    <3> QED BY <2>2, <2>6, <2>7, <2>9, <3>1, <3>3, <3>6 DEF t, n
  <2> QED BY <2>5, <2>8, <2>9
<1> QED BY <1>1, <1>2

\* A sum over the trades of a book of which one is another and one is added.
LEMMA SumOfBook ==
  ASSUME NEW f, NEW g, NEW n \in Nat, NEW k \in 1 .. n,
         \A i \in 1 .. n : f[i] \in Int /\ g[i] \in Int,
         \A i \in 1 .. n : i # k => f[i] = g[i]
  PROVE  SumOf(g, n + 1) = SumOf(f, n) - f[k] + g[k] + g[n + 1]
<1>1. SumOf(g, n) = SumOf(f, n) - f[k] + g[k]
  BY SumOfChanged
<1>2. SumOf(g, n + 1) = SumOf(g, n) + g[n + 1]
  BY SumOfLonger
<1> QED BY <1>1, <1>2

LEMMA MovedBy == \A a, x, y, z, d \in Int : y + z = x + d => a - x + y + z = a + d
OBVIOUS

\* What a trade and the one started beside it show after an execution, they showed
\* before it, but for what it moves.
LEMMA ExposureMoves ==
  ASSUME NEW t \in SoundTrades, IsOpen(t), NEW e \in Executions,
         NEW moved, moved = IF Moves(e) THEN EffectiveQty(e) ELSE 0
  PROVE  /\ NewTrade(t, e) = <<>> => Exposure(AddExecution(t, e)) = Exposure(t) + moved
         /\ \A n : NewTrade(t, e) = <<n>> =>
              /\ IsOpen(n) /\ n.symbol = e.symbol
              /\ Exposure(AddExecution(t, e)) + Exposure(n) = Exposure(t) + moved
<1>0. /\ t \in Trades /\ t.open_qty \in Pos /\ t.side \in Sides
      /\ e.qty \in Pos /\ e.side \in Sides
  BY DEF SoundTrades, Trades, Executions, IsOpen, Pos
<1>1. CASE Grows(t, e)
  <2>1. Increase(t, e).open_qty = t.open_qty + e.qty /\ Increase(t, e).side = t.side
    BY <1>0 DEF Increase, Trades
  <2>2. AddExecution(t, e) = Increase(t, e)
    BY <1>1 DEF AddExecution
  <2>3. NewTrade(t, e) = <<>> /\ e.side = t.side /\ Moves(e)
    BY <1>1 DEF Grows, Shrinks, Rejects, NewTrade
  <2> QED BY <1>0, <2>1, <2>2, <2>3 DEF Exposure, EffectiveQty, Sign, Pos
<1>2. CASE Shrinks(t, e)
  <2>1. ~Grows(t, e) /\ ~Rejects(t, e) /\ e.side # t.side /\ Moves(e)
    BY <1>2 DEF Grows, Shrinks, Rejects
  <2>2. PICK x : x = Closing(t, e)
    OBVIOUS
  <2>3. AddExecution(t, e) = Reduce(t, x)
    BY <1>2, <2>1, <2>2 DEF AddExecution
  <2>4. x.qty = IF e.qty > t.open_qty THEN t.open_qty ELSE e.qty
    BY <2>2, ClosingType
  <2>5. Reduce(t, x).open_qty = t.open_qty - x.qty /\ Reduce(t, x).side = t.side
    BY <1>0 DEF Reduce, Trades
  <2>6. CASE e.qty > t.open_qty
    <3>1. NewTrade(t, e) = <<FromExecution(Rest(t, e))>>
      BY <1>2, <2>6 DEF NewTrade
    <3>2. /\ Rest(t, e) \in Executions /\ Rest(t, e).symbol = e.symbol
          /\ Rest(t, e).qty = e.qty - t.open_qty /\ Rest(t, e).side = e.side
      BY <2>6, RestType
    <3>3. PICK n : n = FromExecution(Rest(t, e))
      OBVIOUS
    <3>4. IsOpen(n) /\ n.symbol = e.symbol /\ Exposure(n) = EffectiveQty(Rest(t, e))
      BY <3>2, <3>3, FromExecutionSound
    <3>5. Exposure(AddExecution(t, e)) = 0
      BY <1>0, <2>3, <2>4, <2>5, <2>6 DEF Exposure, Sign, Pos
    <3>6. EffectiveQty(Rest(t, e)) = Exposure(t) + EffectiveQty(e)
      BY <1>0, <2>1, <3>2 DEF EffectiveQty, Exposure, Sign, Sides, Pos
    <3>7. EffectiveQty(Rest(t, e)) \in Int
      BY <1>0, <2>6, <3>2 DEF EffectiveQty, Sign, Pos
    <3>8. NewTrade(t, e) = <<n>> /\ NewTrade(t, e) # <<>>
      BY <3>1, <3>3
    <3> QED BY <2>1, <3>4, <3>5, <3>6, <3>7, <3>8
  <2>7. CASE ~(e.qty > t.open_qty)
    <3>1. NewTrade(t, e) = <<>>
      BY <2>1, <2>7 DEF NewTrade
    <3>2. Exposure(AddExecution(t, e)) = Exposure(t) + EffectiveQty(e)
      BY <1>0, <2>1, <2>3, <2>4, <2>5, <2>7 DEF EffectiveQty, Exposure, Sign, Sides, Pos
    <3> QED BY <2>1, <3>1, <3>2
  <2> QED BY <2>6, <2>7
<1>3. CASE Rejects(t, e)
  <2>1. ~Grows(t, e) /\ ~Shrinks(t, e) /\ Moves(e)
    BY <1>3 DEF Grows, Shrinks, Rejects
  <2>2. NewTrade(t, e) = <<FromExecution(e)>> /\ AddExecution(t, e) = Attach(t, e)
    BY <1>3, <2>1 DEF NewTrade, AddExecution
  <2>3. Attach(t, e).open_qty = t.open_qty /\ Attach(t, e).side = t.side
    BY <1>0 DEF Attach, Trades
  <2>4. Exposure(AddExecution(t, e)) = Exposure(t)
    BY <2>2, <2>3 DEF Exposure
  <2>5. PICK n : n = FromExecution(e)
    OBVIOUS
  <2>6. IsOpen(n) /\ n.symbol = e.symbol /\ Exposure(n) = EffectiveQty(e)
    BY <2>5, FromExecutionSound
  <2>7. NewTrade(t, e) = <<n>> /\ NewTrade(t, e) # <<>>
    BY <2>2, <2>5
  <2> QED BY <2>1, <2>4, <2>6, <2>7
<1>4. CASE ~Grows(t, e) /\ ~Shrinks(t, e) /\ ~Rejects(t, e)
  <2>1. ~Moves(e)
    BY <1>4 DEF Grows, Shrinks, Rejects
  <2>2. NewTrade(t, e) = <<>> /\ AddExecution(t, e) = Charge(t, e)
    BY <1>4 DEF NewTrade, AddExecution
  <2>3. Charge(t, e).open_qty = t.open_qty /\ Charge(t, e).side = t.side
    BY <1>0 DEF Charge, Trades
  <2> QED BY <1>0, <2>1, <2>2, <2>3 DEF Exposure, Sign, Pos
<1> QED BY <1>1, <1>2, <1>3, <1>4

\* The fee of an execution goes to the trade, and in part to the one beside it.
LEMMA FeesMove ==
  ASSUME NEW t \in SoundTrades, IsOpen(t), NEW e \in Executions
  PROVE  /\ NewTrade(t, e) = <<>> =>
              AddExecution(t, e).total_commissions = t.total_commissions + e.commission
         /\ \A n : NewTrade(t, e) = <<n>> =>
              AddExecution(t, e).total_commissions + n.total_commissions
                = t.total_commissions + e.commission
<1>0. /\ t \in Trades /\ t.total_commissions \in Int /\ e.commission \in Int
      /\ t.open_qty \in Pos /\ e.qty \in Pos
  BY DEF SoundTrades, Trades, Executions, IsOpen, Pos
<1>1. CASE Shrinks(t, e) /\ e.qty > t.open_qty
  <2>1. ~Grows(t, e)
    BY <1>1 DEF Grows, Shrinks
  <2>2. PICK x : x = Closing(t, e)
    OBVIOUS
  <2>3. AddExecution(t, e) = Reduce(t, x)
    BY <1>1, <2>1, <2>2 DEF AddExecution
  <2>4. Reduce(t, x).total_commissions = t.total_commissions + x.commission
    BY <1>0 DEF Reduce, Trades
  <2>5. PICK part : part = (e.commission * (e.qty - t.open_qty)) \div e.qty
    OBVIOUS
  <2>6. e.commission * (e.qty - t.open_qty) \in Int
    BY <1>0 DEF Pos
  <2>7. part \in Int
    BY <1>0, <2>5, <2>6, DivInt
  <2>8. x.commission = e.commission - part
    BY <1>1, <2>2, <2>5 DEF Closing, Executions
  <2>9. Rest(t, e).commission = part
    BY <2>5 DEF Rest, Executions
  <2>10. PICK n : n = FromExecution(Rest(t, e))
    OBVIOUS
  <2>11. n.total_commissions = part
    BY <2>9, <2>10 DEF FromExecution
  <2>12. NewTrade(t, e) = <<n>> /\ NewTrade(t, e) # <<>>
    BY <1>1, <2>10 DEF NewTrade
  <2> QED BY <1>0, <2>3, <2>4, <2>7, <2>8, <2>11, <2>12
<1>2. CASE Shrinks(t, e) /\ ~(e.qty > t.open_qty)
  <2>1. ~Grows(t, e) /\ ~Rejects(t, e)
    BY <1>2 DEF Grows, Shrinks, Rejects
  <2>2. AddExecution(t, e) = Reduce(t, e) /\ NewTrade(t, e) = <<>>
    BY <1>2, <2>1 DEF AddExecution, NewTrade, Closing
  <2>3. Reduce(t, e).total_commissions = t.total_commissions + e.commission
    BY <1>0 DEF Reduce, Trades
  <2> QED BY <2>2, <2>3
<1>3. CASE Rejects(t, e)
  <2>1. ~Grows(t, e) /\ ~Shrinks(t, e)
    BY <1>3 DEF Grows, Shrinks, Rejects
  <2>2. AddExecution(t, e) = Attach(t, e) /\ NewTrade(t, e) = <<FromExecution(e)>>
    BY <1>3, <2>1 DEF AddExecution, NewTrade
  <2>3. Attach(t, e).total_commissions = t.total_commissions
    BY <1>0 DEF Attach, Trades
  <2>4. PICK n : n = FromExecution(e)
    OBVIOUS
  <2>5. n.total_commissions = e.commission
    BY <2>4 DEF FromExecution
  <2>6. NewTrade(t, e) = <<n>> /\ NewTrade(t, e) # <<>>
    BY <2>2, <2>4
  <2> QED BY <2>2, <2>3, <2>5, <2>6
<1>4. CASE ~Shrinks(t, e) /\ ~Rejects(t, e)
  <2>1. NewTrade(t, e) = <<>>
    BY <1>4 DEF NewTrade
  <2>2. AddExecution(t, e) \in {Increase(t, e), Charge(t, e)}
    BY <1>4 DEF AddExecution
  <2>3. /\ Increase(t, e).total_commissions = t.total_commissions + e.commission
        /\ Charge(t, e).total_commissions = t.total_commissions + e.commission
    BY <1>0 DEF Increase, Charge, Trades
  <2> QED BY <2>1, <2>2, <2>3
<1> QED BY <1>1, <1>2, <1>3, <1>4

LEMMA FeesStep ==
  ASSUME NEW b \in Seq(SoundTrades), NEW e \in Executions, NEW c \in BooksAfter(b, e)
  PROVE  Fees(c) = Fees(b) + e.commission
<1>1. c \in Seq(SoundTrades)
  BY BookStep
<1>2. PICK n, m, f, g : /\ n = Len(b) /\ m = Len(c)
                        /\ f = [i \in DOMAIN b |-> b[i].total_commissions]
                        /\ g = [i \in DOMAIN c |-> c[i].total_commissions]
  OBVIOUS
<1>3. /\ n \in Nat /\ m \in Nat /\ DOMAIN b = 1 .. n /\ DOMAIN c = 1 .. m
      /\ \A i \in 1 .. n : b[i] \in SoundTrades
      /\ \A i \in 1 .. m : c[i] \in SoundTrades
  BY <1>1, <1>2
<1>4. /\ \A i \in 1 .. n : f[i] = b[i].total_commissions
      /\ \A i \in 1 .. m : g[i] = c[i].total_commissions
  BY <1>2, <1>3
<1>5. \A t \in SoundTrades : t.total_commissions \in Int
  BY DEF SoundTrades, Trades
<1>6. (\A i \in 1 .. n : f[i] \in Int) /\ \A i \in 1 .. m : g[i] \in Int
  BY <1>3, <1>4, <1>5
<1>7. e.commission \in Int /\ SumOf(f, n) \in Int
  BY <1>3, <1>6, SumOfInt DEF Executions
<1>8. CASE Matching(b, e) = {} /\ c = Append(b, FromExecution(e))
  <2>1. m = n + 1 /\ (\A i \in 1 .. n : c[i] = b[i]) /\ c[n + 1] = FromExecution(e)
    BY <1>2, <1>3, <1>8
  <2>2. g[n + 1] = e.commission
    BY <1>3, <1>4, <2>1 DEF FromExecution
  <2>3. \A i \in 1 .. n : f[i] = g[i]
    BY <1>3, <1>4, <2>1
  <2>4. SumOf(g, n + 1) = SumOf(f, n) + g[n + 1]
    BY <1>3, <2>3, SumOfLonger
  <2> QED BY <1>2, <2>1, <2>2, <2>4 DEF Fees
<1>9. ASSUME NEW k \in Matching(b, e), k \in 1 .. n, c[k] = AddExecution(b[k], e),
             \A i \in 1 .. n : i # k => c[i] = b[i],
             NEW extra,
             \/ NewTrade(b[k], e) = <<>> /\ m = n /\ extra = 0
             \/ NewTrade(b[k], e) = <<c[n + 1]>> /\ m = n + 1 /\ extra = g[n + 1]
      PROVE  Fees(c) = Fees(b) + e.commission
  <2>1. IsOpen(b[k]) /\ b[k] \in SoundTrades
    BY <1>3, <1>9, MatchingOpen
  <2>2. m \in {n, n + 1} /\ \A i \in 1 .. n : i # k => f[i] = g[i]
    BY <1>3, <1>4, <1>9
  <2>x. /\ n \in Nat /\ k \in 1 .. n
        /\ \A i \in 1 .. n : f[i] \in Int /\ g[i] \in Int
    BY <1>3, <1>6, <1>9
  <2>a. SumOf(g, n) = SumOf(f, n) - f[k] + g[k]
    BY <2>2, <2>x, SumOfChanged
  <2>c. SumOf(g, n + 1) = SumOf(f, n) - f[k] + g[k] + g[n + 1]
    BY <2>2, <2>x, SumOfBook
  <2>b. f[k] \in Int /\ g[k] \in Int
    BY <1>3, <1>6, <1>9
  <2>3. SumOf(g, m) = SumOf(f, n) - f[k] + g[k] + extra
    BY <1>3, <1>7, <1>9, <2>a, <2>b, <2>c
  <2>4. k \in 1 .. m /\ extra = (IF m = n THEN 0 ELSE g[n + 1]) /\ extra \in Int
    BY <1>3, <1>6, <1>9
  <2>5. g[k] + extra = f[k] + e.commission
    <3>1. f[k] = b[k].total_commissions /\ g[k] = AddExecution(b[k], e).total_commissions
      BY <1>4, <1>9, <2>4
    <3>2. CASE NewTrade(b[k], e) = <<>> /\ m = n /\ extra = 0
      BY <2>b, <2>1, <3>1, <3>2, FeesMove
    <3>3. CASE NewTrade(b[k], e) = <<c[n + 1]>> /\ m = n + 1 /\ extra = g[n + 1]
      <4>1. g[n + 1] = c[n + 1].total_commissions
        BY <1>3, <1>4, <3>3
      <4> QED BY <2>1, <3>1, <3>3, <4>1, FeesMove
    <3> QED BY <1>9, <3>2, <3>3
  <2>y. extra \in Int
    BY <2>4
  <2>6. SumOf(g, m) = SumOf(f, n) + e.commission
    BY <1>7, <2>b, <2>3, <2>5, <2>y
  <2> QED BY <1>2, <2>6 DEF Fees
<1>10. ASSUME NEW k \in Matching(b, e), k \in 1 .. n, c[k] = AddExecution(b[k], e),
              \A i \in 1 .. n : i # k => c[i] = b[i],
              \/ NewTrade(b[k], e) = <<>> /\ m = n
              \/ NewTrade(b[k], e) = <<c[n + 1]>> /\ m = n + 1
       PROVE  Fees(c) = Fees(b) + e.commission
  <2>1. PICK extra : extra = IF m = n THEN 0 ELSE g[n + 1]
    OBVIOUS
  <2> QED BY <1>3, <1>9, <1>10, <2>1
<1> QED BY <1>2, <1>8, <1>10, BookCases

\* A reported profit goes to the trade the execution reduces, if it reduces one: what
\* is started beside it has none.
LEMMA ProfitsMove ==
  ASSUME NEW t \in SoundTrades, IsOpen(t), NEW e \in Executions, e.realized \in Int,
         Moves(e), e.realized = 0 \/ Shrinks(t, e)
  PROVE  /\ AddExecution(t, e).realized_pnl = t.realized_pnl + e.realized
         /\ \A n : NewTrade(t, e) = <<n>> => n.realized_pnl = 0
<1>0. t \in Trades /\ t.realized_pnl \in Int
  BY DEF SoundTrades, Trades
<1>0a. ASSUME NEW n, NewTrade(t, e) = <<n>>
      PROVE  n.realized_pnl = 0
  <2>1. \A y : FromExecution(y).realized_pnl = 0
    BY DEF FromExecution
  <2>2. \/ NewTrade(t, e) = <<FromExecution(Rest(t, e))>>
        \/ NewTrade(t, e) = <<FromExecution(e)>>
    BY <1>0a DEF NewTrade
  <2> QED BY <1>0a, <2>1, <2>2
<1>1. CASE Shrinks(t, e)
  <2>1. PICK x : x = Closing(t, e)
    OBVIOUS
  <2>2. x \in Executions /\ x.realized = e.realized
    BY <2>1, ClosingType DEF Closing, Executions
  <2>3. x.realized # Unset
    BY <2>2, ScaleAssumption
  <2>4. PICK v : v = Valued(t, x)
    OBVIOUS
  <2>5. v.realized = e.realized
    BY <2>2, <2>3, <2>4, ValuedType
  <2>6. AddExecution(t, e) = Reduce(t, x)
    BY <1>1, <2>1 DEF AddExecution, Grows, Shrinks
  <2>7. Reduce(t, x).realized_pnl = t.realized_pnl + v.realized
    BY <1>0, <2>4 DEF Reduce, Trades
  <2>8. AddExecution(t, e).realized_pnl = t.realized_pnl + e.realized
    BY <2>5, <2>6, <2>7
  <2> QED BY <1>0a, <2>8
<1>2. CASE ~Shrinks(t, e)
  <2>1. AddExecution(t, e) \in {Increase(t, e), Attach(t, e)} /\ e.realized = 0
    BY <1>2 DEF AddExecution, Grows, Shrinks, Rejects
  <2>2. /\ Increase(t, e).realized_pnl = t.realized_pnl
        /\ Attach(t, e).realized_pnl = t.realized_pnl
    BY <1>0 DEF Increase, Attach, Trades
  <2>3. AddExecution(t, e).realized_pnl = t.realized_pnl + e.realized
    BY <1>0, <2>1, <2>2
  <2> QED BY <1>0a, <2>3
<1> QED BY <1>1, <1>2

\* All profits of a book, after an execution that reduces a trade if it has any.
LEMMA ProfitsStep ==
  ASSUME NEW b \in Seq(SoundTrades), NEW e \in Executions, NEW c \in BooksAfter(b, e),
         e.realized \in Int, Moves(e),
         e.realized = 0 \/ (Matching(b, e) # {} /\ \A k \in Matching(b, e) : Shrinks(b[k], e))
  PROVE  Profits(c) = Profits(b) + e.realized
<1>1. c \in Seq(SoundTrades)
  BY BookStep
<1>2. PICK n, m, f, g : /\ n = Len(b) /\ m = Len(c)
                        /\ f = [i \in DOMAIN b |-> b[i].realized_pnl]
                        /\ g = [i \in DOMAIN c |-> c[i].realized_pnl]
  OBVIOUS
<1>3. /\ n \in Nat /\ m \in Nat /\ DOMAIN b = 1 .. n /\ DOMAIN c = 1 .. m
      /\ \A i \in 1 .. n : b[i] \in SoundTrades
      /\ \A i \in 1 .. m : c[i] \in SoundTrades
  BY <1>1, <1>2
<1>4. /\ \A i \in 1 .. n : f[i] = b[i].realized_pnl
      /\ \A i \in 1 .. m : g[i] = c[i].realized_pnl
  BY <1>2, <1>3
<1>5. \A t \in SoundTrades : t.realized_pnl \in Int
  BY DEF SoundTrades, Trades
<1>6. (\A i \in 1 .. n : f[i] \in Int) /\ \A i \in 1 .. m : g[i] \in Int
  BY <1>3, <1>4, <1>5
<1>7. SumOf(f, n) \in Int
  BY <1>3, <1>6, SumOfInt
<1>8. CASE Matching(b, e) = {} /\ c = Append(b, FromExecution(e))
  <2>1. m = n + 1 /\ (\A i \in 1 .. n : c[i] = b[i]) /\ c[n + 1] = FromExecution(e)
    BY <1>2, <1>3, <1>8
  <2>2. g[n + 1] = 0 /\ e.realized = 0
    BY <1>3, <1>4, <1>8, <2>1 DEF FromExecution
  <2>3. \A i \in 1 .. n : f[i] = g[i]
    BY <1>3, <1>4, <2>1
  <2>4. SumOf(g, n + 1) = SumOf(f, n) + g[n + 1]
    BY <1>3, <2>3, SumOfLonger
  <2> QED BY <1>2, <2>1, <2>2, <2>4 DEF Profits
<1>9. ASSUME NEW k \in Matching(b, e), k \in 1 .. n, c[k] = AddExecution(b[k], e),
             \A i \in 1 .. n : i # k => c[i] = b[i],
             \/ NewTrade(b[k], e) = <<>> /\ m = n
             \/ NewTrade(b[k], e) = <<c[n + 1]>> /\ m = n + 1
      PROVE  Profits(c) = Profits(b) + e.realized
  <2>1. IsOpen(b[k]) /\ b[k] \in SoundTrades /\ (e.realized = 0 \/ Shrinks(b[k], e))
    BY <1>3, <1>9, MatchingOpen
  <2>2. k \in 1 .. m /\ \A i \in 1 .. n : i # k => f[i] = g[i]
    BY <1>3, <1>4, <1>9
  <2>3. /\ f[k] \in Int /\ g[k] \in Int
        /\ \A i \in 1 .. n : f[i] \in Int /\ g[i] \in Int
    BY <1>3, <1>6, <1>9, <2>2
  <2>4. g[k] = f[k] + e.realized
    BY <1>4, <1>9, <2>1, <2>2, ProfitsMove
  <2>5. CASE m = n
    <3>1. SumOf(g, n) = SumOf(f, n) - f[k] + g[k]
      BY <1>3, <1>9, <2>2, <2>3, SumOfChanged
    <3> QED BY <1>2, <1>7, <2>3, <2>4, <2>5, <3>1 DEF Profits
  <2>6. CASE NewTrade(b[k], e) = <<c[n + 1]>> /\ m = n + 1
    <3>1. g[n + 1] = 0
      <4>1. c[n + 1].realized_pnl = 0
        BY <2>1, <2>6, ProfitsMove
      <4> QED BY <1>3, <1>4, <2>6, <4>1
    <3>2. SumOf(g, n + 1) = SumOf(f, n) - f[k] + g[k] + g[n + 1]
      BY <1>3, <1>9, <2>2, <2>3, SumOfBook
    <3> QED BY <1>2, <1>7, <2>3, <2>4, <2>6, <3>1, <3>2 DEF Profits
  <2> QED BY <1>9, <2>5, <2>6
<1> QED BY <1>2, <1>8, <1>9, BookCases

\* What a book shows of a symbol is moved by what the executions of the symbol move.
LEMMA NetStep ==
  ASSUME NEW b \in Seq(SoundTrades), NEW e \in Executions, NEW c \in BooksAfter(b, e),
         Moves(e) \/ Matching(b, e) # {}, NEW s, NEW moved,
         moved = IF Moves(e) /\ s = e.symbol THEN EffectiveQty(e) ELSE 0
  PROVE  Net(c, s) = Net(b, s) + moved
<1>1. c \in Seq(SoundTrades)
  BY BookStep
<1>2. PICK n, m, f, g :
        /\ n = Len(b) /\ m = Len(c)
        /\ f = [i \in DOMAIN b |-> IF b[i].symbol = s /\ IsOpen(b[i]) THEN Exposure(b[i]) ELSE 0]
        /\ g = [i \in DOMAIN c |-> IF c[i].symbol = s /\ IsOpen(c[i]) THEN Exposure(c[i]) ELSE 0]
  OBVIOUS
<1>3. /\ n \in Nat /\ m \in Nat /\ DOMAIN b = 1 .. n /\ DOMAIN c = 1 .. m
      /\ \A i \in 1 .. n : b[i] \in SoundTrades
      /\ \A i \in 1 .. m : c[i] \in SoundTrades
  BY <1>1, <1>2
<1>4. ASSUME NEW t \in SoundTrades
      PROVE  Exposure(t) \in Int /\ (~IsOpen(t) => Exposure(t) = 0)
  BY DEF SoundTrades, Trades, Exposure, Sign, IsOpen
<1>5. /\ \A i \in 1 .. n : f[i] = IF b[i].symbol = s THEN Exposure(b[i]) ELSE 0
      /\ \A i \in 1 .. m : g[i] = IF c[i].symbol = s THEN Exposure(c[i]) ELSE 0
  BY <1>2, <1>3, <1>4
<1>6. (\A i \in 1 .. n : f[i] \in Int) /\ \A i \in 1 .. m : g[i] \in Int
  BY <1>3, <1>4, <1>5
<1>7. moved \in Int /\ SumOf(f, n) \in Int
  BY <1>3, <1>6, SumOfInt DEF EffectiveQty, Sign, Executions, Pos
<1>8. CASE Matching(b, e) = {} /\ c = Append(b, FromExecution(e))
  <2>1. m = n + 1 /\ (\A i \in 1 .. n : c[i] = b[i]) /\ c[n + 1] = FromExecution(e)
    BY <1>2, <1>3, <1>8
  <2>2. g[n + 1] = moved
    BY <1>3, <1>5, <1>8, <2>1, FromExecutionSound
  <2>3. \A i \in 1 .. n : f[i] = g[i]
    BY <1>3, <1>5, <2>1
  <2>4. SumOf(g, n + 1) = SumOf(f, n) + g[n + 1]
    BY <1>3, <2>3, SumOfLonger
  <2> QED BY <1>2, <2>1, <2>2, <2>4 DEF Net
<1>9. ASSUME NEW k \in Matching(b, e), k \in 1 .. n, c[k] = AddExecution(b[k], e),
             \A i \in 1 .. n : i # k => c[i] = b[i],
             NEW extra,
             \/ NewTrade(b[k], e) = <<>> /\ m = n /\ extra = 0
             \/ NewTrade(b[k], e) = <<c[n + 1]>> /\ m = n + 1 /\ extra = g[n + 1]
      PROVE  Net(c, s) = Net(b, s) + moved
  <2>1. IsOpen(b[k]) /\ b[k] \in SoundTrades /\ b[k].symbol = e.symbol
    BY <1>3, <1>9, MatchingOpen
  <2>2. c[k].symbol = e.symbol
    BY <1>9, <2>1, AddExecutionSound
  <2>3. m \in {n, n + 1} /\ \A i \in 1 .. n : i # k => f[i] = g[i]
    BY <1>3, <1>5, <1>9
  <2>x. /\ n \in Nat /\ k \in 1 .. n
        /\ \A i \in 1 .. n : f[i] \in Int /\ g[i] \in Int
    BY <1>3, <1>6, <1>9
  <2>a. SumOf(g, n) = SumOf(f, n) - f[k] + g[k]
    BY <2>3, <2>x, SumOfChanged
  <2>c. SumOf(g, n + 1) = SumOf(f, n) - f[k] + g[k] + g[n + 1]
    BY <2>3, <2>x, SumOfBook
  <2>b. f[k] \in Int /\ g[k] \in Int
    BY <1>3, <1>6, <1>9
  <2>4. SumOf(g, m) = SumOf(f, n) - f[k] + g[k] + extra
    BY <1>3, <1>7, <1>9, <2>a, <2>b, <2>c
  <2>5. k \in 1 .. m /\ extra = (IF m = n THEN 0 ELSE g[n + 1]) /\ extra \in Int
        /\ (m = n + 1 => n + 1 \in 1 .. m)
    BY <1>3, <1>6, <1>9
  <2>6. PICK all : all = IF Moves(e) THEN EffectiveQty(e) ELSE 0
    OBVIOUS
  <2>7. g[k] + extra = f[k] + moved
    <3>1. f[k] = (IF e.symbol = s THEN Exposure(b[k]) ELSE 0)
          /\ g[k] = (IF e.symbol = s THEN Exposure(c[k]) ELSE 0)
      BY <1>5, <1>9, <2>1, <2>2, <2>5
    <3>2. CASE NewTrade(b[k], e) = <<>> /\ m = n /\ extra = 0
      <4>1. Exposure(c[k]) = Exposure(b[k]) + all
        BY <1>9, <2>1, <2>6, <3>2, ExposureMoves
      <4>2. Exposure(c[k]) \in Int /\ Exposure(b[k]) \in Int
        BY <1>3, <1>4, <1>9, <2>5
      <4> QED BY <2>6, <3>1, <3>2, <4>1, <4>2
    <3>3. CASE NewTrade(b[k], e) = <<c[n + 1]>> /\ m = n + 1 /\ extra = g[n + 1]
      <4>1. /\ c[n + 1].symbol = e.symbol
            /\ Exposure(c[k]) + Exposure(c[n + 1]) = Exposure(b[k]) + all
        BY <1>9, <2>1, <2>6, <3>3, ExposureMoves
      <4>2. extra = IF e.symbol = s THEN Exposure(c[n + 1]) ELSE 0
        BY <1>5, <2>5, <3>3, <4>1
      <4> QED BY <2>6, <3>1, <4>1, <4>2
    <3> QED BY <1>9, <3>2, <3>3
  <2>y. extra \in Int
    BY <2>5
  <2>8. SumOf(g, m) = SumOf(f, n) + moved
    BY <1>7, <2>b, <2>4, <2>7, <2>y
  <2> QED BY <1>2, <2>8 DEF Net
<1>10. ASSUME NEW k \in Matching(b, e), k \in 1 .. n, c[k] = AddExecution(b[k], e),
              \A i \in 1 .. n : i # k => c[i] = b[i],
              \/ NewTrade(b[k], e) = <<>> /\ m = n
              \/ NewTrade(b[k], e) = <<c[n + 1]>> /\ m = n + 1
       PROVE  Net(c, s) = Net(b, s) + moved
  <2>1. PICK extra : extra = IF m = n THEN 0 ELSE g[n + 1]
    OBVIOUS
  <2> QED BY <1>3, <1>9, <1>10, <2>1
<1> QED BY <1>2, <1>8, <1>10, BookCases

\* A symbol of which the book shows something has an open trade.
LEMMA ShownIsOpen ==
  ASSUME NEW b \in Seq(SoundTrades), NEW s, Net(b, s) # 0
  PROVE  \E i \in DOMAIN b : b[i].symbol = s /\ IsOpen(b[i])
<1> DEFINE f == [i \in DOMAIN b |-> IF b[i].symbol = s /\ IsOpen(b[i]) THEN Exposure(b[i]) ELSE 0]
<1> SUFFICES ASSUME \A i \in DOMAIN b : ~(b[i].symbol = s /\ IsOpen(b[i])) PROVE FALSE
  OBVIOUS
<1>1. Len(b) \in Nat /\ \A i \in 1 .. Len(b) : f[i] = 0
  OBVIOUS
<1> HIDE DEF f
<1>2. SumOf(f, Len(b)) = 0
  BY <1>1, SumOfNothing
<1> QED BY <1>2 DEF Net, f

-----------------------------------------------------------------------------
(* What a trade shows and what its executions come to.                     *)

\* Of a trade of account a that took n at most.  The profits are computed where the
\* exchange reports none.
Accounted(t, n, a) ==
  /\ t.qty <= n
  /\ t.qty = Quantity(t, Opening(t))
  /\ t.open_qty = t.qty - Quantity(t, Reducing(t))
  /\ t.entry * t.qty = Scale * Worth(t, Opening(t))
  /\ t.exit * (t.qty - t.open_qty) = Scale * Worth(t, Reducing(t))
  /\ t.exit = NoExit => t.open_qty = t.qty
  /\ a # "binance" /\ ~GrewAfterClosing(t) =>
       t.realized_pnl = Sign(t.side) * (Scale * Worth(t, Reducing(t))
                                          - t.entry * (t.qty - t.open_qty))

LEMMA ExecutionsAre ==
  ASSUME NEW t \in Trades
  PROVE  /\ Len(t.executions) \in Nat /\ DOMAIN t.executions = 1 .. Len(t.executions)
         /\ \A k \in 1 .. Len(t.executions) :
              /\ t.executions[k] \in Executions
              /\ t.executions[k].qty \in Nat /\ t.executions[k].qty > 0
              /\ t.executions[k].price \in Nat /\ t.executions[k].price > 0
              /\ t.executions[k].price * t.executions[k].qty \in Nat
<1>1. t.executions \in Seq(Executions)
  BY DEF Trades
<1>2. \A e \in Executions : /\ e.qty \in Nat /\ e.qty > 0 /\ e.price \in Nat /\ e.price > 0
                            /\ e.price * e.qty \in Nat
  BY DEF Executions, Pos
<1> QED BY <1>1, <1>2

\* Both totals are natural numbers, and nothing comes to nothing.
LEMMA TotalsNat ==
  ASSUME NEW t \in Trades, NEW ks
  PROVE  /\ Quantity(t, ks) \in Nat /\ Worth(t, ks) \in Nat
         /\ ks = {} => Quantity(t, ks) = 0 /\ Worth(t, ks) = 0
<1>1. PICK n, q, w :
        /\ n = Len(t.executions)
        /\ q = [k \in DOMAIN t.executions |-> IF k \in ks THEN t.executions[k].qty ELSE 0]
        /\ w = [k \in DOMAIN t.executions |->
                  IF k \in ks THEN t.executions[k].price * t.executions[k].qty ELSE 0]
  OBVIOUS
<1>2. /\ n \in Nat
      /\ \A k \in 1 .. n : q[k] \in Nat /\ w[k] \in Nat
      /\ ks = {} => \A k \in 1 .. n : q[k] = 0 /\ w[k] = 0
  BY <1>1, ExecutionsAre
<1>3. SumOf(q, n) \in Nat /\ SumOf(w, n) \in Nat
  BY <1>2, SumsNat DEF SumOf
<1>4. ks = {} => SumOf(q, n) = 0 /\ SumOf(w, n) = 0
  BY <1>2, SumOfNothing
<1> QED BY <1>1, <1>3, <1>4 DEF Quantity, Worth

\* The totals of a trade with one execution more.
LEMMA TotalsAppend ==
  ASSUME NEW t \in Trades, NEW u \in Trades, NEW x \in Executions,
         u.executions = Append(t.executions, x), NEW old, NEW new, NEW counts \in BOOLEAN,
         \A k \in 1 .. Len(t.executions) : k \in new <=> k \in old,
         Len(t.executions) + 1 \in new <=> counts
  PROVE  /\ Quantity(u, new) = Quantity(t, old) + (IF counts THEN x.qty ELSE 0)
         /\ Worth(u, new) = Worth(t, old) + (IF counts THEN x.price * x.qty ELSE 0)
<1>1. PICK n, q, w, qq, ww :
        /\ n = Len(t.executions)
        /\ q = [k \in DOMAIN t.executions |-> IF k \in old THEN t.executions[k].qty ELSE 0]
        /\ w = [k \in DOMAIN t.executions |->
                  IF k \in old THEN t.executions[k].price * t.executions[k].qty ELSE 0]
        /\ qq = [k \in DOMAIN u.executions |-> IF k \in new THEN u.executions[k].qty ELSE 0]
        /\ ww = [k \in DOMAIN u.executions |->
                   IF k \in new THEN u.executions[k].price * u.executions[k].qty ELSE 0]
  OBVIOUS
<1>2. t.executions \in Seq(Executions)
  BY DEF Trades
<1>3. /\ n \in Nat /\ DOMAIN t.executions = 1 .. n /\ DOMAIN u.executions = 1 .. n + 1
      /\ Len(u.executions) = n + 1 /\ u.executions[n + 1] = x
      /\ \A k \in 1 .. n : u.executions[k] = t.executions[k]
  BY <1>1, <1>2
<1>4. \A k \in 1 .. n : q[k] = qq[k] /\ w[k] = ww[k]
  BY <1>1, <1>3
<1>5. n + 1 \in 1 .. n + 1
  BY <1>3
<1>6. qq[n + 1] = IF counts THEN x.qty ELSE 0
  BY <1>1, <1>3, <1>5
<1>7. ww[n + 1] = IF counts THEN x.price * x.qty ELSE 0
  BY <1>1, <1>3, <1>5
<1>8. SumOf(qq, n + 1) = SumOf(q, n) + qq[n + 1] /\ SumOf(ww, n + 1) = SumOf(w, n) + ww[n + 1]
  BY <1>3, <1>4, SumOfLonger
<1>9. Quantity(u, new) = SumOf(qq, n + 1) /\ Quantity(t, old) = SumOf(q, n)
  BY <1>1, <1>3 DEF Quantity
<1>10. Worth(u, new) = SumOf(ww, n + 1) /\ Worth(t, old) = SumOf(w, n)
  BY <1>1, <1>3 DEF Worth
<1> QED BY <1>6, <1>7, <1>8, <1>9, <1>10

\* Which executions of a trade count, when one is added.
LEMMA Appended ==
  ASSUME NEW t \in Trades, NEW u \in Trades, NEW x \in Executions,
         u.executions = Append(t.executions, x), u.side = t.side
  PROVE  /\ Grows(t, x) =>
              /\ Quantity(u, Opening(u)) = Quantity(t, Opening(t)) + x.qty
              /\ Worth(u, Opening(u)) = Worth(t, Opening(t)) + x.price * x.qty
         /\ ~Grows(t, x) => /\ Quantity(u, Opening(u)) = Quantity(t, Opening(t))
                            /\ Worth(u, Opening(u)) = Worth(t, Opening(t))
         /\ Shrinks(t, x) =>
              /\ Quantity(u, Reducing(u)) = Quantity(t, Reducing(t)) + x.qty
              /\ Worth(u, Reducing(u)) = Worth(t, Reducing(t)) + x.price * x.qty
         /\ ~Shrinks(t, x) => /\ Quantity(u, Reducing(u)) = Quantity(t, Reducing(t))
                              /\ Worth(u, Reducing(u)) = Worth(t, Reducing(t))
         /\ ~GrewAfterClosing(u) => /\ ~GrewAfterClosing(t)
                                    /\ Grows(t, x) => Reducing(t) = {}
<1>1. PICK n : n = Len(t.executions)
  OBVIOUS
<1>2. t.executions \in Seq(Executions)
  BY DEF Trades
<1>3. /\ n \in Nat /\ DOMAIN t.executions = 1 .. n /\ DOMAIN u.executions = 1 .. n + 1
      /\ u.executions[n + 1] = x
      /\ \A k \in 1 .. n : u.executions[k] = t.executions[k]
  BY <1>1, <1>2
<1>4. \A y : (Grows(u, y) <=> Grows(t, y)) /\ (Shrinks(u, y) <=> Shrinks(t, y))
  BY DEF Grows, Shrinks
<1>5. n + 1 \in 1 .. n + 1 /\ \A k \in 1 .. n : k \in 1 .. n + 1 /\ k < n + 1
  BY <1>3
<1>6. /\ \A k \in 1 .. n : k \in Opening(u) <=> k \in Opening(t)
      /\ n + 1 \in Opening(u) <=> Grows(t, x)
  BY <1>3, <1>4, <1>5 DEF Opening
<1>7. /\ \A k \in 1 .. n : k \in Reducing(u) <=> k \in Reducing(t)
      /\ n + 1 \in Reducing(u) <=> Shrinks(t, x)
  BY <1>3, <1>4, <1>5 DEF Reducing
<1>8. PICK grows \in BOOLEAN, shrinks \in BOOLEAN :
        (grows <=> Grows(t, x)) /\ (shrinks <=> Shrinks(t, x))
  OBVIOUS
<1>9. ASSUME NEW old, NEW new, NEW counts \in BOOLEAN,
             \A k \in 1 .. n : k \in new <=> k \in old, n + 1 \in new <=> counts
      PROVE  /\ counts => /\ Quantity(u, new) = Quantity(t, old) + x.qty
                          /\ Worth(u, new) = Worth(t, old) + x.price * x.qty
             /\ ~counts => /\ Quantity(u, new) = Quantity(t, old)
                           /\ Worth(u, new) = Worth(t, old)
  <2>1. Quantity(t, old) \in Nat /\ Worth(t, old) \in Nat
    BY TotalsNat
  <2>2. /\ Quantity(u, new) = Quantity(t, old) + (IF counts THEN x.qty ELSE 0)
        /\ Worth(u, new) = Worth(t, old) + (IF counts THEN x.price * x.qty ELSE 0)
    BY <1>1, <1>9, TotalsAppend
  <2>3. CASE counts
    <3>1. Quantity(u, new) = Quantity(t, old) + x.qty
      BY <2>2, <2>3
    <3>2. Worth(u, new) = Worth(t, old) + x.price * x.qty
      BY <2>2, <2>3
    <3> QED BY <2>3, <3>1, <3>2
  <2>4. CASE ~counts
    <3>1. Quantity(u, new) = Quantity(t, old) + 0
      BY <2>2, <2>4
    <3>2. Worth(u, new) = Worth(t, old) + 0
      BY <2>2, <2>4
    <3> QED BY <2>1, <2>4, <3>1, <3>2
  <2> QED BY <2>3, <2>4
<1>10. PICK ot, ou, rt, ru : ot = Opening(t) /\ ou = Opening(u) /\ rt = Reducing(t) /\ ru = Reducing(u)
  OBVIOUS
<1>13. /\ grows => /\ Quantity(u, ou) = Quantity(t, ot) + x.qty
                   /\ Worth(u, ou) = Worth(t, ot) + x.price * x.qty
       /\ ~grows => Quantity(u, ou) = Quantity(t, ot) /\ Worth(u, ou) = Worth(t, ot)
  <2>1. (\A k \in 1 .. n : k \in ou <=> k \in ot) /\ (n + 1 \in ou <=> grows)
    BY <1>6, <1>8, <1>10
  <2> QED BY <1>9, <2>1
<1>14. /\ shrinks => /\ Quantity(u, ru) = Quantity(t, rt) + x.qty
                     /\ Worth(u, ru) = Worth(t, rt) + x.price * x.qty
       /\ ~shrinks => Quantity(u, ru) = Quantity(t, rt) /\ Worth(u, ru) = Worth(t, rt)
  <2>1. (\A k \in 1 .. n : k \in ru <=> k \in rt) /\ (n + 1 \in ru <=> shrinks)
    BY <1>7, <1>8, <1>10
  <2> QED BY <1>9, <2>1
<1>11. Opening(t) \subseteq 1 .. n /\ Reducing(t) \subseteq 1 .. n
  BY <1>3 DEF Opening, Reducing
<1>12. ~GrewAfterClosing(u) => /\ ~GrewAfterClosing(t)
                               /\ Grows(t, x) => Reducing(t) = {}
  BY <1>5, <1>6, <1>7, <1>11 DEF GrewAfterClosing
<1> QED BY <1>8, <1>10, <1>12, <1>13, <1>14

-----------------------------------------------------------------------------
(* Averages are exact.                                                     *)

LEMMA DivUnique ==
  ASSUME NEW n \in Nat, n > 0, NEW a \in Int, NEW x \in Int, a = x * n
  PROVE  a \div n = x
<1>1. PICK q \in Int, r \in 0 .. n - 1 : a = q * n + r /\ a \div n = q
  OBVIOUS
<1>2. (x - q) * n = r
  BY <1>1
<1>3. CASE x - q >= 1
  <2>1. PICK d \in Nat : d = x - q - 1
    BY <1>1, <1>3
  <2>2. (x - q) * n = d * n + n /\ d * n \in Nat
    BY <1>1, <2>1
  <2> QED BY <1>1, <1>2, <2>2
<1>4. CASE q - x >= 1
  <2>1. PICK d \in Nat : d = q - x - 1
    BY <1>1, <1>4
  <2>2. (x - q) * n = -(d * n) - n /\ d * n \in Nat
    BY <1>1, <2>1
  <2> QED BY <1>1, <1>2, <2>2
<1> QED BY <1>1, <1>3, <1>4

LEMMA ScaleDivides ==
  ASSUME NEW n \in Nat, n > 0, n <= MaxFills * MaxQty, NEW N \in Int
  PROVE  ((Scale * N) \div n) * n = Scale * N
<1>1. MaxFills * MaxQty \in Int
  BY TradeBookAssumption
<1>2. Scale \in Nat /\ Scale % n = 0
  BY <1>1, ScaleAssumption, ScaleIsExact
<1>3. PICK m \in Nat : Scale = m * n
  BY <1>2
<1>4. m * N \in Int /\ Scale * N = (m * N) * n
  BY <1>3
<1>5. PICK x, a : x = m * N /\ a = Scale * N
  OBVIOUS
<1>6. x \in Int /\ a \in Int /\ a = x * n
  BY <1>4, <1>5
<1>7. a \div n = x
  BY <1>6, DivUnique
<1> QED BY <1>4, <1>5, <1>7

\* An average of two that are totals over their quantities is that of both.
LEMMA AverageIsExact ==
  ASSUME NEW v \in Int, NEW m \in Nat, NEW W \in Int, v * m = Scale * W,
         NEW p \in Nat, NEW q \in Nat, q > 0, m + q <= MaxFills * MaxQty
  PROVE  WeightedAvg(v, m, Scale * p, q) * (m + q) = Scale * (W + p * q)
<1>1. Scale \in Int
  BY ScalePos
<1>2. p * q \in Int /\ (Scale * p) * q = Scale * (p * q)
  BY <1>1
<1>3. PICK N, s : N = W + p * q /\ s = (Scale * p) * q
  OBVIOUS
<1>4. N \in Int /\ v * m + s = Scale * N
  BY <1>1, <1>2, <1>3
<1>5. ((Scale * N) \div (m + q)) * (m + q) = Scale * N
  BY <1>4, ScaleDivides
<1> QED BY <1>3, <1>4, <1>5 DEF WeightedAvg

-----------------------------------------------------------------------------
(* What add_execution makes of an accounted trade.                         *)

\* What Accounted says of numbers alone.
LEMMA AccountedNumbers ==
  ASSUME NEW t \in SoundTrades
  PROVE  /\ t \in Trades
         /\ t.qty \in Nat /\ t.qty > 0 /\ t.open_qty \in Nat /\ t.open_qty <= t.qty
         /\ t.entry \in Int /\ t.exit \in Int /\ t.realized_pnl \in Int
         /\ Sign(t.side) \in Int
         /\ Quantity(t, Opening(t)) \in Nat /\ Worth(t, Opening(t)) \in Nat
         /\ Quantity(t, Reducing(t)) \in Nat /\ Worth(t, Reducing(t)) \in Nat
         /\ Reducing(t) = {} => Quantity(t, Reducing(t)) = 0 /\ Worth(t, Reducing(t)) = 0
<1>1. t \in Trades
  BY DEF SoundTrades
<1>2. Sign(t.side) \in Int
  BY DEF Sign
<1> QED BY <1>1, <1>2, TotalsNat DEF SoundTrades, Trades, Pos

LEMMA FirstAccounted ==
  ASSUME NEW e \in Executions, Moves(e), NEW n \in Nat, e.qty <= n, NEW a
  PROVE  Accounted(FromExecution(e), n, a)
<1>1. PICK t : t = FromExecution(e)
  OBVIOUS
<1>2. PICK empty : empty = [t EXCEPT !.executions = <<>>]
  OBVIOUS
<1>3. t \in SoundTrades /\ t \in Trades
  BY <1>1, FromExecutionSound DEF SoundTrades
<1>4. /\ t.symbol = e.symbol /\ t.side = e.side /\ t.qty = e.qty /\ t.open_qty = e.qty
      /\ t.entry = Scale * e.price /\ t.exit = 0 /\ t.realized_pnl = 0
      /\ t.executions = <<e>>
  BY <1>1 DEF FromExecution, NoExit
<1>5. /\ empty \in Trades /\ empty.executions = <<>> /\ empty.side = t.side
  <2>1. <<>> \in Seq(Executions)
    OBVIOUS
  <2>2. PICK E, z : E = Seq(Executions) /\ z = <<>> /\ z \in E
    BY <2>1
  <2> QED BY <1>2, <1>3, <2>2 DEF Trades
<1>6. Opening(empty) = {} /\ Reducing(empty) = {}
  BY <1>5 DEF Opening, Reducing
<1>7. /\ Quantity(empty, Opening(empty)) = 0 /\ Worth(empty, Opening(empty)) = 0
      /\ Quantity(empty, Reducing(empty)) = 0 /\ Worth(empty, Reducing(empty)) = 0
  BY <1>5, <1>6, TotalsNat
<1>8. Grows(empty, e) /\ ~Shrinks(empty, e)
  BY <1>4, <1>5 DEF Grows, Shrinks
<1>9. t.executions = Append(empty.executions, e)
  BY <1>4, <1>5
<1>10. /\ e.qty \in Nat /\ e.price \in Nat /\ e.price * e.qty \in Nat
  BY DEF Executions, Pos
<1>11. /\ Quantity(t, Opening(t)) = e.qty /\ Worth(t, Opening(t)) = e.price * e.qty
       /\ Quantity(t, Reducing(t)) = 0 /\ Worth(t, Reducing(t)) = 0
  <2>1. /\ Grows(empty, e) =>
             /\ Quantity(t, Opening(t)) = Quantity(empty, Opening(empty)) + e.qty
             /\ Worth(t, Opening(t)) = Worth(empty, Opening(empty)) + e.price * e.qty
        /\ ~Shrinks(empty, e) =>
             /\ Quantity(t, Reducing(t)) = Quantity(empty, Reducing(empty))
             /\ Worth(t, Reducing(t)) = Worth(empty, Reducing(empty))
    BY <1>3, <1>5, <1>9, Appended
  <2> QED BY <1>7, <1>8, <1>10, <2>1
<1>12. /\ Scale \in Int /\ (Scale * e.price) * e.qty = Scale * (e.price * e.qty)
       /\ Scale * e.price \in Int /\ (Scale * e.price) * 0 = 0 /\ Sign(t.side) * 0 = 0
  BY <1>10, ScalePos DEF Sign
<1>13. /\ t.qty <= n
       /\ t.qty = Quantity(t, Opening(t))
       /\ t.open_qty = t.qty - Quantity(t, Reducing(t))
       /\ t.entry * t.qty = Scale * Worth(t, Opening(t))
       /\ t.exit * (t.qty - t.open_qty) = Scale * Worth(t, Reducing(t))
       /\ t.open_qty = t.qty
  BY <1>4, <1>10, <1>11, <1>12
<1>14. t.realized_pnl = Sign(t.side) * (Scale * Worth(t, Reducing(t))
                                         - t.entry * (t.qty - t.open_qty))
  BY <1>4, <1>10, <1>11, <1>12
<1> QED BY <1>1, <1>13, <1>14 DEF Accounted

LEMMA GrowAccounted ==
  ASSUME NEW t \in SoundTrades, NEW e \in Executions, IsOpen(t), Grows(t, e),
         NEW n \in Nat, NEW m \in Nat, NEW a, Accounted(t, n, a), n + e.qty <= m,
         m <= MaxFills * MaxQty
  PROVE  Accounted(AddExecution(t, e), m, a)
<1>1. PICK u : u = AddExecution(t, e)
  OBVIOUS
<1>2. u \in SoundTrades /\ u \in Trades /\ t \in Trades
  BY <1>1, AddExecutionSound DEF SoundTrades
<1>3. /\ u.side = t.side /\ u.qty = t.qty + e.qty /\ u.open_qty = t.open_qty + e.qty
      /\ u.entry = WeightedAvg(t.entry, t.qty, Scale * e.price, e.qty)
      /\ u.exit = t.exit /\ u.realized_pnl = t.realized_pnl
      /\ u.executions = Append(t.executions, e)
  BY <1>1, <1>2 DEF AddExecution, Increase, Trades
<1>4. ~Shrinks(t, e)
  BY DEF Grows, Shrinks
<1>5. PICK Q, W, R, V : /\ Q = Quantity(t, Opening(t)) /\ W = Worth(t, Opening(t))
                        /\ R = Quantity(t, Reducing(t)) /\ V = Worth(t, Reducing(t))
  OBVIOUS
<1>6. /\ t.qty \in Nat /\ t.qty > 0 /\ t.open_qty \in Nat /\ t.open_qty <= t.qty
      /\ t.entry \in Int /\ t.exit \in Int /\ t.realized_pnl \in Int /\ Sign(t.side) \in Int
      /\ Q \in Nat /\ W \in Nat /\ R \in Nat /\ V \in Nat
      /\ Reducing(t) = {} => R = 0 /\ V = 0
  BY <1>5, AccountedNumbers
<1>7. /\ t.qty <= n /\ t.qty = Q /\ t.open_qty = t.qty - R
      /\ t.entry * t.qty = Scale * W /\ t.exit * (t.qty - t.open_qty) = Scale * V
      /\ t.exit = NoExit => t.open_qty = t.qty
  BY <1>5 DEF Accounted
<1>8. e.qty \in Nat /\ e.qty > 0 /\ e.price \in Nat /\ e.price * e.qty \in Nat
  BY DEF Executions, Pos
<1>9. /\ Quantity(u, Opening(u)) = Q + e.qty /\ Worth(u, Opening(u)) = W + e.price * e.qty
      /\ Quantity(u, Reducing(u)) = R /\ Worth(u, Reducing(u)) = V
      /\ ~GrewAfterClosing(u) => ~GrewAfterClosing(t) /\ Reducing(t) = {}
  <2>1. u \in Trades /\ t \in Trades /\ u.executions = Append(t.executions, e) /\ u.side = t.side
    BY <1>2, <1>3
  <2>2. /\ Quantity(u, Opening(u)) = Quantity(t, Opening(t)) + e.qty
        /\ Worth(u, Opening(u)) = Worth(t, Opening(t)) + e.price * e.qty
        /\ Quantity(u, Reducing(u)) = Quantity(t, Reducing(t))
        /\ Worth(u, Reducing(u)) = Worth(t, Reducing(t))
    BY <1>4, <2>1, Appended
  <2>3. ~GrewAfterClosing(u) => ~GrewAfterClosing(t) /\ Reducing(t) = {}
    BY <2>1, Appended
  <2> QED BY <1>5, <2>2, <2>3
<1>10. t.qty + e.qty <= m /\ t.qty + e.qty <= MaxFills * MaxQty
  <2>1. MaxFills * MaxQty \in Int
    BY TradeBookAssumption
  <2> QED BY <1>6, <1>7, <1>8, <2>1
<1>11. u.entry * (t.qty + e.qty) = Scale * (W + e.price * e.qty)
  <2>1. PICK v, k, p, q : v = t.entry /\ k = t.qty /\ p = e.price /\ q = e.qty
    OBVIOUS
  <2>2. /\ v \in Int /\ k \in Nat /\ W \in Int /\ p \in Nat /\ q \in Nat /\ q > 0
        /\ k + q <= MaxFills * MaxQty
    BY <1>6, <1>8, <1>10, <2>1
  <2>3. v * k = Scale * W
    BY <1>7, <2>1
  <2>4. WeightedAvg(v, k, Scale * p, q) * (k + q) = Scale * (W + p * q)
    BY <2>2, <2>3, AverageIsExact
  <2> QED BY <1>3, <2>1, <2>4
<1>12. u.qty - u.open_qty = t.qty - t.open_qty /\ u.qty = Q + e.qty
  BY <1>3, <1>6, <1>7, <1>8
<1>13. ASSUME a # "binance", ~GrewAfterClosing(u)
       PROVE  u.realized_pnl = Sign(u.side) * (Scale * Worth(u, Reducing(u))
                                                - u.entry * (u.qty - u.open_qty))
  <2>1. R = 0 /\ V = 0 /\ t.open_qty = t.qty
    BY <1>6, <1>7, <1>9, <1>13
  <2>2. t.realized_pnl = Sign(t.side) * (Scale * V - t.entry * (t.qty - t.open_qty))
    BY <1>5, <1>9, <1>13 DEF Accounted
  <2>3. Scale * 0 = 0 /\ t.entry * 0 = 0 /\ u.entry * 0 = 0 /\ Sign(t.side) * 0 = 0
    BY <1>2, <1>6, ScalePos DEF Trades
  <2>4. t.qty - t.open_qty = 0
    BY <1>6, <2>1
  <2> QED BY <1>3, <1>9, <1>12, <2>1, <2>2, <2>3, <2>4
<1>14. /\ u.qty <= m
       /\ u.qty = Quantity(u, Opening(u))
       /\ u.open_qty = u.qty - Quantity(u, Reducing(u))
       /\ u.exit = NoExit => u.open_qty = u.qty
  BY <1>3, <1>6, <1>7, <1>8, <1>9, <1>10, SMTT(30)
<1>15. /\ u.entry * u.qty = Scale * Worth(u, Opening(u))
       /\ u.exit * (u.qty - u.open_qty) = Scale * Worth(u, Reducing(u))
  BY <1>3, <1>7, <1>9, <1>11, <1>12
<1> QED BY <1>1, <1>13, <1>14, <1>15 DEF Accounted

LEMMA ReduceAccounted ==
  ASSUME NEW t \in SoundTrades, NEW e \in Executions, IsOpen(t), Shrinks(t, e),
         NEW n \in Nat, NEW a, Accounted(t, n, a), n <= MaxFills * MaxQty,
         a # "binance" => e.realized = Unset
  PROVE  Accounted(AddExecution(t, e), n, a)
<1>1. PICK u : u = AddExecution(t, e)
  OBVIOUS
<1>2. PICK x : x = Closing(t, e)
  OBVIOUS
<1>3. /\ x \in Executions /\ x.qty <= t.open_qty /\ x.side = e.side
      /\ x.type = e.type /\ x.reduce = e.reduce
  BY <1>2, ClosingType DEF Closing, Executions
<1>3a. PICK v : v = Valued(t, x)
  OBVIOUS
<1>3b. /\ v \in Executions /\ v.qty = x.qty /\ v.price = x.price /\ v.side = x.side
       /\ v.type = x.type /\ v.reduce = x.reduce
       /\ x.realized = Unset => v.realized = CalcPnl(t, x.qty, x.price)
  BY <1>3, <1>3a, ValuedType
<1>4. ~Grows(t, e) /\ Shrinks(t, v) /\ ~Grows(t, v)
  BY <1>3, <1>3b DEF Grows, Shrinks, Moves
<1>5. u \in SoundTrades /\ u \in Trades /\ t \in Trades
  BY <1>1, AddExecutionSound DEF SoundTrades
<1>6. u = Reduce(t, x)
  BY <1>1, <1>2, <1>4 DEF AddExecution
<1>7. /\ u.side = t.side /\ u.qty = t.qty /\ u.open_qty = t.open_qty - x.qty
      /\ u.entry = t.entry
      /\ u.exit = (IF t.exit = NoExit THEN Scale * x.price
                   ELSE WeightedAvg(t.exit, t.qty - t.open_qty, Scale * x.price, x.qty))
      /\ u.realized_pnl = t.realized_pnl + v.realized
      /\ u.executions = Append(t.executions, v)
  BY <1>5, <1>6, <1>3a DEF Reduce, Trades
<1>8. PICK Q, W, R, V : /\ Q = Quantity(t, Opening(t)) /\ W = Worth(t, Opening(t))
                        /\ R = Quantity(t, Reducing(t)) /\ V = Worth(t, Reducing(t))
  OBVIOUS
<1>9. /\ t.qty \in Nat /\ t.qty > 0 /\ t.open_qty \in Nat /\ t.open_qty <= t.qty
      /\ t.entry \in Int /\ t.exit \in Int /\ t.realized_pnl \in Int /\ Sign(t.side) \in Int
      /\ Q \in Nat /\ W \in Nat /\ R \in Nat /\ V \in Nat
  BY <1>8, AccountedNumbers
<1>10. /\ t.qty <= n /\ t.qty = Q /\ t.open_qty = t.qty - R
       /\ t.entry * t.qty = Scale * W /\ t.exit * (t.qty - t.open_qty) = Scale * V
       /\ t.exit = NoExit => t.open_qty = t.qty
  BY <1>8 DEF Accounted
<1>11. x.qty \in Nat /\ x.qty > 0 /\ x.price \in Nat /\ x.price > 0 /\ x.price * x.qty \in Nat
  BY <1>3 DEF Executions, Pos
<1>12. /\ Quantity(u, Opening(u)) = Q /\ Worth(u, Opening(u)) = W
       /\ Quantity(u, Reducing(u)) = R + x.qty /\ Worth(u, Reducing(u)) = V + x.price * x.qty
       /\ ~GrewAfterClosing(u) => ~GrewAfterClosing(t)
  <2>1. /\ u \in Trades /\ t \in Trades /\ v \in Executions
        /\ u.executions = Append(t.executions, v) /\ u.side = t.side
    BY <1>3b, <1>5, <1>7
  <2>2. /\ Quantity(u, Opening(u)) = Quantity(t, Opening(t))
        /\ Worth(u, Opening(u)) = Worth(t, Opening(t))
        /\ Quantity(u, Reducing(u)) = Quantity(t, Reducing(t)) + v.qty
        /\ Worth(u, Reducing(u)) = Worth(t, Reducing(t)) + v.price * v.qty
    BY <1>4, <2>1, Appended
  <2>3. ~GrewAfterClosing(u) => ~GrewAfterClosing(t)
    BY <2>1, Appended
  <2> QED BY <1>3b, <1>8, <2>2, <2>3
<1>13. Scale \in Int /\ Scale > 0
  BY ScalePos
<1>14. u.exit * (t.qty - t.open_qty + x.qty) = Scale * (V + x.price * x.qty)
  <2>1. CASE t.exit = NoExit
    <3>1. t.qty - t.open_qty = 0 /\ 0 = Scale * V
      BY <1>9, <1>10, <2>1 DEF NoExit
    <3>2. V = 0
      BY <1>9, <1>13, <3>1
    <3>3. (Scale * x.price) * x.qty = Scale * (x.price * x.qty)
      BY <1>11, <1>13
    <3> QED BY <1>7, <1>11, <2>1, <3>1, <3>2, <3>3
  <2>2. CASE t.exit # NoExit
    <3>1. t.qty - t.open_qty \in Nat /\ t.qty - t.open_qty + x.qty <= MaxFills * MaxQty
      <4>1. MaxFills * MaxQty \in Int
        BY TradeBookAssumption
      <4> QED BY <1>3, <1>9, <1>10, <1>11, <4>1
    <3> QED BY <1>7, <1>9, <1>10, <1>11, <2>2, <3>1, AverageIsExact, SMTT(30)
  <2> QED BY <2>1, <2>2
<1>15. u.qty - u.open_qty = t.qty - t.open_qty + x.qty
  BY <1>7, <1>9, <1>11
<1>16. u.exit # NoExit
  <2>1. V + x.price * x.qty > 0
    BY <1>9, <1>11
  <2>2. Scale * (V + x.price * x.qty) # 0
    <3>1. PICK N \in Nat : N = V + x.price * x.qty /\ N > 0
      BY <1>9, <1>11, <2>1
    <3>2. Scale * N # 0
      BY <1>13, <3>1
    <3> QED BY <3>1, <3>2
  <2>3. 0 * (t.qty - t.open_qty + x.qty) = 0
    BY <1>9, <1>11
  <2> QED BY <1>14, <2>2, <2>3 DEF NoExit
<1>17. ASSUME a # "binance", ~GrewAfterClosing(u)
       PROVE  u.realized_pnl = Sign(u.side) * (Scale * Worth(u, Reducing(u))
                                                - u.entry * (u.qty - u.open_qty))
  <2>1. t.realized_pnl = Sign(t.side) * (Scale * V - t.entry * (t.qty - t.open_qty))
    BY <1>8, <1>12, <1>17 DEF Accounted
  <2>2. v.realized = Sign(t.side) * (Scale * x.price - t.entry) * x.qty
    <3>1. x.realized = e.realized
      BY <1>2 DEF Closing, Executions
    <3> QED BY <1>3b, <1>17, <3>1 DEF CalcPnl
  <2>3. PICK g, c, d, h, p, q : /\ g = Sign(t.side) /\ c = Scale /\ d = t.qty - t.open_qty
                                /\ h = t.entry /\ p = x.price /\ q = x.qty
    OBVIOUS
  <2>4. /\ g \in Int /\ c \in Int /\ d \in Int /\ h \in Int /\ p \in Int /\ q \in Int /\ V \in Int
    BY <1>9, <1>11, <1>13, <2>3
  <2>5. g * (c * V - h * d) + g * (c * p - h) * q = g * (c * (V + p * q) - h * (d + q))
    BY <2>4
  <2> QED BY <1>7, <1>12, <1>15, <2>1, <2>2, <2>3, <2>5
<1>18. /\ u.qty <= n
       /\ u.qty = Quantity(u, Opening(u))
       /\ u.open_qty = u.qty - Quantity(u, Reducing(u))
  BY <1>7, <1>9, <1>10, <1>11, <1>12
<1>19. /\ u.entry * u.qty = Scale * Worth(u, Opening(u))
       /\ u.exit * (u.qty - u.open_qty) = Scale * Worth(u, Reducing(u))
  BY <1>7, <1>10, <1>12, <1>14, <1>15
<1> QED BY <1>1, <1>16, <1>17, <1>18, <1>19 DEF Accounted

LEMMA OtherAccounted ==
  ASSUME NEW t \in SoundTrades, NEW e \in Executions, IsOpen(t), ~Grows(t, e), ~Shrinks(t, e),
         NEW n \in Nat, NEW a, Accounted(t, n, a), a # "binance" => e.realized = Unset
  PROVE  Accounted(AddExecution(t, e), n, a)
<1>1. PICK u : u = AddExecution(t, e)
  OBVIOUS
<1>2. u \in Trades /\ t \in Trades
  BY <1>1, AddExecutionSound DEF SoundTrades
<1>3. u \in {Attach(t, e), Charge(t, e)}
  BY <1>1 DEF AddExecution
<1>4. /\ u.side = t.side /\ u.qty = t.qty /\ u.open_qty = t.open_qty /\ u.entry = t.entry
      /\ u.exit = t.exit /\ (a # "binance" => u.realized_pnl = t.realized_pnl)
      /\ u.executions = Append(t.executions, e)
  <2>1. CASE u = Attach(t, e)
    BY <1>2, <2>1 DEF Attach, Trades
  <2>2. CASE u = Charge(t, e)
    BY <1>2, <2>2 DEF Charge, Trades
  <2> QED BY <1>3, <2>1, <2>2
<1>5. /\ Quantity(t, Opening(t)) \in Nat /\ Worth(t, Opening(t)) \in Nat
      /\ Quantity(t, Reducing(t)) \in Nat /\ Worth(t, Reducing(t)) \in Nat
  BY AccountedNumbers
<1>6. /\ Quantity(u, Opening(u)) = Quantity(t, Opening(t))
      /\ Worth(u, Opening(u)) = Worth(t, Opening(t))
      /\ Quantity(u, Reducing(u)) = Quantity(t, Reducing(t))
      /\ Worth(u, Reducing(u)) = Worth(t, Reducing(t))
      /\ ~GrewAfterClosing(u) => ~GrewAfterClosing(t)
  <2>1. /\ u \in Trades /\ t \in Trades
        /\ u.executions = Append(t.executions, e) /\ u.side = t.side
    BY <1>2, <1>4
  <2> QED BY <2>1, Appended
<1> QED BY <1>1, <1>4, <1>6 DEF Accounted

\* A larger bound is kept as well.
LEMMA AccountedMore ==
  ASSUME NEW t \in SoundTrades, NEW n \in Nat, NEW m \in Nat, n <= m, NEW a, Accounted(t, n, a)
  PROVE  Accounted(t, m, a)
<1>1. t.qty \in Nat
  BY AccountedNumbers
<1>2. t.qty <= m
  BY <1>1 DEF Accounted
<1> QED BY <1>2 DEF Accounted

\* Every trade is its executions, after one more.
LEMMA AddAccounted ==
  ASSUME NEW t \in SoundTrades, NEW e \in Executions, IsOpen(t), NEW n \in Nat, NEW m \in Nat,
         NEW a, a # "binance" => e.realized = Unset,
         Accounted(t, n, a), n <= m, Moves(e) => n + e.qty <= m, m <= MaxFills * MaxQty
  PROVE  /\ Accounted(AddExecution(t, e), m, a)
         /\ \A x : NewTrade(t, e) = <<x>> => Accounted(x, m, a)
<1>0. e.qty \in Nat /\ e.qty > 0 /\ t.open_qty \in Nat
  BY DEF Executions, Pos, SoundTrades, Trades
<1>1. Accounted(t, m, a)
  BY AccountedMore
<1>2. Accounted(AddExecution(t, e), m, a)
  <2>1. CASE Grows(t, e)
    BY <2>1, GrowAccounted DEF Grows
  <2>2. CASE Shrinks(t, e)
    BY <1>1, <2>2, ReduceAccounted
  <2>3. CASE ~Grows(t, e) /\ ~Shrinks(t, e)
    BY <1>1, <2>3, OtherAccounted
  <2> QED BY <2>1, <2>2, <2>3
<1>3. ASSUME NEW x, NewTrade(t, e) = <<x>>
      PROVE  Accounted(x, m, a)
  <2>1. CASE Shrinks(t, e) /\ e.qty > t.open_qty
    <3>1. PICK r : r = Rest(t, e)
      OBVIOUS
    <3>2. r \in Executions /\ r.qty = e.qty - t.open_qty
      BY <2>1, <3>1, RestType
    <3>3. r.type = e.type
      BY <3>1 DEF Rest, Executions
    <3>4. Moves(e) /\ Moves(r)
      BY <2>1, <3>3 DEF Shrinks, Moves
    <3>5. r.qty <= m
      BY <1>0, <3>2, <3>4
    <3>6. Accounted(FromExecution(r), m, a)
      BY <3>2, <3>4, <3>5, FirstAccounted
    <3>7. NewTrade(t, e) = <<FromExecution(r)>>
      BY <2>1, <3>1 DEF NewTrade
    <3>8. x = FromExecution(r)
      BY <1>3, <3>7
    <3> QED BY <3>6, <3>8
  <2>2. CASE ~(Shrinks(t, e) /\ e.qty > t.open_qty)
    <3>1. NewTrade(t, e) # <<>>
      BY <1>3
    <3>2. Rejects(t, e) /\ NewTrade(t, e) = <<FromExecution(e)>>
      BY <2>2, <3>1 DEF NewTrade
    <3>3. Moves(e)
      BY <3>2 DEF Rejects
    <3>4. e.qty <= m
      BY <1>0, <3>3
    <3>5. Accounted(FromExecution(e), m, a)
      BY <3>3, <3>4, FirstAccounted
    <3>6. x = FromExecution(e)
      BY <1>3, <3>2
    <3> QED BY <3>5, <3>6
  <2> QED BY <2>1, <2>2
<1> QED BY <1>2, <1>3

LEMMA BookAccounted ==
  ASSUME NEW b \in Seq(SoundTrades), NEW e \in Executions, NEW c \in BooksAfter(b, e),
         NEW n \in Nat, NEW m \in Nat, n <= m, m <= MaxFills * MaxQty,
         Moves(e) => n + e.qty <= m, Moves(e) \/ Matching(b, e) # {},
         NEW a, a # "binance" => e.realized = Unset,
         \A i \in DOMAIN b : Accounted(b[i], n, a)
  PROVE  \A i \in DOMAIN c : Accounted(c[i], m, a)
<1>1. PICK l : l = Len(b)
  OBVIOUS
<1>2. c \in Seq(SoundTrades)
  BY BookStep
<1>3. /\ l \in Nat /\ DOMAIN b = 1 .. l /\ DOMAIN c = 1 .. Len(c) /\ Len(c) \in Nat
      /\ \A i \in 1 .. l : b[i] \in SoundTrades
  BY <1>1, <1>2
<1>4. \A i \in 1 .. l : Accounted(b[i], m, a)
  BY <1>3, AccountedMore
<1>5. CASE Matching(b, e) = {} /\ c = Append(b, FromExecution(e))
  <2>1. e.qty \in Nat /\ e.qty <= m
    BY <1>5 DEF Executions, Pos
  <2>2. Accounted(FromExecution(e), m, a)
    BY <1>5, <2>1, FirstAccounted
  <2>3. Len(c) = l + 1 /\ c[l + 1] = FromExecution(e) /\ \A i \in 1 .. l : c[i] = b[i]
    BY <1>1, <1>3, <1>5
  <2>4. \A i \in 1 .. l + 1 : i \in 1 .. l \/ i = l + 1
    BY <1>3
  <2> QED BY <1>3, <1>4, <2>2, <2>3, <2>4
<1>6. ASSUME NEW k \in Matching(b, e), k \in 1 .. l, c[k] = AddExecution(b[k], e),
             \A i \in 1 .. l : i # k => c[i] = b[i],
             \/ NewTrade(b[k], e) = <<>> /\ Len(c) = l
             \/ NewTrade(b[k], e) = <<c[l + 1]>> /\ Len(c) = l + 1
      PROVE  \A i \in DOMAIN c : Accounted(c[i], m, a)
  <2>1. IsOpen(b[k]) /\ b[k] \in SoundTrades /\ Accounted(b[k], n, a)
    BY <1>3, <1>6, MatchingOpen
  <2>2. /\ Accounted(AddExecution(b[k], e), m, a)
        /\ \A x : NewTrade(b[k], e) = <<x>> => Accounted(x, m, a)
    BY <2>1, AddAccounted
  <2>3. \A i \in 1 .. l : Accounted(c[i], m, a)
    BY <1>4, <1>6, <2>2
  <2>4. \A i \in 1 .. l + 1 : i \in 1 .. l \/ i = l + 1
    BY <1>3
  <2>5. Len(c) = l \/ (Len(c) = l + 1 /\ Accounted(c[l + 1], m, a))
    BY <1>6, <2>2
  <2> QED BY <1>3, <2>3, <2>4, <2>5
<1> QED BY <1>1, <1>5, <1>6, BookCases

-----------------------------------------------------------------------------
(* The book and the money.                                                 *)

\* The bound on what the trades took, after so many executions.
Bound(n) == n * MaxQty

MoneyInv ==
  /\ Inv
  /\ \A s \in Symbols : Net(book, s) = position[s]
  /\ Fees(book) = charged
  /\ account = "binance" => Profits(book) = gained
  /\ \A i \in DOMAIN book : Accounted(book[i], Bound(fills), account)

LEMMA BoundGrows ==
  ASSUME NEW n \in Nat, n < MaxFills
  PROVE  /\ Bound(n) \in Nat /\ Bound(n + 1) \in Nat /\ Bound(n + 1) <= MaxFills * MaxQty
         /\ Bound(n) + MaxQty = Bound(n + 1)
<1>1. MaxQty \in Nat /\ MaxFills \in Nat
  BY TradeBookAssumption
<1>2. PICK d \in Nat : MaxFills = n + 1 + d
  BY <1>1
<1>3. n * MaxQty \in Nat /\ (n + 1) * MaxQty = n * MaxQty + MaxQty /\ d * MaxQty \in Nat
  BY <1>1, <1>2
<1>4. MaxFills * MaxQty = (n + 1) * MaxQty + d * MaxQty
  BY <1>1, <1>2
<1> QED BY <1>1, <1>3, <1>4 DEF Bound

LEMMA SumOfEmpty == \A f : SumOf(f, 0) = 0
BY SumOfNothing

LEMMA MoneyInit == Init => MoneyInv
<1> SUFFICES ASSUME Init PROVE MoneyInv
  OBVIOUS
<1>1. Inv
  BY InitInv
<1>2. Len(book) = 0 /\ DOMAIN book = {}
  BY DEF Init
<1>3. \A s : Net(book, s) = 0
  BY <1>2, SumOfEmpty DEF Net
<1>4. Fees(book) = 0 /\ Profits(book) = 0
  BY <1>2, SumOfEmpty DEF Fees, Profits
<1> QED BY <1>1, <1>2, <1>3, <1>4 DEF MoneyInv, Init

\* An execution with a profit reduces the trade it is given to, whichever that is.
ReducesIfReported(e) ==
  e.realized = 0 \/ /\ Matching(book, e) # {}
                    /\ \A k \in Matching(book, e) : Shrinks(book[k], e)

\* The handler, for an execution that opens no trade without moving the position.
LEMMA MoneyStep ==
  ASSUME MoneyInv, NEW e \in Executions, OnExecution(e),
         Moves(e) => e.qty <= MaxQty, Moves(e) \/ Matching(book, e) # {},
         account # "binance" => e.realized = Unset,
         account = "binance" => e.realized \in Int /\ Moves(e) /\ ReducesIfReported(e)
  PROVE  /\ \A s \in Symbols :
              Net(book', s) = position[s]
                                + (IF Moves(e) /\ s = e.symbol THEN EffectiveQty(e) ELSE 0)
         /\ Fees(book') = charged'
         /\ account = "binance" => Profits(book') = gained'
         /\ \A i \in DOMAIN book' : Accounted(book'[i], Bound(fills'), account)
<1>1. /\ book \in Seq(SoundTrades) /\ fills \in Nat /\ fills < MaxFills
      /\ fills' = fills + 1 /\ charged' = charged + e.commission
      /\ book' \in BooksAfter(book, e)
  BY BookIsSound DEF MoneyInv, Inv, TypeOK, OnExecution, Add
<1>2. PICK b, c, k, z : b = book /\ c = book' /\ k = Bound(fills) /\ z = Bound(fills + 1)
  OBVIOUS
<1>3. /\ k \in Nat /\ z \in Nat /\ z <= MaxFills * MaxQty /\ k + MaxQty = z
  BY <1>1, <1>2, BoundGrows
<1>4. /\ b \in Seq(SoundTrades) /\ c \in BooksAfter(b, e)
      /\ Moves(e) \/ Matching(b, e) # {}
  BY <1>1, <1>2
<1>5. ASSUME NEW s \in Symbols
      PROVE  Net(c, s) = position[s]
                           + (IF Moves(e) /\ s = e.symbol THEN EffectiveQty(e) ELSE 0)
  <2>1. Net(b, s) = position[s]
    BY <1>2 DEF MoneyInv
  <2>2. PICK moved : moved = IF Moves(e) /\ s = e.symbol THEN EffectiveQty(e) ELSE 0
    OBVIOUS
  <2>3. Net(c, s) = Net(b, s) + moved
    BY <1>4, <2>2, NetStep
  <2> QED BY <2>1, <2>2, <2>3
<1>6. Fees(c) = charged'
  <2>1. Fees(b) = charged
    BY <1>2 DEF MoneyInv
  <2>2. Fees(c) = Fees(b) + e.commission
    BY <1>4, FeesStep
  <2> QED BY <1>1, <2>1, <2>2
<1>7. \A i \in DOMAIN c : Accounted(c[i], z, account)
  <2>1. \A i \in DOMAIN b : Accounted(b[i], k, account)
    BY <1>2 DEF MoneyInv
  <2>2. e.qty \in Nat /\ MaxQty \in Nat
    BY TradeBookAssumption DEF Executions, Pos
  <2>3. k <= z /\ (Moves(e) => k + e.qty <= z)
    BY <1>3, <2>2
  <2> QED BY <1>3, <1>4, <2>1, <2>3, BookAccounted
<1>8. ASSUME account = "binance" PROVE Profits(c) = gained'
  <2>1. Profits(b) = gained
    BY <1>2, <1>8 DEF MoneyInv
  <2>2. e.realized \in Int /\ e.realized # Unset
    BY <1>8, ScaleAssumption
  <2>3. gained' = gained + e.realized
    BY <2>2 DEF OnExecution
  <2>4. \/ e.realized = 0
        \/ Matching(b, e) # {} /\ \A k1 \in Matching(b, e) : Shrinks(b[k1], e)
    BY <1>2, <1>8 DEF ReducesIfReported
  <2>5. Profits(c) = Profits(b) + e.realized
    BY <1>4, <1>8, <2>2, <2>4, ProfitsStep
  <2> QED BY <2>1, <2>3, <2>5
<1> QED BY <1>1, <1>2, <1>5, <1>6, <1>7, <1>8

\* A figure other than none is reported of an execution against the position, which
\* shows as one open trade.
LEMMA ReportedReduces ==
  ASSUME Inv, account = "binance", NEW e \in Executions, Moves(e), e.reduce, e.tagged,
         e.symbol \in Symbols, e.realized \in Realized(e.symbol, e.side)
  PROVE  ReducesIfReported(e)
<1> SUFFICES ASSUME e.realized # 0
             PROVE  /\ Matching(book, e) # {}
                    /\ \A k \in Matching(book, e) : Shrinks(book[k], e)
  BY DEF ReducesIfReported
<1>1. PICK b, s, p : b = book /\ s = e.symbol /\ p = position[s]
  OBVIOUS
<1>2. b \in Seq(SoundTrades) /\ p \in Int
  BY <1>1, BookIsSound DEF Inv, TypeOK
<1>3. Sign(e.side) * p < 0
  BY <1>1 DEF Realized
<1>4. p # 0
  BY <1>3 DEF Sign
<1>5. Shows(b, s, p)
  BY <1>1, ShowsEverySymbol DEF Inv, ReducingAccountShowsPosition
<1>6. PICK i \in Open(b, s) : Open(b, s) = {i} /\ Exposure(b[i]) = p
  BY <1>4, <1>5 DEF Shows
<1>7. Matching(b, e) = {i}
  BY <1>1, <1>6, MatchingOpen DEF Open
<1>8. b[i] \in SoundTrades
  BY <1>2, <1>6 DEF Open
<1>9. e.side # b[i].side
  <2>1. b[i].side \in Sides /\ b[i].open_qty \in Nat
    BY <1>8 DEF SoundTrades, Trades
  <2>2. p = Sign(b[i].side) * b[i].open_qty
    BY <1>6 DEF Exposure
  <2> QED BY <1>3, <2>1, <2>2 DEF Sign, Sides
<1>10. Shrinks(b[i], e)
  BY <1>9 DEF Shrinks
<1> QED BY <1>1, <1>7, <1>10

LEMMA MoneyFill ==
  ASSUME MoneyInv, NEW s \in Symbols, NEW side \in Sides, NEW qty \in Qtys,
         NEW price \in Prices, Fill(s, side, qty, price)
  PROVE  MoneyInv'
<1>1. PICK reduce \in ReduceFlags(s, side, qty), realized \in Realized(s, side) :
        OnExecution(Execution(s, side, "trade", qty, price, reduce, realized))
  BY DEF Fill
<1>2. PICK e : e = Execution(s, side, "trade", qty, price, reduce, realized)
  OBVIOUS
<1>3. Inv /\ position \in [Symbols -> Int]
  BY DEF MoneyInv, Inv, TypeOK
<1>4. Inv'
  BY <1>3, FillStep
<1>5. /\ reduce \in BOOLEAN /\ qty \in Pos /\ price \in Pos /\ "trade" \in ExecTypes
      /\ qty <= MaxQty /\ realized \in Int \cup {Unset}
      /\ account = "binance" => realized \in Int
      /\ account # "binance" => realized = Unset
      /\ account = "binance" => reduce
  BY QuantitiesPos, TradeBookAssumption, RealizedType DEF ReduceFlags, ExecTypes
<1>6. e \in Executions
  BY <1>2, <1>5, ExecutionType
<1>7. /\ e.symbol = s /\ Moves(e) /\ e.qty = qty /\ EffectiveQty(e) = Sign(side) * qty
      /\ e.side = side /\ e.realized = realized /\ e.reduce = reduce
      /\ e.tagged = (account # "stream")
  BY <1>2 DEF Execution, Moves, EffectiveQty
<1>7a. ASSUME account = "binance"
       PROVE  e.realized \in Int /\ Moves(e) /\ ReducesIfReported(e)
  <2>1. e.reduce /\ e.tagged /\ e.realized \in Int /\ e.realized \in Realized(e.symbol, e.side)
    BY <1>1, <1>5, <1>7, <1>7a
  <2> QED BY <1>3, <1>6, <1>7, <1>7a, <2>1, ReportedReduces
<1>8. /\ \A z \in Symbols :
           Net(book', z) = position[z]
                             + (IF Moves(e) /\ z = e.symbol THEN EffectiveQty(e) ELSE 0)
      /\ Fees(book') = charged'
      /\ account = "binance" => Profits(book') = gained'
      /\ \A i \in DOMAIN book' : Accounted(book'[i], Bound(fills'), account)
  BY <1>1, <1>2, <1>5, <1>6, <1>7, <1>7a, MoneyStep
<1>9. /\ position' = [position EXCEPT ![s] = @ + Sign(side) * qty]
      /\ account' = account
  BY DEF Fill
<1>10. ASSUME NEW z \in Symbols
       PROVE  Net(book', z) = position'[z]
  <2>1. CASE z = s
    <3>1. Net(book', z) = position[z] + Sign(side) * qty
      BY <1>7, <1>8, <2>1
    <3>2. position'[z] = position[z] + Sign(side) * qty
      BY <1>3, <1>9, <2>1
    <3> QED BY <3>1, <3>2
  <2>2. CASE z # s
    <3>1. Net(book', z) = position[z] + 0
      BY <1>7, <1>8, <2>2
    <3>2. position'[z] = position[z] /\ position[z] \in Int
      BY <1>3, <1>9, <2>2
    <3> QED BY <3>1, <3>2
  <2> QED BY <2>1, <2>2
<1> QED BY <1>4, <1>8, <1>9, <1>10 DEF MoneyInv

\* A fee is charged on a position, which some open trade shows.
LEMMA MoneyFunding ==
  ASSUME MoneyInv, NEW s \in Symbols, NEW side \in Sides, NEW price \in Prices,
         Funding(s, side, price)
  PROVE  MoneyInv'
<1>1. PICK q : q = Sign(side) * position[s]
  OBVIOUS
<1>2. PICK e : e = Execution(s, side, "funding", q, price, FALSE, Unset)
  OBVIOUS
<1>3. /\ Inv /\ position \in [Symbols -> Int] /\ book \in Seq(SoundTrades)
  BY BookIsSound DEF MoneyInv, Inv, TypeOK
<1>4. Inv'
  BY <1>3, FundingStep
<1>5. q \in Pos /\ price \in Pos /\ "funding" \in ExecTypes
  <2>1. q \in Int
    BY <1>1, <1>3 DEF Sign
  <2>2. q > 0
    BY <1>1 DEF Funding
  <2> QED BY <2>1, <2>2, TradeBookAssumption DEF Pos, ExecTypes
<1>6. e \in Executions
  BY <1>2, <1>5, ExecutionType
<1>7. /\ OnExecution(e) /\ account = "bybit" /\ position[s] # 0
      /\ position' = position /\ account' = account
  BY <1>1, <1>2 DEF Funding
<1>8. ~Moves(e) /\ e.symbol = s /\ e.tagged /\ e.realized = Unset
  BY <1>2, <1>7 DEF Execution, Moves
<1>9. Net(book, s) # 0
  BY <1>7 DEF MoneyInv
<1>10. Matching(book, e) # {}
  <2>1. PICK b : b = book
    OBVIOUS
  <2>2. PICK i \in DOMAIN b : b[i].symbol = s /\ IsOpen(b[i])
    BY <1>3, <1>9, <2>1, ShownIsOpen
  <2> QED BY <1>6, <1>8, <2>1, <2>2, MatchingOpen
<1>11. /\ \A z \in Symbols :
            Net(book', z) = position[z]
                              + (IF Moves(e) /\ z = e.symbol THEN EffectiveQty(e) ELSE 0)
       /\ Fees(book') = charged'
       /\ account = "binance" => Profits(book') = gained'
       /\ \A i \in DOMAIN book' : Accounted(book'[i], Bound(fills'), account)
  BY <1>6, <1>7, <1>8, <1>10, MoneyStep
<1>12. ASSUME NEW z \in Symbols
       PROVE  Net(book', z) = position'[z]
  <2>1. Net(book', z) = position[z] + 0
    BY <1>8, <1>11
  <2>2. position'[z] = position[z] /\ position[z] \in Int
    BY <1>3, <1>7
  <2> QED BY <2>1, <2>2
<1> QED BY <1>4, <1>7, <1>11, <1>12 DEF MoneyInv

\* A clearance leaves all of it alone, but that one delivery more is counted.
LEMMA MoneyClear ==
  ASSUME MoneyInv, NEW s \in Symbols, Clear(s)
  PROVE  MoneyInv'
<1>1. /\ Inv' /\ book' = book /\ fills < MaxFills /\ fills' = fills + 1
      /\ UNCHANGED <<account, position, charged, gained>>
  BY ClearStep DEF MoneyInv
<1>2. PICK b, k, z : b = book /\ k = Bound(fills) /\ z = Bound(fills + 1)
  OBVIOUS
<1>3. fills \in Nat /\ b \in Seq(SoundTrades)
  BY <1>2, BookIsSound DEF MoneyInv, Inv, TypeOK
<1>4. k \in Nat /\ z \in Nat /\ k <= z
  <2>1. k \in Nat /\ z \in Nat /\ k + MaxQty = z
    BY <1>1, <1>2, <1>3, BoundGrows
  <2> QED BY <2>1, TradeBookAssumption
<1>5. \A i \in DOMAIN b : Accounted(b[i], k, account)
  BY <1>2 DEF MoneyInv
<1>6. \A i \in DOMAIN b : Accounted(b[i], z, account)
  BY <1>3, <1>4, <1>5, AccountedMore
<1> QED BY <1>1, <1>2, <1>6 DEF MoneyInv

LEMMA MoneyNext == MoneyInv /\ [Next]_vars => MoneyInv'
<1>1. ASSUME MoneyInv, Next PROVE MoneyInv'
  BY <1>1, MoneyFill, MoneyFunding, MoneyClear DEF Next
<1>2. ASSUME MoneyInv, UNCHANGED vars PROVE MoneyInv'
  <2>1. Inv'
    BY <1>2, InvStep DEF MoneyInv
  <2>2. /\ book' = book /\ position' = position /\ charged' = charged /\ fills' = fills
        /\ gained' = gained /\ account' = account
    BY <1>2 DEF vars
  <2> QED BY <1>2, <2>1, <2>2 DEF MoneyInv
<1> QED BY <1>1, <1>2

\* What the invariant says of the properties.
LEMMA MoneyShows == MoneyInv => NetExposureIsPosition /\ MoneyAddsUp
<1> SUFFICES ASSUME MoneyInv PROVE NetExposureIsPosition /\ MoneyAddsUp
  OBVIOUS
<1>1. book \in Seq(SoundTrades) /\ \A i \in DOMAIN book : book[i] \in SoundTrades
  BY BookIsSound DEF MoneyInv, Inv
<1>2. NetExposureIsPosition
  <2> SUFFICES ASSUME NEW s \in Symbols
               PROVE  SumOf([i \in DOMAIN book |->
                               IF i \in OpenTrades(s) THEN Exposure(book[i]) ELSE 0],
                            Len(book)) = position[s]
    BY DEF NetExposureIsPosition
  <2>1. [i \in DOMAIN book |-> IF i \in OpenTrades(s) THEN Exposure(book[i]) ELSE 0]
          = [i \in DOMAIN book |->
               IF book[i].symbol = s /\ IsOpen(book[i]) THEN Exposure(book[i]) ELSE 0]
    BY DEF OpenTrades
  <2>2. Net(book, s) = position[s]
    BY DEF MoneyInv
  <2> QED BY <2>1, <2>2 DEF Net
<1>3. FeesConserved
  BY DEF MoneyInv, Fees, FeesConserved
<1>4. TradeIsItsExecutions
  BY DEF MoneyInv, Accounted, TradeIsItsExecutions
<1>6. ProfitsConserved
  BY DEF MoneyInv, Profits, ProfitsConserved
<1>5. PnlIsCashFlow
  <2> SUFFICES ASSUME account # "binance", NEW i \in DOMAIN book, NEW t, t = book[i], ~IsOpen(t), ~GrewAfterClosing(t)
               PROVE  t.realized_pnl = Sign(t.side) * Scale
                                         * (Worth(t, Reducing(t)) - Worth(t, Opening(t)))
    BY DEF PnlIsCashFlow
  <2>1. t \in SoundTrades /\ Accounted(t, Bound(fills), account)
    BY <1>1 DEF MoneyInv
  <2>2. PICK O, R, a, v, q : /\ O = Worth(t, Opening(t)) /\ R = Worth(t, Reducing(t))
                             /\ a = Sign(t.side) /\ v = t.entry /\ q = t.qty
    OBVIOUS
  <2>3. /\ O \in Int /\ R \in Int /\ a \in Int /\ v \in Int /\ q \in Int
        /\ t.open_qty \in Nat
    BY <2>1, <2>2, AccountedNumbers
  <2>4. t.open_qty = 0
    BY <2>3 DEF IsOpen
  <2>5. v * q = Scale * O /\ t.realized_pnl = a * (Scale * R - v * (q - t.open_qty))
    BY <2>1, <2>2 DEF Accounted
  <2>6. q - t.open_qty = q
    BY <2>3, <2>4
  <2>7. t.realized_pnl = a * (Scale * R - Scale * O)
    BY <2>5, <2>6
  <2>8. a * (Scale * R - Scale * O) = a * Scale * (R - O)
    BY <2>3, ScalePos
  <2> QED BY <2>2, <2>7, <2>8
<1> QED BY <1>2, <1>3, <1>4, <1>5, <1>6 DEF MoneyAddsUp

LEMMA MoneyIsKept == Spec => []MoneyInv
BY MoneyInit, MoneyNext, PTL DEF Spec

\* However the executions are flagged, and over however many trades they were divided,
\* the open trades of a symbol add up to the position the exchange holds: no execution
\* that Worker._on_execution is given is lost or counted twice.
THEOREM NetExposure == Spec => []NetExposureIsPosition
BY MoneyShows, MoneyIsKept, PTL

\* What a trade shows is what its executions paid: the fees are those the exchange took,
\* quantities, entry and exit are those of its executions, and the profit of a closed
\* trade is what they paid out.
THEOREM MoneyConserved == Spec => []MoneyAddsUp
BY MoneyShows, MoneyIsKept, PTL
=============================================================================
