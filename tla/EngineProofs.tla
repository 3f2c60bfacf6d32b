---------------------------- MODULE EngineProofs ----------------------------
(* The safety properties of the engine, for any symbols, schedule, splits,  *)
(* strategy and market: an inductive invariant in five parts.               *)
EXTENDS Engine, FiniteSetTheorems, TLAPS

\* Which sets of orders are in use, and of what kind they are.
OrderInv ==
    /\ phase # "fill" => queue = {}
    /\ phase \notin {"preopen", "fill"} => nextOpen = {}
    /\ \A o \in deferred : o.side = "BUY"
    /\ \A o \in nextOpen : o.side = "SELL" /\ o.exit

\* A buy that waits has a slot.
Slots == Held \cup SymbolsOf(Buys(pending \cup queue))
SlotInv == Cardinality(Slots) <= maxPositions

\* Who is held is a member or on its way out, and only members are bought.
MemberInv ==
    /\ SymbolsOf(Buys(pending \cup queue)) \cup SymbolsOf(deferred) \subseteq members
    /\ unresolved \cap members = {}
    /\ Held \ members \subseteq unresolved

\* Sells of s that wait for an open.
SalesOf(s) == {o \in Sells(pending \cup queue \cup nextOpen) : o.symbol = s}

ExitInv ==
    /\ \A s \in Held \ members :
         /\ \E o \in SalesOf(s) : o.exit /\ o.quantity = position[s] /\ SalesOf(s) = {o}
         /\ s \notin SymbolsOf(Sells(queue)) \cap SymbolsOf(Sells(pending))
    /\ SymbolsOf(nextOpen) \subseteq Held \ members
    /\ SymbolsOf(nextOpen) \cap SymbolsOf(Sells(pending \cup queue)) = {}
    /\ nextOpen # {} => awaiting
    /\ untried \subseteq unresolved
    /\ untried # {} => awaiting

\* Buys wait for an exit that was not tried yet, and for nothing else.
WaitInv ==
    /\ phase \in {"postopen", "decide", "close"} /\ awaiting => untried # {}
    /\ phase = "closed" /\ bars # {} /\ awaiting => untried # {}
    /\ phase = "closed" /\ bars # {} /\ deferred # {} => awaiting

\* A buy that is pending after an open was promoted or asked for today, or its
\* symbol does not trade.
BuyInv ==
    /\ OneBuyPerSymbol
    /\ phase = "fill" => SymbolsOf(Buys(pending)) \cap bars = {}
    /\ phase \in {"postopen", "decide"} =>
         SymbolsOf(Buys(pending)) \cap bars \subseteq promoted \cup asked
    /\ phase = "decide" /\ ~ awaiting /\ ~ rebalance => deferred = {}

IInv ==
    /\ TypeOK /\ OrderInv /\ RetiredAreGone /\ SlotInv
    /\ MemberInv /\ ExitInv /\ WaitInv /\ BuyInv

-----------------------------------------------------------------------------
\* Operators.

LEMMA ScaledIsNat ==
    ASSUME NEW q \in Nat, NEW s \in Symbols, day \in Nat
    PROVE  Scaled(q, s) \in Nat /\ (q = 0 => Scaled(q, s) = 0)
  <1>1. Split[s].times \in Nat /\ Split[s].by \in Nat \ {0}
    BY EngineAssumption
  <1>2. q * Split[s].times \in Nat /\ (q = 0 => q * Split[s].times = 0)
    BY <1>1
  <1>3. \A m \in Nat, n \in Nat \ {0} : m \div n \in Nat /\ (m = 0 => m \div n = 0)
    OBVIOUS
  <1> QED BY <1>1, <1>2, <1>3 DEF Scaled

\* What scaling keeps of an order: everything but the quantity.
LEMMA ScaledOrdersAreOrders ==
    ASSUME NEW orders \in SUBSET Orders, day \in Nat
    PROVE  /\ ScaledOrders(orders) \subseteq Orders
           /\ \A o \in ScaledOrders(orders) : \E x \in orders :
                o = [x EXCEPT !.quantity = Scaled(x.quantity, x.symbol)]
           /\ \A x \in orders : Scaled(x.quantity, x.symbol) > 0 =>
                [x EXCEPT !.quantity = Scaled(x.quantity, x.symbol)] \in ScaledOrders(orders)
  <1>1. ASSUME NEW o \in ScaledOrders(orders)
        PROVE  \E x \in orders : o = [x EXCEPT !.quantity = Scaled(x.quantity, x.symbol)]
    BY DEF ScaledOrders
  <1>2. ASSUME NEW o \in ScaledOrders(orders) PROVE o \in Orders
    <2>1. PICK x \in orders : o = [x EXCEPT !.quantity = Scaled(x.quantity, x.symbol)]
      BY <1>1
    <2>2. x \in Orders /\ x.quantity \in Nat /\ x.symbol \in Symbols
      BY DEF Orders
    <2>3. Scaled(x.quantity, x.symbol) \in Nat
      BY <2>2, ScaledIsNat
    <2>4. o.quantity > 0 /\ o.quantity = Scaled(x.quantity, x.symbol)
      BY <2>1, <2>2 DEF ScaledOrders, Orders
    <2> QED BY <2>1, <2>2, <2>3, <2>4 DEF Orders
  <1>3. ASSUME NEW x \in orders, Scaled(x.quantity, x.symbol) > 0
        PROVE  [x EXCEPT !.quantity = Scaled(x.quantity, x.symbol)] \in ScaledOrders(orders)
    BY <1>3 DEF ScaledOrders, Orders
  <1> QED BY <1>1, <1>2, <1>3

\* Every case of Next, for the proofs by cases below.
LEMMA Steps ==
    ASSUME [Next]_vars
    PROVE  \/ \E D, B \in SUBSET Symbols : StartDay(D, B)
           \/ ApplyCorporateActions
           \/ \E M \in SUBSET Symbols : Rebalance(M)
           \/ \E o \in deferred : PromoteDeferredBuy(o)
           \/ Open
           \/ \E o \in queue : Waits(o)
           \/ \E o \in queue : \E q \in 0..o.quantity : FillBuy(o, q)
           \/ \E o \in queue : \E q \in 0..o.quantity : FillSell(o, q)
           \/ EndOpen
           \/ \E s \in Symbols : AskToBuy(s)
           \/ \E s \in Symbols : \E q \in 1..position[s], exit \in BOOLEAN : AskToSell(s, q, exit)
           \/ EndDecision
           \/ EndDay
           \/ NoRebalance \/ Decide \/ Cancel \/ PricesMissing \/ UNCHANGED vars
  BY DEF Next

\* What a rebalance does, order by order.
Leaving(M) == Held \ M
ExitOf(s) == Order(s, "SELL", position[s], TRUE)

RebalanceEffect(M) ==
    /\ phase = "rebalance" /\ phase' = "preopen"
    /\ rebalance' = TRUE /\ members' = M /\ activated' = day
    /\ UNCHANGED <<calendar, holdings, queue, bar>>
    /\ unresolved' = (unresolved \ M) \cup Leaving(M)
    /\ untried' = (untried \ (unresolved \cap M)) \cup (Leaving(M) \ unresolved)
    /\ awaiting' = (awaiting \/ Leaving(M) \ unresolved # {})
    /\ \A o \in pending' :
         \/ o \in Sells(pending) /\ o.symbol \notin Leaving(M)
         \/ o \in Buys(pending) /\ o.symbol \in M
         \/ /\ o.symbol \in Leaving(M) /\ o = ExitOf(o.symbol)
            /\ o.symbol \in SymbolsOf(Sells(pending))
    /\ \A o \in nextOpen' :
         /\ o.symbol \in Leaving(M) /\ o = ExitOf(o.symbol)
         /\ o.symbol \notin SymbolsOf(Sells(pending))
    /\ \A s \in Leaving(M) : ExitOf(s) \in pending' \cup nextOpen'
    /\ \A o \in deferred' : o.symbol \in M /\ (o \in deferred \/ o \in Buys(pending))

LEMMA Rebalanced ==
    ASSUME NEW M \in SUBSET Symbols, Rebalance(M) PROVE RebalanceEffect(M)
  <1> DEFINE kept == {o \in pending : ~ (o.symbol \in unresolved \cap M /\ o.exit)}
             eligible == SymbolsOf(Sells(kept))
             selling == {o \in Sells(kept) : o.symbol \notin Leaving(M)}
                          \cup {ExitOf(s) : s \in Leaving(M) \cap eligible}
             buying == {o \in Buys(kept) : o.symbol \in M}
             waiting == {o \in deferred : o.symbol \in M}
  <1>1. \A s : ExitOf(s).symbol = s
    BY DEF Order, ExitOf
  <1>2. \A s \in Leaving(M) : s \in eligible <=> s \in SymbolsOf(Sells(pending))
    BY DEF SymbolsOf, Sells, Leaving
  <1>3. /\ phase = "rebalance" /\ phase' = "preopen"
        /\ rebalance' = TRUE /\ members' = M /\ activated' = day
        /\ nextOpen' = {ExitOf(s) : s \in Leaving(M) \ eligible}
        /\ unresolved' = (unresolved \ (unresolved \cap M)) \cup Leaving(M)
        /\ awaiting' = (awaiting \/ Leaving(M) \ unresolved # {})
        /\ untried' = (untried \ (unresolved \cap M)) \cup (Leaving(M) \ unresolved)
        /\ pending' = IF awaiting' THEN selling ELSE selling \cup buying
        /\ deferred' = IF awaiting' THEN Without(waiting, SymbolsOf(buying)) \cup buying
                                    ELSE waiting
        /\ UNCHANGED <<calendar, holdings, queue, bar>>
    BY DEF Rebalance, Leaving, ExitOf
  <1>4. ASSUME NEW o \in pending'
        PROVE  \/ o \in Sells(pending) /\ o.symbol \notin Leaving(M)
               \/ o \in Buys(pending) /\ o.symbol \in M
               \/ /\ o.symbol \in Leaving(M) /\ o = ExitOf(o.symbol)
                  /\ o.symbol \in SymbolsOf(Sells(pending))
    <2>1. o \in selling \cup buying
      BY <1>3
    <2>2. o \in Buys(kept) => o \in Buys(pending)
      BY DEF Buys
    <2>3. o \in Sells(kept) => o \in Sells(pending)
      BY DEF Sells
    <2> QED BY <1>1, <1>2, <2>1, <2>2, <2>3
  <1>5. ASSUME NEW o \in nextOpen'
        PROVE  /\ o.symbol \in Leaving(M) /\ o = ExitOf(o.symbol)
               /\ o.symbol \notin SymbolsOf(Sells(pending))
    BY <1>1, <1>2, <1>3
  <1>6. ASSUME NEW s \in Leaving(M) PROVE ExitOf(s) \in pending' \cup nextOpen'
    BY <1>3
  <1>7. ASSUME NEW o \in deferred' PROVE o.symbol \in M /\ (o \in deferred \/ o \in Buys(pending))
    BY <1>3 DEF Without, Buys
  <1> QED BY <1>3, <1>4, <1>5, <1>6, <1>7 DEF RebalanceEffect

LEMMA TypeStep == ASSUME TypeOK, OrderInv, [Next]_vars PROVE TypeOK'
  <1> USE DEF TypeOK, calendar, schedule, holdings, exits, bar
  <1>0. \A s \in Symbols : position[s] \in Nat
    OBVIOUS
  <1>1. ASSUME NEW D \in SUBSET Symbols, NEW B \in SUBSET Symbols, StartDay(D, B) PROVE TypeOK'
    BY <1>1, EngineAssumption DEF StartDay, Without
  <1>2. CASE ApplyCorporateActions
    <2>1. day \in Nat
      BY EngineAssumption
    <2>2. position' \in [Symbols -> Nat]
      BY <1>2, <2>1, <1>0, ScaledIsNat DEF ApplyCorporateActions
    <2>3. pending' \subseteq Orders /\ deferred' \subseteq Orders
      BY <1>2, <2>1, ScaledOrdersAreOrders DEF ApplyCorporateActions
    <2> QED BY <1>2, <2>2, <2>3 DEF ApplyCorporateActions
  <1>3. ASSUME NEW M \in SUBSET Symbols, Rebalance(M) PROVE TypeOK'
    <2>1. RebalanceEffect(M)
      BY <1>3, Rebalanced
    <2>2. \A s \in Held : ExitOf(s) \in Orders
      BY EngineAssumption DEF Order, Orders, Held, ExitOf
    <2>3. /\ nextOpen' \subseteq Orders /\ pending' \subseteq Orders /\ deferred' \subseteq Orders
      BY <2>1, <2>2 DEF Buys, Sells, RebalanceEffect, Leaving
    <2>4. unresolved' \subseteq Symbols /\ untried' \subseteq Symbols /\ awaiting' \in BOOLEAN
      BY <2>1 DEF Held, RebalanceEffect, Leaving
    <2>5. members' \subseteq Symbols /\ activated' \in 0..LastDay /\ rebalance' \in BOOLEAN /\ phase' = "preopen"
      BY <2>1 DEF RebalanceEffect
    <2>6. UNCHANGED <<day, bars, retired, ready, maxPositions, position, basis, queue, promoted, dry, asked>>
      BY <2>1 DEF RebalanceEffect
    <2> QED BY <2>3, <2>4, <2>5, <2>6
  <1>4. ASSUME NEW o \in deferred, PromoteDeferredBuy(o) PROVE TypeOK'
    BY <1>4 DEF PromoteDeferredBuy, Orders
  <1>5. CASE Open
    BY <1>5 DEF Open
  <1>6. ASSUME NEW o \in queue, Waits(o) PROVE TypeOK'
    BY <1>6 DEF Waits, Deferred, Without
  <1>7. ASSUME NEW o \in queue, NEW q \in 0..o.quantity, FillBuy(o, q) PROVE TypeOK'
    BY <1>7 DEF FillBuy, Orders
  <1>8. ASSUME NEW o \in queue, NEW q \in 0..o.quantity, FillSell(o, q) PROVE TypeOK'
    <2>1. o \in Orders /\ o.symbol \in Symbols /\ o.quantity \in Nat /\ position[o.symbol] \in Nat
      BY DEF Orders
    <2>2. q <= position[o.symbol] /\ q <= o.quantity /\ q \in Nat
      BY <1>8, <2>1 DEF FillSell, Smaller
    <2>3. position' \in [Symbols -> Nat]
      BY <1>8, <2>1, <2>2 DEF FillSell
    <2>4. pending' \subseteq Orders
      BY <1>8, <2>1, <2>2 DEF FillSell, Orders, Smaller
    <2> QED BY <1>8, <2>1, <2>3, <2>4 DEF FillSell
  <1>9. CASE EndOpen
    BY <1>9 DEF EndOpen, SymbolsOf, Orders
  <1>10. ASSUME NEW s \in Symbols, AskToBuy(s) PROVE TypeOK'
    <2>1. Order(s, "BUY", Lot, FALSE) \in Orders
      BY EngineAssumption DEF Order, Orders
    <2> QED BY <1>10, <2>1 DEF AskToBuy, Deferred, Without, Buys
  <1>11. ASSUME NEW s \in Symbols, NEW q \in 1..position[s], NEW exit \in BOOLEAN, AskToSell(s, q, exit)
         PROVE TypeOK'
    <2>1. Order(s, "SELL", q, exit) \in Orders
      BY <1>0, EngineAssumption DEF Order, Orders
    <2> QED BY <1>11, <2>1 DEF AskToSell
  <1>12. CASE EndDecision \/ EndDay
    BY <1>12 DEF EndDecision, EndDay
  <1>13. CASE NoRebalance \/ Decide \/ Cancel \/ PricesMissing \/ UNCHANGED vars
    BY <1>13 DEF NoRebalance, Decide, Cancel, PricesMissing, vars
  <1> QED BY <1>1, <1>2, <1>3, <1>4, <1>5, <1>6, <1>7, <1>8, <1>9, <1>10, <1>11, <1>12, <1>13, Steps

LEMMA OrderStep == ASSUME TypeOK, OrderInv, [Next]_vars PROVE OrderInv'
  <1> USE DEF TypeOK, OrderInv, calendar, schedule, holdings, exits, bar
  <1>1. ASSUME NEW D \in SUBSET Symbols, NEW B \in SUBSET Symbols, StartDay(D, B) PROVE OrderInv'
    BY <1>1 DEF StartDay, Without
  <1>2. CASE ApplyCorporateActions
    <2>1. \A o \in deferred' : o.side = "BUY"
      <3> SUFFICES ASSUME NEW o \in deferred' PROVE o.side = "BUY"
        OBVIOUS
      <3>1. PICK x \in deferred : o = [x EXCEPT !.quantity = Scaled(x.quantity, x.symbol)]
        BY <1>2, EngineAssumption, ScaledOrdersAreOrders DEF ApplyCorporateActions
      <3> QED BY <3>1 DEF Orders
    <2> QED BY <1>2, <2>1 DEF ApplyCorporateActions
  <1>3. ASSUME NEW M \in SUBSET Symbols, Rebalance(M) PROVE OrderInv'
    <2>1. RebalanceEffect(M)
      BY <1>3, Rebalanced
    <2>2. \A s : ExitOf(s).side = "SELL" /\ ExitOf(s).exit
      BY DEF ExitOf, Order
    <2> QED BY <2>1, <2>2 DEF RebalanceEffect, Buys
  <1>4. ASSUME NEW o \in deferred, PromoteDeferredBuy(o) PROVE OrderInv'
    BY <1>4 DEF PromoteDeferredBuy
  <1>5. CASE Open
    BY <1>5 DEF Open
  <1>6. ASSUME NEW o \in queue, Waits(o) PROVE OrderInv'
    BY <1>6 DEF Waits, Deferred, Without
  <1>7. ASSUME NEW o \in queue, NEW q \in 0..o.quantity, FillBuy(o, q) \/ FillSell(o, q) PROVE OrderInv'
    BY <1>7 DEF FillBuy, FillSell
  <1>8. CASE EndOpen
    BY <1>8 DEF EndOpen
  <1>9. ASSUME NEW s \in Symbols, AskToBuy(s) PROVE OrderInv'
    BY <1>9 DEF AskToBuy, Deferred, Without, Order
  <1>10. ASSUME NEW s \in Symbols, NEW q \in 1..position[s], NEW exit \in BOOLEAN, AskToSell(s, q, exit)
         PROVE OrderInv'
    BY <1>10 DEF AskToSell
  <1>11. CASE EndDecision \/ EndDay \/ NoRebalance \/ Decide \/ Cancel \/ PricesMissing \/ UNCHANGED vars
    BY <1>11 DEF EndDecision, EndDay, NoRebalance, Decide, Cancel, PricesMissing, vars
  <1> QED BY <1>1, <1>2, <1>3, <1>4, <1>5, <1>6, <1>7, <1>8, <1>9, <1>10, <1>11, Steps

\* Nothing is held of a symbol after its scaling that was not held before.
LEMMA ScaledHeld ==
    ASSUME TypeOK, ApplyCorporateActions
    PROVE  /\ Held' \subseteq Held
           /\ \A s \in Symbols : position'[s] = Scaled(position[s], s)
  <1>1. \A s \in Symbols : position'[s] = Scaled(position[s], s)
    BY DEF ApplyCorporateActions
  <1>2. ASSUME NEW s \in Symbols, position[s] = 0 PROVE Scaled(position[s], s) = 0
    BY <1>2, ScaledIsNat, EngineAssumption DEF TypeOK
  <1>3. \A s \in Symbols : position[s] \in Nat
    BY DEF TypeOK
  <1> QED BY <1>1, <1>2, <1>3 DEF Held

\* Scaled orders are for symbols, and on the side, of orders that were there.
LEMMA ScaledKind ==
    ASSUME NEW orders \in SUBSET Orders, day \in Nat, NEW o \in ScaledOrders(orders)
    PROVE  \E x \in orders : /\ o.symbol = x.symbol /\ o.side = x.side /\ o.exit = x.exit
                             /\ o.quantity = Scaled(x.quantity, x.symbol)
  <1>1. PICK x \in orders : o = [x EXCEPT !.quantity = Scaled(x.quantity, x.symbol)]
    BY ScaledOrdersAreOrders
  <1> QED BY <1>1 DEF Orders

LEMMA RetiredStep == ASSUME TypeOK, OrderInv, RetiredAreGone, [Next]_vars PROVE RetiredAreGone'
  <1> DEFINE Gone(s) == /\ s \notin Held /\ s \notin unresolved
                        /\ \A o \in pending \cup queue \cup nextOpen \cup deferred : o.symbol # s
  <1>0. /\ RetiredAreGone <=> \A s \in retired : Gone(s)
        /\ RetiredAreGone' <=> \A s \in retired' : Gone(s)'
    BY DEF RetiredAreGone, SymbolsOf
  <1> SUFFICES ASSUME NEW s \in retired' PROVE Gone(s)'
    BY <1>0
  <1>a. s \in retired => Gone(s)
    BY <1>0
  <1>b. \A t \in Symbols : position[t] \in Nat
    BY DEF TypeOK
  <1> USE DEF TypeOK, OrderInv, calendar, schedule, holdings, exits, bar
  <1>1. ASSUME NEW D \in SUBSET Symbols, NEW B \in SUBSET Symbols, StartDay(D, B) PROVE Gone(s)'
    <2>1. s \notin Held'
      BY <1>1, <1>a DEF StartDay, Held
    <2>2. queue' = {} /\ nextOpen' = {}
      BY <1>1 DEF StartDay
    <2> QED BY <1>1, <1>a, <2>1, <2>2 DEF StartDay, Without
  <1>2. CASE ApplyCorporateActions
    <2>1. s \in retired /\ day \in Nat
      BY <1>2, EngineAssumption DEF ApplyCorporateActions
    <2>2. s \notin Held'
      BY <1>2, <1>a, <2>1, ScaledHeld
    <2>3. \A o \in pending' \cup deferred' : o.symbol # s
      BY <1>2, <1>a, <2>1, ScaledKind DEF ApplyCorporateActions
    <2> QED BY <1>2, <1>a, <2>1, <2>2, <2>3 DEF ApplyCorporateActions
  <1>3. ASSUME NEW M \in SUBSET Symbols, Rebalance(M) PROVE Gone(s)'
    <2>1. RebalanceEffect(M)
      BY <1>3, Rebalanced
    <2>2. s \in retired /\ Held' = Held
      BY <2>1 DEF RebalanceEffect, Held
    <2>3. \A o \in pending' \cup nextOpen' \cup deferred' : o.symbol # s
      BY <1>a, <2>1, <2>2 DEF RebalanceEffect, Leaving, Sells, Buys
    <2> QED BY <1>a, <2>1, <2>2, <2>3 DEF RebalanceEffect, Leaving
  <1>4. ASSUME NEW o \in deferred, PromoteDeferredBuy(o) PROVE Gone(s)'
    BY <1>4, <1>a DEF PromoteDeferredBuy, Held
  <1>5. CASE Open
    BY <1>5, <1>a DEF Open, Held
  <1>6. ASSUME NEW o \in queue, Waits(o) PROVE Gone(s)'
    BY <1>6, <1>a DEF Waits, Deferred, Without, Held
  <1>7. ASSUME NEW o \in queue, NEW q \in 0..o.quantity, FillBuy(o, q) PROVE Gone(s)'
    <2>1. s \in retired /\ o.symbol # s
      BY <1>7, <1>a DEF FillBuy
    <2>2. s \notin Held'
      BY <1>7, <1>a, <2>1 DEF FillBuy, Held
    <2> QED BY <1>7, <1>a, <2>1, <2>2 DEF FillBuy
  <1>8. ASSUME NEW o \in queue, NEW q \in 0..o.quantity, FillSell(o, q) PROVE Gone(s)'
    <2>1. s \in retired /\ o.symbol # s
      BY <1>8, <1>a DEF FillSell
    <2>2. s \notin Held'
      BY <1>8, <1>a, <2>1 DEF FillSell, Held
    <2>3. \A x \in pending' : x.symbol # s
      BY <1>8, <1>a, <2>1 DEF FillSell, Orders
    <2> QED BY <1>8, <1>a, <2>1, <2>2, <2>3 DEF FillSell
  <1>9. CASE EndOpen
    BY <1>9, <1>a DEF EndOpen, Held
  <1>10. ASSUME NEW t \in Symbols, AskToBuy(t) PROVE Gone(s)'
    BY <1>10, <1>a DEF AskToBuy, Deferred, Without, Order, Held
  <1>11. ASSUME NEW t \in Symbols, NEW q \in 1..position[t], NEW exit \in BOOLEAN, AskToSell(t, q, exit)
         PROVE Gone(s)'
    BY <1>11, <1>a DEF AskToSell, Order, Held
  <1>12. CASE EndDecision \/ EndDay \/ NoRebalance \/ Decide \/ Cancel \/ PricesMissing \/ UNCHANGED vars
    BY <1>12, <1>a DEF EndDecision, EndDay, NoRebalance, Decide, Cancel, PricesMissing, vars, Held
  <1> QED BY <1>1, <1>2, <1>3, <1>4, <1>5, <1>6, <1>7, <1>8, <1>9, <1>10, <1>11, <1>12, Steps

-----------------------------------------------------------------------------
\* The cap.

LEMMA SlotsAreSymbols ==
    ASSUME TypeOK
    PROVE  /\ Slots \subseteq Symbols /\ IsFiniteSet(Slots)
           /\ Slots = {s \in Symbols : \/ position[s] > 0
                                       \/ \E o \in pending \cup queue : o.side = "BUY" /\ o.symbol = s}
  <1>1. Slots = {s \in Symbols : \/ position[s] > 0
                                 \/ \E o \in pending \cup queue : o.side = "BUY" /\ o.symbol = s}
    BY DEF TypeOK, Slots, Held, SymbolsOf, Buys, Orders
  <1> QED BY <1>1, FS_Subset, EngineAssumption

LEMMA RoomForOne ==
    ASSUME TypeOK, SlotInv, queue = {}, NEW s \in Symbols, HasRoom(s)
    PROVE  Cardinality(Slots \cup {s}) <= maxPositions
  <1> USE DEF SlotInv
  <1>1. IsFiniteSet(Slots)
    BY SlotsAreSymbols
  <1>2. CASE s \in Slots
    <2>1. Slots \cup {s} = Slots
      BY <1>2
    <2> QED BY <2>1
  <1>3. CASE s \notin Slots
    <2>1. Slots = Held \cup NewBuys
      BY DEF Slots, NewBuys, Held, SymbolsOf, Buys, TypeOK, Orders
    <2>2. Cardinality(Held) + Cardinality(NewBuys) < maxPositions
      BY <1>3, <2>1 DEF HasRoom
    <2>3. IsFiniteSet(Held) /\ IsFiniteSet(NewBuys)
      BY <1>1, <2>1, FS_Subset
    <2>4. Cardinality(Slots) <= Cardinality(Held) + Cardinality(NewBuys)
      <3>1. Cardinality(Slots) = Cardinality(Held) + Cardinality(NewBuys) - Cardinality(Held \cap NewBuys)
        BY <2>1, <2>3, FS_Union
      <3>2. IsFiniteSet(Held \cap NewBuys)
        BY <2>3, FS_Subset
      <3>3. /\ Cardinality(Held) \in Nat /\ Cardinality(NewBuys) \in Nat
            /\ Cardinality(Held \cap NewBuys) \in Nat
        BY <2>3, <3>2, FS_CardinalityType
      <3> QED BY <3>1, <3>3
    <2>5. Cardinality(Slots \cup {s}) = Cardinality(Slots) + 1
      BY <1>1, <1>3, FS_AddElement
    <2>6. /\ Cardinality(Slots) \in Nat /\ Cardinality(Held) \in Nat /\ Cardinality(NewBuys) \in Nat
          /\ maxPositions \in Nat
      BY <1>1, <2>3, FS_CardinalityType, EngineAssumption DEF TypeOK
    <2> QED BY <2>2, <2>4, <2>5, <2>6
  <1> QED BY <1>2, <1>3

LEMMA SlotStep == ASSUME TypeOK, TypeOK', OrderInv, SlotInv, [Next]_vars PROVE SlotInv'
  <1> DEFINE Bought(s) == \E o \in pending \cup queue : o.side = "BUY" /\ o.symbol = s
  <1>0. /\ Slots \subseteq Symbols /\ IsFiniteSet(Slots)
        /\ \A s \in Symbols : s \in Slots <=> position[s] > 0 \/ Bought(s)
    BY SlotsAreSymbols
  <1>p. Slots' = {s \in Symbols : position'[s] > 0 \/ Bought(s)'}
    BY DEF TypeOK, Slots, Held, SymbolsOf, Buys, Orders
  <1>n. maxPositions \in Nat /\ \A s \in Symbols : position[s] \in Nat
    BY EngineAssumption DEF TypeOK
  <1>f. ASSUME maxPositions' = maxPositions, \A s \in Symbols : position'[s] > 0 \/ Bought(s)' => s \in Slots
        PROVE SlotInv'
    <2>1. Slots' \subseteq Slots
      BY <1>p, <1>f
    <2>2. Cardinality(Slots') <= Cardinality(Slots) /\ Cardinality(Slots) \in Nat /\ Cardinality(Slots') \in Nat
      BY <1>0, <2>1, FS_Subset, FS_CardinalityType
    <2> QED BY <1>f, <1>n, <2>2 DEF SlotInv
  <1>r. ASSUME NEW t \in Symbols, queue = {}, HasRoom(t), maxPositions' = maxPositions,
               \A s \in Symbols : position'[s] > 0 \/ Bought(s)' => s \in Slots \cup {t}
        PROVE SlotInv'
    <2>1. Cardinality(Slots \cup {t}) <= maxPositions
      BY <1>r, RoomForOne
    <2>2. Slots' \subseteq Slots \cup {t} /\ IsFiniteSet(Slots \cup {t})
      BY <1>0, <1>p, <1>r, FS_AddElement
    <2>3. /\ Cardinality(Slots') <= Cardinality(Slots \cup {t})
          /\ Cardinality(Slots \cup {t}) \in Nat /\ Cardinality(Slots') \in Nat
      BY <2>2, FS_Subset, FS_CardinalityType
    <2> QED BY <1>n, <1>r, <2>1, <2>3 DEF SlotInv
  <1> USE DEF OrderInv, calendar, schedule, holdings, exits, bar
  <1>1. ASSUME NEW D \in SUBSET Symbols, NEW B \in SUBSET Symbols, StartDay(D, B) PROVE SlotInv'
    BY <1>0, <1>1, <1>f DEF StartDay, Without, TypeOK
  <1>2. CASE ApplyCorporateActions
    <2>1. \A s \in Symbols : position'[s] > 0 => position[s] > 0
      BY <1>2, ScaledHeld DEF Held
    <2>2. \A o \in pending' : \E x \in pending : o.symbol = x.symbol /\ o.side = x.side
      BY <1>2, ScaledKind, EngineAssumption DEF ApplyCorporateActions, TypeOK
    <2>3. queue' = {} /\ maxPositions' = maxPositions
      BY <1>2 DEF ApplyCorporateActions
    <2> QED BY <1>0, <1>f, <2>1, <2>2, <2>3
  <1>3. ASSUME NEW M \in SUBSET Symbols, Rebalance(M) PROVE SlotInv'
    <2>1. RebalanceEffect(M)
      BY <1>3, Rebalanced
    <2>2. \A s : ExitOf(s).side = "SELL"
      BY DEF ExitOf, Order
    <2>3. \A o \in pending' : o.side = "BUY" => o \in pending
      BY <2>1, <2>2 DEF RebalanceEffect, Buys, Sells
    <2> QED BY <1>0, <1>f, <2>1, <2>3 DEF RebalanceEffect
  <1>4. ASSUME NEW o \in deferred, PromoteDeferredBuy(o) PROVE SlotInv'
    <2>1. queue = {} /\ o.symbol \in Symbols
      BY <1>4 DEF PromoteDeferredBuy, MayPromote, TypeOK, Orders
    <2>2. CASE pending' = pending
      BY <1>0, <1>4, <1>f, <2>2 DEF PromoteDeferredBuy
    <2>3. CASE HasRoom(o.symbol) /\ pending' = pending \cup {o}
      BY <1>0, <1>4, <1>r, <2>1, <2>3 DEF PromoteDeferredBuy
    <2> QED BY <1>4, <2>2, <2>3 DEF PromoteDeferredBuy
  <1>5. CASE Open
    BY <1>0, <1>5, <1>f DEF Open
  <1>6. ASSUME NEW o \in queue, Waits(o) PROVE SlotInv'
    BY <1>0, <1>6, <1>f DEF Waits
  <1>7. ASSUME NEW o \in queue, NEW q \in 0..o.quantity, FillBuy(o, q) PROVE SlotInv'
    <2>1. \A s \in Symbols : position'[s] > 0 => position[s] > 0 \/ s = o.symbol
      BY <1>7 DEF FillBuy, TypeOK
    <2> QED BY <1>0, <1>7, <1>f, <2>1 DEF FillBuy
  <1>8. ASSUME NEW o \in queue, NEW q \in 0..o.quantity, FillSell(o, q) PROVE SlotInv'
    <2>1. o.symbol \in Symbols /\ q \in Nat /\ o.side = "SELL"
      BY <1>8 DEF FillSell, TypeOK, Orders
    <2>2. \A s \in Symbols : position'[s] > 0 => position[s] > 0
      BY <1>8, <1>n, <2>1 DEF FillSell, TypeOK
    <2>3. \A x \in pending' \cup queue' : x.side = "BUY" => x \in pending \cup queue
      BY <1>8, <2>1 DEF FillSell, TypeOK, Orders
    <2> QED BY <1>0, <1>8, <1>f, <2>2, <2>3 DEF FillSell
  <1>9. CASE EndOpen
    BY <1>0, <1>9, <1>f DEF EndOpen
  <1>10. ASSUME NEW t \in Symbols, AskToBuy(t) PROVE SlotInv'
    <2>1. queue = {} /\ queue' = {} /\ maxPositions' = maxPositions /\ position' = position
      BY <1>10 DEF AskToBuy
    <2>2. CASE rebalance \/ awaiting
      <3>1. pending' \subseteq pending
        BY <1>10, <2>2 DEF AskToBuy
      <3> QED BY <1>0, <1>f, <2>1, <3>1
    <2>3. CASE ~ (rebalance \/ awaiting)
      <3>1. HasRoom(t) /\ \A x \in pending' : x \in pending \/ x.symbol = t
        BY <1>10, <2>3 DEF AskToBuy, Order
      <3> QED BY <1>0, <1>r, <2>1, <3>1
    <2> QED BY <2>2, <2>3
  <1>11. ASSUME NEW t \in Symbols, NEW q \in 1..position[t], NEW exit \in BOOLEAN, AskToSell(t, q, exit)
         PROVE SlotInv'
    BY <1>0, <1>11, <1>f DEF AskToSell, Order
  <1>12. CASE EndDecision \/ EndDay \/ NoRebalance \/ Decide \/ Cancel \/ PricesMissing \/ UNCHANGED vars
    BY <1>0, <1>12, <1>f DEF EndDecision, EndDay, NoRebalance, Decide, Cancel, PricesMissing, vars
  <1> QED BY <1>1, <1>2, <1>3, <1>4, <1>5, <1>6, <1>7, <1>8, <1>9, <1>10, <1>11, <1>12, Steps

-----------------------------------------------------------------------------
\* Members.

LEMMA MemberStep == ASSUME TypeOK, OrderInv, MemberInv, [Next]_vars PROVE MemberInv'
  <1> DEFINE MI ==
        /\ \A o \in pending \cup queue : o.side = "BUY" => o.symbol \in members
        /\ \A o \in deferred : o.symbol \in members
        /\ \A s \in Symbols : s \in unresolved => s \notin members
        /\ \A s \in Symbols : position[s] > 0 /\ s \notin members => s \in unresolved
  <1>0. (MemberInv <=> MI) /\ (unresolved' \subseteq Symbols => (MemberInv' <=> MI'))
    BY DEF MemberInv, SymbolsOf, Buys, Held, TypeOK
  <1>u. unresolved' \subseteq Symbols
    BY TypeStep DEF TypeOK
  <1>m. MI
    BY <1>0
  <1> SUFFICES MI'
    BY <1>0, <1>u
  <1>n. \A s \in Symbols : position[s] \in Nat
    BY DEF TypeOK
  <1> USE DEF OrderInv, calendar, schedule, holdings, exits, bar
  <1>1. ASSUME NEW D \in SUBSET Symbols, NEW B \in SUBSET Symbols, StartDay(D, B) PROVE MI'
    BY <1>m, <1>1 DEF StartDay, Without, TypeOK
  <1>2. CASE ApplyCorporateActions
    <2>1. \A s \in Symbols : position'[s] > 0 => position[s] > 0
      BY <1>2, ScaledHeld DEF Held
    <2>2. day \in Nat /\ pending \subseteq Orders /\ deferred \subseteq Orders
      BY EngineAssumption DEF TypeOK
    <2>3. /\ \A o \in pending' : \E x \in pending : o.symbol = x.symbol /\ o.side = x.side
          /\ \A o \in deferred' : \E x \in deferred : o.symbol = x.symbol
      BY <1>2, <2>2, ScaledKind DEF ApplyCorporateActions
    <2>4. UNCHANGED <<queue, members, unresolved>>
      BY <1>2 DEF ApplyCorporateActions
    <2> QED BY <1>m, <2>1, <2>3, <2>4
  <1>3. ASSUME NEW M \in SUBSET Symbols, Rebalance(M) PROVE MI'
    <2>1. RebalanceEffect(M)
      BY <1>3, Rebalanced
    <2>2. \A s : ExitOf(s).side = "SELL"
      BY DEF ExitOf, Order
    <2>3. queue' = {} /\ members' = M /\ position' = position
      BY <1>3, <2>1 DEF RebalanceEffect
    <2>4. \A o \in pending' \cup deferred' : o.side = "BUY" => o.symbol \in M
      BY <2>1, <2>2 DEF RebalanceEffect, Buys, Sells
    <2>5. \A o \in deferred' : o.symbol \in M
      BY <2>1 DEF RebalanceEffect
    <2>6. unresolved' = (unresolved \ M) \cup {s \in Symbols : position[s] > 0 /\ s \notin M}
      BY <2>1 DEF RebalanceEffect, Leaving, Held
    <2> QED BY <2>3, <2>4, <2>5, <2>6
  <1>4. ASSUME NEW o \in deferred, PromoteDeferredBuy(o) PROVE MI'
    BY <1>m, <1>4 DEF PromoteDeferredBuy
  <1>5. CASE Open
    BY <1>m, <1>5 DEF Open
  <1>6. ASSUME NEW o \in queue, Waits(o) PROVE MI'
    BY <1>m, <1>6 DEF Waits, Deferred, Without
  <1>7. ASSUME NEW o \in queue, NEW q \in 0..o.quantity, FillBuy(o, q) PROVE MI'
    <2>1. \A s \in Symbols : position'[s] > 0 => position[s] > 0 \/ s = o.symbol
      BY <1>7 DEF FillBuy, TypeOK
    <2>2. o.symbol \in members
      BY <1>m, <1>7 DEF FillBuy
    <2> QED BY <1>m, <1>7, <2>1, <2>2 DEF FillBuy
  <1>8. ASSUME NEW o \in queue, NEW q \in 0..o.quantity, FillSell(o, q) PROVE MI'
    <2>1. o.symbol \in Symbols /\ q \in Nat /\ o.side = "SELL"
      BY <1>8 DEF FillSell, TypeOK, Orders
    <2>2. \A s \in Symbols : position'[s] > 0 =>
             position[s] > 0 /\ (s = o.symbol => position[s] - q # 0)
      BY <1>8, <1>n, <2>1 DEF FillSell, TypeOK
    <2>3. \A x \in pending' \cup queue' : x.side = "BUY" => x \in pending \cup queue
      BY <1>8, <2>1 DEF FillSell, TypeOK, Orders
    <2>4. /\ UNCHANGED <<members, deferred>>
          /\ unresolved' \subseteq unresolved
          /\ \A s \in unresolved \ unresolved' : s = o.symbol /\ position[s] - q = 0
      BY <1>8 DEF FillSell
    <2> QED BY <1>m, <2>2, <2>3, <2>4
  <1>9. CASE EndOpen
    BY <1>m, <1>9 DEF EndOpen, Held
  <1>10. ASSUME NEW t \in Symbols, AskToBuy(t) PROVE MI'
    BY <1>m, <1>10 DEF AskToBuy, Deferred, Without, Order
  <1>11. ASSUME NEW t \in Symbols, NEW q \in 1..position[t], NEW exit \in BOOLEAN, AskToSell(t, q, exit)
         PROVE MI'
    BY <1>m, <1>11 DEF AskToSell, Order
  <1>12. CASE EndDecision \/ EndDay \/ NoRebalance \/ Decide \/ Cancel \/ PricesMissing \/ UNCHANGED vars
    BY <1>m, <1>12 DEF EndDecision, EndDay, NoRebalance, Decide, Cancel, PricesMissing, vars
  <1> QED BY <1>1, <1>2, <1>3, <1>4, <1>5, <1>6, <1>7, <1>8, <1>9, <1>10, <1>11, <1>12, Steps

-----------------------------------------------------------------------------
\* Exits.

Leaves(s) == s \in Symbols /\ position[s] > 0 /\ s \notin members
Sale(o, s) == o.side = "SELL" /\ o.symbol = s

IsLeaving(s) ==
    /\ \E o \in pending \cup queue \cup nextOpen :
         /\ Sale(o, s) /\ o.exit /\ o.quantity = position[s]
         /\ \A x \in pending \cup queue \cup nextOpen : Sale(x, s) => x = o
    /\ (\E o \in queue : Sale(o, s)) => \A x \in pending : ~ Sale(x, s)

LeavingInv == \A s : Leaves(s) => IsLeaving(s)

NextOpenInv ==
    /\ \A o \in nextOpen : Leaves(o.symbol) /\ \A x \in pending \cup queue : ~ Sale(x, o.symbol)
    /\ nextOpen # {} => awaiting

UntriedInv == untried \subseteq unresolved /\ (untried # {} => awaiting)

\* The same, order by order.
LEMMA ExitParts ==
    TypeOK /\ OrderInv => (ExitInv <=> LeavingInv /\ NextOpenInv /\ UntriedInv)
  <1>1. \A s : s \in Held \ members <=> Leaves(s)
    BY DEF Held, Leaves
  <1>2. \A s, o : o \in SalesOf(s) <=> o \in pending \cup queue \cup nextOpen /\ Sale(o, s)
    BY DEF SalesOf, Sells, Sale
  <1>3. ASSUME NEW s
        PROVE  IsLeaving(s) <=> /\ \E o \in SalesOf(s) : o.exit /\ o.quantity = position[s] /\ SalesOf(s) = {o}
                                /\ s \notin SymbolsOf(Sells(queue)) \cap SymbolsOf(Sells(pending))
    <2>1. \A o : SalesOf(s) = {o} <=> o \in SalesOf(s) /\ \A x \in SalesOf(s) : x = o
      OBVIOUS
    <2>2. s \in SymbolsOf(Sells(queue)) <=> \E o \in queue : Sale(o, s)
      BY DEF SymbolsOf, Sells, Sale
    <2>3. s \in SymbolsOf(Sells(pending)) <=> \E o \in pending : Sale(o, s)
      BY DEF SymbolsOf, Sells, Sale
    <2> QED BY <1>2, <2>1, <2>2, <2>3 DEF IsLeaving
  <1>4. NextOpenInv <=> /\ SymbolsOf(nextOpen) \subseteq Held \ members
                        /\ SymbolsOf(nextOpen) \cap SymbolsOf(Sells(pending \cup queue)) = {}
                        /\ nextOpen # {} => awaiting
    <2>1. SymbolsOf(nextOpen) \subseteq Held \ members <=> \A o \in nextOpen : Leaves(o.symbol)
      BY <1>1 DEF SymbolsOf
    <2>2. SymbolsOf(nextOpen) \cap SymbolsOf(Sells(pending \cup queue)) = {}
            <=> \A o \in nextOpen, x \in pending \cup queue : ~ Sale(x, o.symbol)
      BY DEF SymbolsOf, Sells, Sale
    <2> QED BY <2>1, <2>2 DEF NextOpenInv
  <1> QED BY <1>1, <1>3, <1>4 DEF ExitInv, UntriedInv, LeavingInv

\* Steps that leave the sales, what is held and the exits alone.
LEMMA SalesUntouched ==
    ASSUME NextOpenInv, \A s : Leaves(s) => IsLeaving(s),
           UNCHANGED <<position, members, nextOpen, awaiting>>,
           \A x : x.side = "SELL" => /\ x \in pending' \cup queue' <=> x \in pending \cup queue
                                     /\ x \in queue' => x \in queue
                                     /\ x \in pending' => x \in pending \/ queue' = {}
    PROVE  NextOpenInv' /\ (\A s : Leaves(s) => IsLeaving(s))'
  <1>1. NextOpenInv'
    BY DEF NextOpenInv, Sale, Leaves
  <1>2. ASSUME NEW s, Leaves(s)' PROVE IsLeaving(s)'
    <2>1. IsLeaving(s) /\ Leaves(s)
      BY <1>2 DEF Leaves
    <2>2. PICK o \in pending \cup queue \cup nextOpen :
             /\ Sale(o, s) /\ o.exit /\ o.quantity = position[s]
             /\ \A x \in pending \cup queue \cup nextOpen : Sale(x, s) => x = o
      BY <2>1 DEF IsLeaving
    <2>3. \A x : Sale(x, s) => (x \in pending' \cup queue' \cup nextOpen' <=> x \in pending \cup queue \cup nextOpen)
      BY DEF Sale
    <2>4. (\E x \in queue' : Sale(x, s)) => \A x \in pending' : ~ Sale(x, s)
      BY <2>1 DEF IsLeaving, Sale
    <2> QED BY <2>2, <2>3, <2>4 DEF IsLeaving, Sale
  <1> QED BY <1>1, <1>2

LEMMA LeavingStep ==
    ASSUME TypeOK, OrderInv, MemberInv, NextOpenInv, \A s : Leaves(s) => IsLeaving(s), [Next]_vars
    PROVE  NextOpenInv' /\ (\A s : Leaves(s) => IsLeaving(s))'
  <1> DEFINE Good == NextOpenInv /\ \A s : Leaves(s) => IsLeaving(s)
  <1> SUFFICES Good'
    OBVIOUS
  <1>n. \A s \in Symbols : position[s] \in Nat
    BY DEF TypeOK
  <1> USE DEF OrderInv, calendar, schedule, holdings, exits, bar
  <1>1. ASSUME NEW D \in SUBSET Symbols, NEW B \in SUBSET Symbols, StartDay(D, B) PROVE Good'
    <2>1. queue' = {} /\ queue = {} /\ nextOpen' = {} /\ nextOpen = {} /\ members' = members
      BY <1>1 DEF StartDay
    <2>2. \A s : Leaves(s)' => Leaves(s) /\ s \notin D /\ position'[s] = position[s]
      BY <1>1, <2>1 DEF StartDay, Leaves
    <2>3. \A x : x \in pending' <=> x \in pending /\ x.symbol \notin D
      BY <1>1 DEF StartDay, Without
    <2> QED BY <2>1, <2>2, <2>3 DEF NextOpenInv, IsLeaving, Sale
  <1>2. CASE ApplyCorporateActions
    <2>1. queue' = {} /\ queue = {} /\ nextOpen' = {} /\ nextOpen = {} /\ members' = members
      BY <1>2 DEF ApplyCorporateActions
    <2>2. day \in Nat /\ pending \in SUBSET Orders /\ pending' = ScaledOrders(pending)
      BY <1>2, EngineAssumption DEF ApplyCorporateActions, TypeOK
    <2>3. ASSUME NEW s, Leaves(s)' PROVE IsLeaving(s)'
      <3>1. Leaves(s) /\ position'[s] = Scaled(position[s], s) /\ position'[s] > 0
        BY <1>2, <2>1, <2>3, ScaledHeld DEF Leaves, Held
      <3>2. PICK o \in pending : /\ Sale(o, s) /\ o.exit /\ o.quantity = position[s]
                                 /\ \A x \in pending : Sale(x, s) => x = o
        BY <2>1, <3>1 DEF IsLeaving
      <3> DEFINE oo == [o EXCEPT !.quantity = Scaled(o.quantity, o.symbol)]
      <3>3. oo \in pending'
        BY <2>2, <3>1, <3>2, ScaledOrdersAreOrders DEF Sale
      <3>4. Sale(oo, s) /\ oo.exit /\ oo.quantity = position'[s]
        BY <2>2, <3>1, <3>2 DEF Sale, Orders
      <3>5. ASSUME NEW x \in pending', Sale(x, s) PROVE x = oo
        <4>1. PICK y \in pending : x = [y EXCEPT !.quantity = Scaled(y.quantity, y.symbol)]
          BY <2>2, ScaledOrdersAreOrders
        <4>2. Sale(y, s)
          BY <2>2, <3>5, <4>1 DEF Sale, Orders
        <4> QED BY <3>2, <4>1, <4>2
      <3> QED BY <2>1, <3>3, <3>4, <3>5 DEF IsLeaving
    <2> QED BY <2>1, <2>3 DEF NextOpenInv
  <1>3. ASSUME NEW M \in SUBSET Symbols, Rebalance(M) PROVE Good'
    <2>1. RebalanceEffect(M)
      BY <1>3, Rebalanced
    <2>2. \A s : /\ ExitOf(s).side = "SELL" /\ ExitOf(s).exit /\ ExitOf(s).symbol = s
                 /\ ExitOf(s).quantity = position[s]
      BY DEF ExitOf, Order
    <2>3. /\ queue = {} /\ queue' = {} /\ nextOpen = {} /\ position' = position /\ members' = M
          /\ \A s : Leaves(s)' <=> s \in Leaving(M)
      BY <1>3, <2>1 DEF RebalanceEffect, Leaves, Leaving, Held
    <2>4. \A s, x : s \in Leaving(M) /\ x \in pending' \cup nextOpen' /\ Sale(x, s) => x = ExitOf(s)
      BY <2>1 DEF RebalanceEffect, Sale, Buys
    <2>5. \A s \in Leaving(M) : IsLeaving(s)'
      <3> SUFFICES ASSUME NEW s \in Leaving(M) PROVE IsLeaving(s)'
        OBVIOUS
      <3>1. ExitOf(s) \in pending' \cup nextOpen'
        BY <2>1 DEF RebalanceEffect
      <3> QED BY <2>2, <2>3, <2>4, <3>1 DEF IsLeaving, Sale
    <2>6. ASSUME NEW o \in nextOpen' PROVE Leaves(o.symbol)' /\ \A x \in pending' : ~ Sale(x, o.symbol)
      <3>1. o.symbol \in Leaving(M) /\ o.symbol \notin SymbolsOf(Sells(pending))
        BY <2>1, <2>6 DEF RebalanceEffect
      <3>2. ASSUME NEW x \in pending', Sale(x, o.symbol) PROVE FALSE
        <4>1. x = ExitOf(o.symbol)
          BY <2>4, <3>1, <3>2
        <4>2. x.symbol \in SymbolsOf(Sells(pending)) \/ x \in Sells(pending)
          BY <2>1, <2>2, <3>2, <4>1 DEF RebalanceEffect, Buys, Sale
        <4> QED BY <3>1, <3>2, <4>2 DEF SymbolsOf, Sale
      <3> QED BY <2>3, <3>1, <3>2
    <2>7. nextOpen' # {} => awaiting'
      <3> SUFFICES ASSUME NEW o \in nextOpen', ~ awaiting' PROVE FALSE
        OBVIOUS
      <3>1. o.symbol \in Leaving(M) /\ o.symbol \notin SymbolsOf(Sells(pending)) /\ o.symbol \in unresolved
        BY <2>1 DEF RebalanceEffect
      <3>2. Leaves(o.symbol)
        BY <3>1 DEF Leaves, Leaving, Held, MemberInv
      <3>3. \E x \in pending : Sale(x, o.symbol)
        BY <2>3, <3>2 DEF IsLeaving
      <3> QED BY <3>1, <3>3 DEF SymbolsOf, Sells, Sale
    <2> QED BY <2>3, <2>5, <2>6, <2>7 DEF NextOpenInv
  <1>4. ASSUME NEW o \in deferred, PromoteDeferredBuy(o) PROVE Good'
    BY <1>4, SalesUntouched DEF PromoteDeferredBuy, MayPromote
  <1>5. CASE Open
    <2>1. /\ queue' = pending /\ pending' = {} /\ queue = {}
          /\ UNCHANGED <<position, members, nextOpen, awaiting>>
      BY <1>5 DEF Open
    <2> QED BY <2>1 DEF NextOpenInv, IsLeaving, Leaves, Sale
  <1>6. ASSUME NEW o \in queue, Waits(o) PROVE Good'
    <2>1. /\ queue' = queue \ {o} /\ UNCHANGED <<position, members, nextOpen, awaiting>>
          /\ \/ o.side = "BUY" /\ pending' = pending
             \/ pending' = pending \cup {o}
      BY <1>6 DEF Waits
    <2>2. \A s : Leaves(s)' <=> Leaves(s)
      BY <2>1 DEF Leaves
    <2>3. ASSUME NEW s, Leaves(s) PROVE IsLeaving(s)'
      <3>1. PICK x \in pending \cup queue \cup nextOpen :
              /\ Sale(x, s) /\ x.exit /\ x.quantity = position[s]
              /\ \A y \in pending \cup queue \cup nextOpen : Sale(y, s) => y = x
        BY <2>3 DEF IsLeaving
      <3>2. x \in pending' \cup queue' \cup nextOpen'
        BY <2>1, <3>1 DEF Sale
      <3>3. \A y \in pending' \cup queue' \cup nextOpen' : y \in pending \cup queue \cup nextOpen
        BY <2>1
      <3>4. (\E y \in queue' : Sale(y, s)) => \A y \in pending' : ~ Sale(y, s)
        BY <2>1, <2>3, <3>1 DEF IsLeaving
      <3> QED BY <2>1, <3>1, <3>2, <3>3, <3>4 DEF IsLeaving
    <2>4. NextOpenInv'
      BY <2>1, <2>2 DEF NextOpenInv
    <2> QED BY <2>2, <2>3, <2>4
  <1>7. ASSUME NEW o \in queue, NEW q \in 0..o.quantity, FillBuy(o, q) PROVE Good'
    <2>1. /\ queue' = queue \ {o} /\ o.side = "BUY" /\ o.symbol \in members
          /\ UNCHANGED <<pending, members, nextOpen, awaiting>>
      BY <1>7 DEF FillBuy, MemberInv, SymbolsOf, Buys
    <2>2. \A s \in Symbols : s # o.symbol => position'[s] = position[s]
      BY <1>7 DEF FillBuy, TypeOK
    <2>3. \A s : (Leaves(s)' <=> Leaves(s)) /\ (Leaves(s) => position'[s] = position[s])
      BY <2>1, <2>2 DEF Leaves
    <2>4. \A x, s : Sale(x, s) => (x \in queue' <=> x \in queue)
      BY <2>1 DEF Sale
    <2>5. \A s : Leaves(s) => IsLeaving(s)'
      BY <2>1, <2>3, <2>4 DEF IsLeaving
    <2>6. NextOpenInv'
      BY <2>1, <2>3 DEF NextOpenInv
    <2> QED BY <2>3, <2>5, <2>6
  <1>8. ASSUME NEW o \in queue, NEW q \in 0..o.quantity, FillSell(o, q) PROVE Good'
    <2> DEFINE s == o.symbol
               left == position[s] - q
               rest == IF o.exit THEN left ELSE Smaller(left, o.quantity - q)
               oo == [o EXCEPT !.quantity = rest]
    <2>1. /\ o \in Orders /\ s \in Symbols /\ Sale(o, s) /\ q \in Nat
          /\ queue' = queue \ {o} /\ UNCHANGED <<members, nextOpen, awaiting>>
          /\ pending' = IF rest > 0 THEN pending \cup {oo} ELSE pending
      BY <1>8 DEF FillSell, TypeOK, Orders, Sale
    <2>2. position'[s] = left /\ \A t \in Symbols : t # s => position'[t] = position[t]
      BY <1>8, <2>1 DEF FillSell, TypeOK
    <2>3. Sale(oo, s) /\ oo.exit = o.exit /\ oo.quantity = rest
      BY <2>1 DEF Sale, Orders
    <2>4. \A t : Leaves(t)' => Leaves(t)
      BY <1>n, <2>1, <2>2 DEF Leaves
    <2>5. \A t : Leaves(t) /\ t # s => Leaves(t)'
      BY <2>1, <2>2 DEF Leaves
    <2> HIDE DEF s, oo, rest, left
    <2>6. ASSUME NEW t, Leaves(t)', t # s PROVE IsLeaving(t)'
      <3>1. Leaves(t) /\ IsLeaving(t) /\ position'[t] = position[t]
        BY <2>2, <2>4, <2>6 DEF Leaves
      <3>2. \A x : Sale(x, t) => x # o /\ x # oo
        BY <2>1, <2>3, <2>6 DEF Sale
      <3>3. \A x : Sale(x, t) => (x \in queue' <=> x \in queue) /\ (x \in pending' <=> x \in pending)
        BY <2>1, <3>2
      <3> QED BY <2>1, <3>1, <3>3 DEF IsLeaving
    <2>7. ASSUME Leaves(s)' PROVE IsLeaving(s)'
      <3>1. Leaves(s) /\ IsLeaving(s)
        BY <2>4, <2>7
      <3>2. \A x \in pending \cup queue \cup nextOpen : Sale(x, s) => x = o
        BY <2>1, <3>1 DEF IsLeaving
      <3>3. o.exit /\ \A x \in pending : ~ Sale(x, s)
        BY <2>1, <3>1 DEF IsLeaving
      <3>4. \A x \in nextOpen : ~ Sale(x, s)
        BY <2>1 DEF NextOpenInv, Sale
      <3>5. \A x \in queue' : ~ Sale(x, s)
        BY <2>1, <3>2
      <3>6. rest = left /\ left > 0
        BY <2>2, <2>7, <3>3 DEF Leaves, rest
      <3> QED BY <2>1, <2>2, <2>3, <3>3, <3>4, <3>5, <3>6 DEF IsLeaving
    <2>8. ASSUME NEW x \in nextOpen' PROVE Leaves(x.symbol)' /\ \A y \in pending' \cup queue' : ~ Sale(y, x.symbol)
      <3>1. x.symbol # s /\ Leaves(x.symbol)
        BY <2>1 DEF NextOpenInv
      <3> QED BY <2>1, <2>3, <2>5, <3>1 DEF NextOpenInv, Sale
    <2> QED BY <2>1, <2>6, <2>7, <2>8 DEF NextOpenInv
  <1>9. CASE EndOpen
    <2>1. /\ queue = {} /\ queue' = {} /\ nextOpen' = {} /\ UNCHANGED <<position, members>>
          /\ pending' = {o \in pending \cup nextOpen : ~ (o.symbol \in unresolved \ Held /\ o.exit)}
      BY <1>9 DEF EndOpen
    <2>2. \A s, x : Leaves(s) /\ Sale(x, s) => (x \in pending' <=> x \in pending \cup nextOpen)
      BY <2>1 DEF Leaves, Held, Sale
    <2> QED BY <2>1, <2>2 DEF NextOpenInv, IsLeaving, Leaves
  <1>10. ASSUME NEW t \in Symbols, AskToBuy(t) PROVE Good'
    <2>1. /\ queue = {} /\ queue' = {} /\ UNCHANGED <<position, members, nextOpen, awaiting>>
      BY <1>10 DEF AskToBuy
    <2>2. \A x : x.side = "SELL" => (x \in pending' <=> x \in pending)
      BY <1>10 DEF AskToBuy, Buys, Order
    <2> QED BY <2>1, <2>2, SalesUntouched
  <1>11. ASSUME NEW t \in Symbols, NEW q \in 1..position[t], NEW exit \in BOOLEAN, AskToSell(t, q, exit)
         PROVE Good'
    <2>1. /\ queue = {} /\ queue' = {} /\ nextOpen = {} /\ UNCHANGED <<position, members, nextOpen, awaiting>>
          /\ t \notin unresolved /\ t \in Held
      BY <1>11 DEF AskToSell
    <2>2. ~ Leaves(t)
      BY <2>1 DEF MemberInv, Leaves
    <2>3. \A x, s : Sale(x, s) /\ s # t => (x \in pending' <=> x \in pending)
      BY <1>11 DEF AskToSell, Order, Sale
    <2> QED BY <2>1, <2>2, <2>3 DEF NextOpenInv, IsLeaving, Leaves
  <1>12. CASE EndDecision \/ EndDay \/ NoRebalance \/ Decide \/ Cancel \/ PricesMissing \/ UNCHANGED vars
    <2>1. UNCHANGED <<position, members, pending, queue, nextOpen, awaiting>>
      BY <1>12 DEF EndDecision, EndDay, NoRebalance, Decide, Cancel, PricesMissing, vars
    <2> QED BY <2>1 DEF NextOpenInv, IsLeaving, Leaves
  <1> QED BY <1>1, <1>2, <1>3, <1>4, <1>5, <1>6, <1>7, <1>8, <1>9, <1>10, <1>11, <1>12, Steps

LEMMA UntriedStep ==
    ASSUME TypeOK, OrderInv, MemberInv, NextOpenInv, UntriedInv, [Next]_vars PROVE UntriedInv'
  <1> USE DEF UntriedInv, calendar, schedule, holdings, exits, bar
  <1>1. ASSUME NEW D \in SUBSET Symbols, NEW B \in SUBSET Symbols, StartDay(D, B) PROVE UntriedInv'
    BY <1>1 DEF StartDay
  <1>2. ASSUME NEW M \in SUBSET Symbols, Rebalance(M) PROVE UntriedInv'
    <2>1. /\ unresolved' = (unresolved \ M) \cup Leaving(M)
          /\ untried' = (untried \ (unresolved \cap M)) \cup (Leaving(M) \ unresolved)
          /\ awaiting' = (awaiting \/ Leaving(M) \ unresolved # {})
      BY <1>2, Rebalanced DEF RebalanceEffect
    <2>2. awaiting \in BOOLEAN
      BY DEF TypeOK
    <2> QED BY <2>1, <2>2
  <1>3. ASSUME NEW o \in queue, NEW q \in 0..o.quantity, FillSell(o, q) PROVE UntriedInv'
    BY <1>3 DEF FillSell
  <1>4. CASE EndOpen
    <2>1. SymbolsOf(nextOpen) \subseteq unresolved
      BY DEF NextOpenInv, Leaves, MemberInv, Held, SymbolsOf
    <2>2. /\ unresolved' = unresolved \ (unresolved \ Held)
          /\ untried' = SymbolsOf(nextOpen) \ (unresolved \ Held)
          /\ awaiting' = (awaiting /\ nextOpen # {})
      BY <1>4 DEF EndOpen
    <2>3. untried' # {} => nextOpen # {}
      BY <2>2 DEF SymbolsOf
    <2>4. nextOpen # {} => awaiting
      BY DEF NextOpenInv
    <2> QED BY <2>1, <2>2, <2>3, <2>4
  <1>5. CASE UNCHANGED exits
    BY <1>5
  <1>6. \/ \E D, B \in SUBSET Symbols : StartDay(D, B)
        \/ \E M \in SUBSET Symbols : Rebalance(M)
        \/ \E o \in queue : \E q \in 0..o.quantity : FillSell(o, q)
        \/ EndOpen
        \/ UNCHANGED exits
    BY Steps DEF ApplyCorporateActions, PromoteDeferredBuy, Open, Waits, FillBuy, AskToBuy, AskToSell,
                 EndDecision, EndDay, NoRebalance, Decide, Cancel, PricesMissing, vars
  <1> QED BY <1>1, <1>2, <1>3, <1>4, <1>5, <1>6

LEMMA ExitStep ==
    ASSUME TypeOK, OrderInv, MemberInv, ExitInv, [Next]_vars PROVE ExitInv'
  <1>1. LeavingInv /\ NextOpenInv /\ UntriedInv
    BY ExitParts
  <1>2. LeavingInv' /\ NextOpenInv' /\ UntriedInv'
    BY <1>1, LeavingStep, UntriedStep DEF LeavingInv
  <1>3. TypeOK' /\ OrderInv'
    BY TypeStep, OrderStep
  <1> QED BY <1>2, <1>3, ExitParts, PTL

-----------------------------------------------------------------------------
\* Buys that wait.

LEMMA WaitStep ==
    ASSUME TypeOK, OrderInv, ExitInv, WaitInv, [Next]_vars PROVE WaitInv'
  <1>t. awaiting \in BOOLEAN /\ rebalance \in BOOLEAN
    BY DEF TypeOK
  <1> USE DEF WaitInv, calendar, schedule, holdings, exits, bar
  <1>1. ASSUME NEW D \in SUBSET Symbols, NEW B \in SUBSET Symbols, StartDay(D, B) PROVE WaitInv'
    BY <1>1 DEF StartDay
  <1>2. CASE EndOpen
    <2>1. /\ phase' = "postopen" /\ awaiting' = (awaiting /\ nextOpen # {})
          /\ untried' = SymbolsOf(nextOpen) \ (unresolved \ Held)
      BY <1>2 DEF EndOpen
    <2>2. SymbolsOf(nextOpen) \subseteq Held
      BY DEF ExitInv
    <2>3. nextOpen # {} => SymbolsOf(nextOpen) # {}
      BY DEF SymbolsOf
    <2> QED BY <1>t, <2>1, <2>2, <2>3
  <1>3. ASSUME NEW s \in Symbols, AskToBuy(s) PROVE WaitInv'
    BY <1>3 DEF AskToBuy
  <1>4. CASE EndDay
    BY <1>t, <1>4 DEF EndDay, MayPromote
  <1>5. CASE \/ ApplyCorporateActions
             \/ \E M \in SUBSET Symbols : Rebalance(M)
             \/ Open
             \/ \E o \in queue : Waits(o)
             \/ \E o \in queue : \E q \in 0..o.quantity : FillBuy(o, q)
             \/ \E o \in queue : \E q \in 0..o.quantity : FillSell(o, q)
             \/ NoRebalance \/ Cancel \/ PricesMissing
    BY <1>5 DEF ApplyCorporateActions, Rebalance, Open, Waits, FillBuy, FillSell, NoRebalance, Cancel,
                PricesMissing
  <1>6. CASE \/ \E o \in deferred : PromoteDeferredBuy(o)
             \/ \E s \in Symbols : \E q \in 1..position[s], exit \in BOOLEAN : AskToSell(s, q, exit)
             \/ EndDecision \/ Decide \/ UNCHANGED vars
    BY <1>6 DEF PromoteDeferredBuy, MayPromote, AskToSell, EndDecision, Decide, vars
  <1> QED BY <1>1, <1>2, <1>3, <1>4, <1>5, <1>6, Steps

\* BuyInv, order by order.
Buying(o) == o.side = "BUY" /\ o \in pending \cup queue \cup deferred

LEMMA BuyParts ==
    BuyInv <=>
      /\ \A o, x : Buying(o) /\ Buying(x) /\ o.symbol = x.symbol => o = x
      /\ \A o \in pending : o.side = "BUY" /\ o.symbol \in bars =>
           /\ phase # "fill"
           /\ phase \in {"postopen", "decide"} => o.symbol \in promoted \cup asked
      /\ phase = "decide" /\ ~ awaiting /\ ~ rebalance => deferred = {}
  BY DEF BuyInv, OneBuyPerSymbol, Buying, Buys, SymbolsOf

LEMMA BuyStep ==
    ASSUME TypeOK, OrderInv, BuyInv, [Next]_vars PROVE BuyInv'
  <1> DEFINE Alone == \A o, x : Buying(o) /\ Buying(x) /\ o.symbol = x.symbol => o = x
             Known == \A o \in pending : o.side = "BUY" /\ o.symbol \in bars =>
                        /\ phase # "fill"
                        /\ phase \in {"postopen", "decide"} => o.symbol \in promoted \cup asked
             Late == phase = "decide" /\ ~ awaiting /\ ~ rebalance => deferred = {}
  <1>0. Alone /\ Known /\ Late
    BY BuyParts
  <1>p. BuyInv' <=> Alone' /\ Known' /\ Late'
    BY BuyParts, PTL
  <1> SUFFICES Alone' /\ Known' /\ Late'
    BY <1>p
  <1>f. ASSUME \A o : Buying(o)' => Buying(o) PROVE Alone'
    BY <1>0, <1>f
  <1>t. awaiting \in BOOLEAN /\ rebalance \in BOOLEAN
    BY DEF TypeOK
  <1> USE DEF OrderInv, calendar, schedule, holdings, exits, bar
  <1>1. ASSUME NEW D \in SUBSET Symbols, NEW B \in SUBSET Symbols, StartDay(D, B)
        PROVE Alone' /\ Known' /\ Late'
    BY <1>1, <1>f DEF StartDay, Without, Buying
  <1>2. CASE ApplyCorporateActions
    <2>1. /\ day \in Nat /\ pending \in SUBSET Orders /\ deferred \in SUBSET Orders
          /\ pending' = ScaledOrders(pending) /\ deferred' = ScaledOrders(deferred)
          /\ queue' = queue /\ queue = {} /\ phase' = "rebalance"
      BY <1>2, EngineAssumption DEF ApplyCorporateActions, TypeOK
    <2>2. ASSUME NEW o, Buying(o)'
          PROVE  \E y \in pending \cup deferred :
                   /\ o = [y EXCEPT !.quantity = Scaled(y.quantity, y.symbol)]
                   /\ Buying(y) /\ y.symbol = o.symbol
      <3>1. PICK y \in pending \cup deferred : o = [y EXCEPT !.quantity = Scaled(y.quantity, y.symbol)]
        BY <2>1, <2>2, ScaledOrdersAreOrders DEF Buying
      <3> QED BY <2>1, <2>2, <3>1 DEF Buying, Orders
    <2>3. Alone'
      <3> SUFFICES ASSUME NEW o, NEW x, Buying(o)', Buying(x)', o.symbol = x.symbol PROVE o = x
        OBVIOUS
      <3>1. PICK y \in pending \cup deferred :
               /\ o = [y EXCEPT !.quantity = Scaled(y.quantity, y.symbol)]
               /\ Buying(y) /\ y.symbol = o.symbol
        BY <2>2
      <3>2. PICK z \in pending \cup deferred :
               /\ x = [z EXCEPT !.quantity = Scaled(z.quantity, z.symbol)]
               /\ Buying(z) /\ z.symbol = x.symbol
        BY <2>2
      <3>3. y = z
        BY <1>0, <3>1, <3>2
      <3> QED BY <3>1, <3>2, <3>3
    <2> QED BY <2>1, <2>3
  <1>3. ASSUME NEW M \in SUBSET Symbols, Rebalance(M) PROVE Alone' /\ Known' /\ Late'
    <2>1. RebalanceEffect(M)
      BY <1>3, Rebalanced
    <2>2. \A s : ExitOf(s).side = "SELL"
      BY DEF ExitOf, Order
    <2>3. queue' = queue /\ phase' = "preopen"
      BY <2>1 DEF RebalanceEffect
    <2>4. \A o : Buying(o)' => Buying(o)
      BY <2>1, <2>2, <2>3 DEF RebalanceEffect, Buying, Buys, Sells
    <2> QED BY <1>f, <2>3, <2>4
  <1>4. ASSUME NEW o \in deferred, PromoteDeferredBuy(o) PROVE Alone' /\ Known' /\ Late'
    <2>1. \A x : Buying(x)' => Buying(x)
      BY <1>4 DEF PromoteDeferredBuy, Buying
    <2> QED BY <1>0, <1>4, <1>f, <2>1 DEF PromoteDeferredBuy, MayPromote
  <1>5. CASE Open
    BY <1>5, <1>f DEF Open, Buying
  <1>6. ASSUME NEW o \in queue, Waits(o) PROVE Alone' /\ Known' /\ Late'
    <2>1. \A x : Buying(x)' => Buying(x)
      BY <1>6 DEF Waits, Deferred, Without, Buying
    <2> QED BY <1>0, <1>6, <1>f, <2>1 DEF Waits
  <1>7. ASSUME NEW o \in queue, NEW q \in 0..o.quantity, FillBuy(o, q) PROVE Alone' /\ Known' /\ Late'
    BY <1>0, <1>7, <1>f DEF FillBuy, Buying
  <1>8. ASSUME NEW o \in queue, NEW q \in 0..o.quantity, FillSell(o, q) PROVE Alone' /\ Known' /\ Late'
    <2>1. o \in Orders /\ o.side = "SELL"
      BY <1>8 DEF FillSell, TypeOK
    <2>2. \A x \in pending' : x.side = "BUY" => x \in pending
      BY <1>8, <2>1 DEF FillSell, Orders
    <2> QED BY <1>0, <1>8, <1>f, <2>2 DEF FillSell, Buying
  <1>9. CASE EndOpen
    <2>1. /\ phase = "fill" /\ phase' = "postopen"
          /\ UNCHANGED <<bars, deferred, queue>>
          /\ \A x \in pending' : x.side = "BUY" => x \in pending
      BY <1>9 DEF EndOpen
    <2> QED BY <1>0, <1>f, <2>1 DEF Buying
  <1>10. ASSUME NEW s \in Symbols, AskToBuy(s) PROVE Alone' /\ Known' /\ Late'
    <2> DEFINE o == Order(s, "BUY", Lot, FALSE)
    <2>0. o.symbol = s /\ o.side = "BUY"
      BY DEF Order
    <2>1. /\ phase = "decide" /\ phase' = "decide" /\ s \notin asked /\ s \in bars
          /\ asked' = asked \cup {s}
          /\ queue = {} /\ queue' = {} /\ UNCHANGED <<bars, promoted, rebalance, awaiting>>
      BY <1>10 DEF AskToBuy
    <2> HIDE DEF o
    <2> DEFINE others == IF s \in promoted THEN pending \ {x \in Buys(pending) : x.symbol = s} ELSE pending
    <2>k. \A x \in others : x \in pending /\ (x.side = "BUY" => x.symbol # s)
      <3>1. CASE s \in promoted
        BY <3>1 DEF Buys
      <3>2. CASE s \notin promoted
        <4>1. \A x \in pending : x.side = "BUY" /\ x.symbol \in bars => x.symbol \in promoted \cup asked
          BY <1>0, <2>1
        <4> QED BY <3>2, <4>1, <2>1
      <3> QED BY <3>1, <3>2
    <2>m. \A x \in others : x.side = "BUY" /\ x.symbol \in bars => x.symbol \in promoted' \cup asked'
      <3>1. \A x \in pending : x.side = "BUY" /\ x.symbol \in bars => x.symbol \in promoted \cup asked
        BY <1>0, <2>1
      <3> QED BY <2>1, <2>k, <3>1
    <2> HIDE DEF others
    <2>2. ASSUME rebalance \/ awaiting PROVE Alone' /\ Known' /\ Late'
      <3>1. /\ pending' = others
            /\ deferred' = Without(deferred, {s}) \cup {o}
        BY <1>10, <2>0, <2>2 DEF AskToBuy, Deferred, SymbolsOf, o, others
      <3>2. \A x \in pending' : x \in pending /\ (x.side = "BUY" => x.symbol # s)
        BY <2>k, <3>1
      <3>3. \A x : Buying(x)' => x = o \/ (Buying(x) /\ x.symbol # s)
        BY <2>1, <3>1, <3>2 DEF Without, Buying
      <3>4. Alone'
        BY <1>0, <2>0, <3>3
      <3>5. Known' /\ Late'
        BY <2>1, <2>2, <2>m, <3>1
      <3> QED BY <3>4, <3>5
    <2>3. ASSUME ~ rebalance, ~ awaiting PROVE Alone' /\ Known' /\ Late'
      <3>1. /\ pending' = others \cup {o}
            /\ deferred' = deferred /\ deferred = {}
        BY <1>0, <1>10, <2>1, <2>3 DEF AskToBuy, o, others
      <3>2. \A x \in pending' : x = o \/ (x \in pending /\ (x.side = "BUY" => x.symbol # s))
        BY <2>k, <3>1
      <3>3. \A x : Buying(x)' => x = o \/ (Buying(x) /\ x.symbol # s)
        BY <2>1, <3>1, <3>2 DEF Buying
      <3>4. Alone'
        BY <1>0, <2>0, <3>3
      <3>5. Known' /\ Late'
        BY <2>0, <2>1, <2>m, <3>1
      <3> QED BY <3>4, <3>5
    <2> QED BY <1>t, <2>2, <2>3
  <1>11. ASSUME NEW s \in Symbols, NEW q \in 1..position[s], NEW exit \in BOOLEAN, AskToSell(s, q, exit)
         PROVE Alone' /\ Known' /\ Late'
    BY <1>0, <1>11, <1>f DEF AskToSell, Order, Buying
  <1>12. CASE EndDecision \/ EndDay \/ NoRebalance \/ Cancel \/ PricesMissing
    BY <1>0, <1>12, <1>f DEF EndDecision, EndDay, NoRebalance, Cancel, PricesMissing, Buying
  <1>13. CASE Decide
    BY <1>0, <1>t, <1>13, <1>f DEF Decide, MayPromote, Buying
  <1>14. CASE UNCHANGED vars
    BY <1>0, <1>14, <1>f DEF vars, Buying
  <1> QED BY <1>1, <1>2, <1>3, <1>4, <1>5, <1>6, <1>7, <1>8, <1>9, <1>10, <1>11, <1>12, <1>13, <1>14, Steps

-----------------------------------------------------------------------------
\* Theorems.

LEMMA InitInv == ASSUME EngineInit PROVE IInv
  <1> USE DEF EngineInit
  <1>1. TypeOK
    <2>1. 0 \in 0..LastDay /\ 0 \in Nat
      BY EngineAssumption
    <2>2. basis \in [Symbols -> 0..LastDay] /\ position \in [Symbols -> Nat]
      BY <2>1
    <2>3. \A S \in {pending, queue, nextOpen, deferred} : S \subseteq Orders
      OBVIOUS
    <2>4. \A S \in {bars, members, unresolved, untried, promoted, retired, dry, asked} : S \subseteq Symbols
      OBVIOUS
    <2> QED BY <2>1, <2>2, <2>3, <2>4 DEF TypeOK
  <1>2. OrderInv /\ RetiredAreGone /\ WaitInv
    BY DEF OrderInv, RetiredAreGone, WaitInv
  <1>3. Held = {} /\ Slots = {}
    BY DEF Held, Slots, SymbolsOf, Buys
  <1>4. SlotInv
    <2>1. Cardinality(Slots) = 0
      BY <1>3, FS_EmptySet
    <2>2. maxPositions \in Nat
      BY <1>1, EngineAssumption DEF TypeOK
    <2> QED BY <2>1, <2>2 DEF SlotInv
  <1>5. MemberInv /\ ExitInv
    BY <1>3 DEF MemberInv, ExitInv, SymbolsOf, Buys, Sells
  <1>6. BuyInv
    BY DEF BuyInv, OneBuyPerSymbol, SymbolsOf, Buys
  <1> QED BY <1>1, <1>2, <1>4, <1>5, <1>6 DEF IInv

\* The inductive invariant: it holds in every reachable state.
THEOREM EngineInvariant == Spec => []IInv
  <1>1. EngineInit => IInv
    BY InitInv
  <1>2. IInv /\ [Next]_vars => IInv'
    BY TypeStep, OrderStep, RetiredStep, SlotStep, MemberStep, ExitStep, WaitStep, BuyStep DEF IInv
  <1> QED BY <1>1, <1>2, PTL DEF Spec

\* Every variable keeps its type.
THEOREM EngineTypes == Spec => []TypeOK
  <1>1. IInv => TypeOK
    BY DEF IInv
  <1> QED BY <1>1, EngineInvariant, PTL

\* validateOrder counts what is held and what is about to be bought; with buys
\* that are put off, promoted and left waiting, the cap holds for what is held.
THEOREM CapIsKept == Spec => []CapHolds
  <1>1. IInv => CapHolds
    <2> SUFFICES ASSUME IInv PROVE CapHolds
      OBVIOUS
    <2>1. Held \subseteq Slots /\ IsFiniteSet(Slots)
      BY SlotsAreSymbols DEF IInv, Slots
    <2>2. /\ Cardinality(Held) <= Cardinality(Slots)
          /\ Cardinality(Held) \in Nat /\ Cardinality(Slots) \in Nat
      BY <2>1, FS_Subset, FS_CardinalityType
    <2>3. maxPositions \in Nat /\ Cardinality(Slots) <= maxPositions
      BY EngineAssumption DEF IInv, TypeOK, SlotInv
    <2> QED BY <2>2, <2>3 DEF CapHolds
  <1> QED BY <1>1, EngineInvariant, PTL

\* Who is held from outside the universe has one sale waiting, for all of it.
THEOREM OutcastsLeave == Spec => []OutcastsAreLeaving
  <1>1. IInv => OutcastsAreLeaving
    <2> SUFFICES ASSUME IInv, phase \in {"preopen", "decide", "close", "closed"}
                 PROVE  /\ unresolved \cap Held = Held \ members
                        /\ \A s \in Held \ members : \E o \in Sells(pending \cup nextOpen) :
                             /\ o.exit /\ o.quantity = position[s]
                             /\ {x \in Sells(pending \cup nextOpen) : x.symbol = s} = {o}
      BY DEF OutcastsAreLeaving
    <2>1. unresolved \cap Held = Held \ members
      BY DEF IInv, MemberInv
    <2>2. queue = {}
      BY DEF IInv, OrderInv
    <2>3. \A s : SalesOf(s) = {x \in Sells(pending \cup nextOpen) : x.symbol = s}
      BY <2>2 DEF SalesOf, Sells
    <2>4. \A s : SalesOf(s) \subseteq Sells(pending \cup nextOpen)
      BY <2>3
    <2>5. \A s \in Held \ members :
             \E o \in SalesOf(s) : o.exit /\ o.quantity = position[s] /\ SalesOf(s) = {o}
      BY DEF IInv, ExitInv
    <2> QED BY <2>1, <2>3, <2>4, <2>5
  <1> QED BY <1>1, EngineInvariant, PTL

\* At an open nothing is bought while an exit that was not tried yet waits.
THEOREM ExitsGoFirst == Spec => BuysWaitForExits
  <1>1. ASSUME IInv, [Next]_vars
        PROVE  phase = "fill" /\ (\E s \in Symbols : position'[s] > position[s]) => untried = {}
    <2> SUFFICES ASSUME phase = "fill", NEW s \in Symbols, position'[s] > position[s]
                 PROVE  untried = {}
      OBVIOUS
    <2>0. /\ \A x \in Symbols : position[x] \in Nat
          /\ position \in [Symbols -> Nat] /\ queue \subseteq Orders
          /\ untried # {} => awaiting
      <3>1. TypeOK /\ ExitInv
        BY <1>1 DEF IInv
      <3>2. position \in [Symbols -> Nat] /\ queue \subseteq Orders
        <4>1. position \in [Symbols -> Nat]
          BY <3>1 DEF TypeOK
        <4>2. queue \subseteq Orders
          BY <3>1 DEF TypeOK
        <4> QED BY <4>1, <4>2
      <3>3. \A x \in Symbols : position[x] \in Nat
        BY <3>2
      <3>4. untried # {} => awaiting
        BY <3>1 DEF ExitInv
      <3> QED BY <3>2, <3>3, <3>4
    <2>1. ASSUME NEW o \in queue, NEW q \in 0..o.quantity, FillBuy(o, q) PROVE untried = {}
      BY <2>0, <2>1 DEF FillBuy
    <2>2. ASSUME NEW o \in queue, NEW q \in 0..o.quantity, FillSell(o, q) PROVE untried = {}
      <3>1. o.symbol \in Symbols /\ q \in Nat /\ position[o.symbol] \in Nat
        BY <2>0 DEF Orders
      <3>2. position' = [position EXCEPT ![o.symbol] = position[o.symbol] - q]
        BY <2>2 DEF FillSell
      <3>3. position'[s] = position[s] \/ (s = o.symbol /\ position'[s] = position[s] - q)
        BY <2>0, <3>1, <3>2
      <3> QED BY <2>0, <3>1, <3>3
    <2>3. CASE UNCHANGED position
      BY <2>0, <2>3
    <2>4. \/ \E o \in queue : \E q \in 0..o.quantity : FillBuy(o, q) \/ FillSell(o, q)
          \/ UNCHANGED position
      <3>1. ~ \E D, B \in SUBSET Symbols : StartDay(D, B)
        BY DEF StartDay
      <3>2. ~ ApplyCorporateActions
        BY DEF ApplyCorporateActions
      <3>3. ~ \E M \in SUBSET Symbols : Rebalance(M)
        BY DEF Rebalance
      <3>4. ASSUME \/ \E o \in deferred : PromoteDeferredBuy(o)
                   \/ Open \/ (\E o \in queue : Waits(o)) \/ EndOpen
                   \/ \E x \in Symbols : AskToBuy(x)
                   \/ \E x \in Symbols : \E q \in 1..position[x], exit \in BOOLEAN : AskToSell(x, q, exit)
            PROVE  UNCHANGED position
        BY <3>4 DEF PromoteDeferredBuy, Open, Waits, EndOpen, AskToBuy, AskToSell, holdings
      <3>5. ASSUME EndDecision \/ EndDay \/ NoRebalance \/ Decide \/ Cancel \/ PricesMissing \/ UNCHANGED vars
            PROVE  UNCHANGED position
        BY <3>5 DEF EndDecision, EndDay, NoRebalance, Decide, Cancel, PricesMissing, vars, holdings
      <3> QED BY <3>1, <3>2, <3>3, <3>4, <3>5, <1>1, Steps
    <2> QED BY <2>1, <2>2, <2>3, <2>4
  <1> QED BY <1>1, EngineInvariant, PTL DEF Spec, BuysWaitForExits

\* A buy is only put off for an exit that was not tried yet.
THEOREM BuysComeBack == Spec => []BuysAreNotForgotten
  <1>1. IInv => BuysAreNotForgotten
    BY DEF IInv, WaitInv, BuysAreNotForgotten
  <1> QED BY <1>1, EngineInvariant, PTL

\* Of one symbol one buy waits at most.
THEOREM BuysAreSingle == Spec => []OneBuyPerSymbol
  <1>1. IInv => OneBuyPerSymbol
    BY DEF IInv, BuyInv
  <1> QED BY <1>1, EngineInvariant, PTL

\* A delisted code is never held, ordered or waited for again.
THEOREM RetiredStayAway == Spec => []RetiredAreGone
  <1>1. IInv => RetiredAreGone
    BY DEF IInv
  <1> QED BY <1>1, EngineInvariant, PTL
=============================================================================
