------------------------------- MODULE Engine -------------------------------
(* The backtest engine (runtime/modules/backtest/domain/engine.ts,           *)
(* runBacktestSteps): positions and orders of one run, day after day.        *)
(*                                                                           *)
(* The strategy is arbitrary: after each open it asks for any order, one per *)
(* symbol. So is the market: which symbols have a bar on a day, which are    *)
(* delisted, whom a new entry of the universe schedule admits. The engine    *)
(* does not look ahead, so these inputs are chosen on the day they matter.   *)
(* Cash, prices and costs are left out: an order to buy may be filled in     *)
(* full, in part or not at all. Orders are a set: the code draws the order   *)
(* of the buys from a seed, and that of the rest only decides which of them  *)
(* gets the cash. The days before tradeFromTsMs, which drop what the         *)
(* strategy asks for, and the reports at the end are left out too.           *)
EXTENDS Integers, FiniteSets

CONSTANTS
    Symbols,
    Caps,            \* what users allow as maxPositions
    Lot,             \* what the strategy buys at a time
    LastDay,
    EntryDays,       \* days on which an entry of the schedule begins (fromTsMs)
    Split,           \* [Symbols -> [day, times, by]]; day 0: none
    MaxDelistings,   \* bound: symbols delisted in a run
    MaxHalted        \* bound: symbols that do not trade on a day when others do

ASSUME EngineAssumption ==
    /\ IsFiniteSet(Symbols)
    /\ Caps \subseteq Nat /\ LastDay \in Nat /\ MaxDelistings \in Nat /\ MaxHalted \in Nat
    /\ Lot \in Nat \ {0}
    /\ EntryDays \subseteq Nat \ {0}
    /\ Split \in [Symbols -> [day : Nat, times : Nat, by : Nat \ {0}]]

VARIABLES
    phase,       \* where the loop over the days is
    day,
    bars,        \* symbols that have a bar today; the others do not trade
    members,     \* activeMembershipSymbols
    activated,   \* the day of the last rebalance (activatedScheduleIndex), 0 before
    rebalance,   \* isRebalanceBar
    position,    \* [Symbols -> quantity held]
    basis,       \* quantityBasisTsMsBySymbol
    pending,     \* pendingOrders, and stillPending while they are filled
    queue,       \* the orders this open has not come to yet
    nextOpen,    \* forcedExitsForNextOpen
    deferred,    \* deferredRebalanceBuys
    unresolved,  \* unresolvedForcedExitSymbols
    awaiting,    \* buysAwaitingForcedExitAttempt
    ready,       \* deferredBuysWereReadyBeforeOpen
    promoted,    \* promotedBuySymbolsThisBar
    retired,     \* retiredSymbols
    maxPositions,
    dry,         \* symbols whose volume limit is used up today
    asked,       \* symbols the strategy has asked an order for today
    untried      \* history: forced exits no open has tried to fill yet

calendar == <<day, bars, retired, ready, maxPositions>>
schedule == <<members, activated, rebalance>>
holdings == <<position, basis>>
exits == <<unresolved, awaiting, untried>>
bar == <<promoted, dry, asked>>
vars == <<phase, calendar, schedule, holdings, pending, queue, nextOpen, deferred, exits, bar>>

Orders == [symbol : Symbols, side : {"BUY", "SELL"}, quantity : Nat \ {0},
           exit : BOOLEAN,      \* reason = "REBALANCE_EXIT"
           placed : Nat]        \* the day of the order

Order(s, side, q, exit) ==
    [symbol |-> s, side |-> side, quantity |-> q, exit |-> exit, placed |-> day]

Smaller(m, n) == IF m <= n THEN m ELSE n
Held == {s \in Symbols : position[s] > 0}
SymbolsOf(orders) == {o.symbol : o \in orders}
Buys(orders) == {o \in orders : o.side = "BUY"}
Sells(orders) == {o \in orders : o.side = "SELL"}
Without(orders, S) == {o \in orders : o.symbol \notin S}

EngineInit ==
    /\ phase = "closed" /\ day = 0 /\ bars = {}
    /\ members \in SUBSET Symbols /\ activated = 0 /\ rebalance = FALSE
    /\ position = [s \in Symbols |-> 0] /\ basis = [s \in Symbols |-> 0]
    /\ pending = {} /\ queue = {} /\ nextOpen = {} /\ deferred = {}
    /\ unresolved = {} /\ awaiting = FALSE /\ untried = {}
    /\ ready = FALSE /\ retired = {} /\ maxPositions \in Caps
    /\ promoted = {} /\ dry = {} /\ asked = {}

-----------------------------------------------------------------------------
(* The morning: delistings, corporate actions, the schedule.               *)

\* Mutant: the buys that were put off are not searched for delisted symbols.
StartDayKeepsDeferred(D, B) ==
    /\ phase = "closed" /\ day < LastDay
    /\ D \cap retired = {} /\ Cardinality(retired \cup D) <= MaxDelistings
    /\ B \cap (retired \cup D) = {}
    /\ IF B = {} THEN D # {} ELSE Cardinality(Symbols \ (retired \cup D \cup B)) <= MaxHalted
    /\ day' = day + 1
    /\ bars' = B
    /\ retired' = retired \cup D
    /\ position' = [s \in Symbols |-> IF s \in D THEN 0 ELSE position[s]]
    /\ pending' = Without(pending, D)
    /\ unresolved' = unresolved \ D
    /\ untried' = untried \ D
    /\ awaiting' = (awaiting /\ (D = {} \/ unresolved' # {}))
    /\ ready' = (~ awaiting' /\ deferred # {})
    /\ phase' = IF B = {} THEN "closed" ELSE "adjust"
    /\ UNCHANGED <<maxPositions, schedule, basis, queue, nextOpen, deferred, bar>>

(* D is delisted today. What is held of it is sold at its last price, every *)
(* order for it is dropped, and it never comes back. A day without any bar  *)
(* is over with that: it counts neither as an attempt to sell nor as an     *)
(* open for those who wait. (One without a delisting changes nothing.)      *)
StartDay(D, B) ==
    /\ phase = "closed" /\ day < LastDay
    /\ D \cap retired = {} /\ Cardinality(retired \cup D) <= MaxDelistings
    /\ B \cap (retired \cup D) = {}
    /\ IF B = {} THEN D # {} ELSE Cardinality(Symbols \ (retired \cup D \cup B)) <= MaxHalted
    /\ day' = day + 1
    /\ bars' = B
    /\ retired' = retired \cup D
    /\ position' = [s \in Symbols |-> IF s \in D THEN 0 ELSE position[s]]
    /\ pending' = Without(pending, D)
    /\ deferred' = Without(deferred, D)
    /\ unresolved' = unresolved \ D
    /\ untried' = untried \ D
    /\ awaiting' = (awaiting /\ (D = {} \/ unresolved' # {}))
    /\ ready' = (~ awaiting' /\ deferred' # {})
    /\ phase' = IF B = {} THEN "closed" ELSE "adjust"
    /\ UNCHANGED <<maxPositions, schedule, basis, queue, nextOpen, bar>>

(* Symbols with a bar whose split took effect after the bar their quantity  *)
(* is counted in: a symbol that did not trade catches up later.             *)
DueSplits == {s \in bars : basis[s] < Split[s].day /\ Split[s].day <= day}

Scaled(q, s) ==
    IF s \in DueSplits THEN (q * Split[s].times) \div Split[s].by ELSE q

\* Mutant: orders keep the quantity they were given.
UnscaledOrders(orders) == orders

ScaledOrders(orders) ==
    {o \in {[x EXCEPT !.quantity = Scaled(x.quantity, x.symbol)] : x \in orders} : o.quantity > 0}

ApplyCorporateActions ==
    /\ phase = "adjust" /\ phase' = "rebalance"
    /\ position' = [s \in Symbols |-> Scaled(position[s], s)]
    /\ pending' = ScaledOrders(pending)
    /\ deferred' = ScaledOrders(deferred)
    /\ basis' = [s \in Symbols |-> IF s \in bars THEN day ELSE basis[s]]
    /\ UNCHANGED <<calendar, schedule, queue, nextOpen, exits, bar>>

(* deferBuy: one order per symbol waits.                                    *)
Deferred(orders) == Without(deferred, SymbolsOf(orders)) \cup orders

EntriesBegun == {d \in EntryDays : activated < d /\ d <= day}

NoRebalance ==
    /\ phase = "rebalance" /\ EntriesBegun = {}
    /\ phase' = "preopen"
    /\ UNCHANGED <<calendar, schedule, holdings, pending, queue, nextOpen, deferred, exits, bar>>

(* The members become M; those of the first entry are members from the      *)
(* beginning. Who is held and is not a member leaves as a whole,            *)
(* at this open if a sale was already waiting for it, else at the next one. *)
(* Who is a member again stays. Buys of others than members are dropped,    *)
(* and where someone leaves, the buys wait until that was tried.            *)
Rebalance(M) ==
    LET readmitted == unresolved \cap M
        leaving == Held \ M
        new == leaving \ unresolved
        kept == {o \in pending : ~ (o.symbol \in readmitted /\ o.exit)}
        eligible == SymbolsOf(Sells(kept))
        ExitsOf(S) == {Order(s, "SELL", position[s], TRUE) : s \in S}
        selling == {o \in Sells(kept) : o.symbol \notin leaving} \cup ExitsOf(leaving \cap eligible)
        buying == {o \in Buys(kept) : o.symbol \in M}
    IN  /\ phase = "rebalance" /\ EntriesBegun # {}
        /\ activated = 0 /\ Cardinality(EntriesBegun) = 1 => M = members
        /\ phase' = "preopen" /\ rebalance' = TRUE
        /\ members' = M /\ activated' = day
        /\ nextOpen' = ExitsOf(leaving \ eligible)
        /\ unresolved' = (unresolved \ readmitted) \cup leaving
        /\ awaiting' = (awaiting \/ new # {})
        /\ untried' = (untried \ readmitted) \cup new
        /\ pending' = IF awaiting' THEN selling ELSE selling \cup buying
        /\ deferred' = LET waiting == {o \in deferred : o.symbol \in M}
                       IN  IF awaiting' THEN Without(waiting, SymbolsOf(buying)) \cup buying
                                        ELSE waiting
        /\ UNCHANGED <<calendar, holdings, queue, bar>>

-----------------------------------------------------------------------------
(* Deferred buys come back to the queue, before or after an open.          *)

NewBuys == {s \in SymbolsOf(Buys(pending)) : position[s] = 0}

\* Mutant: buys that wait have no slot.
HasRoomBesideHeld(s) == s \in Held \/ Cardinality(Held) < maxPositions

(* The cap of validateOrder: a buy that waits already has a slot.           *)
HasRoom(s) ==
    \/ s \in Held \cup NewBuys
    \/ Cardinality(Held) + Cardinality(NewBuys) < maxPositions

MayPromote ==
    /\ ~ awaiting /\ deferred # {}
    /\ \/ phase = "preopen" /\ ready
       \/ phase \in {"postopen", "close"}

PromoteDeferredBuy(o) ==
    /\ MayPromote /\ o \in deferred
    /\ deferred' = deferred \ {o}
    /\ IF o.symbol \in members \ retired /\ HasRoom(o.symbol)
       THEN pending' = pending \cup {o} /\ promoted' = promoted \cup {o.symbol}
       ELSE UNCHANGED <<pending, promoted>>
    /\ UNCHANGED <<phase, calendar, schedule, holdings, queue, nextOpen, exits, dry, asked>>

-----------------------------------------------------------------------------
(* The open: the orders of the days before are filled.                     *)

Open ==
    /\ phase = "preopen" /\ ~ MayPromote
    /\ phase' = "fill"
    /\ queue' = pending /\ pending' = {} /\ ready' = FALSE
    /\ UNCHANGED <<day, bars, retired, maxPositions, schedule, holdings, nextOpen, deferred, exits, bar>>

Waits(o) ==
    /\ phase = "fill" /\ o \in queue
    /\ queue' = queue \ {o}
    /\ \/ o.side = "BUY" /\ awaiting
          /\ deferred' = Deferred({o}) /\ UNCHANGED pending
       \/ ~ (o.side = "BUY" /\ awaiting) /\ o.symbol \notin bars
          /\ pending' = pending \cup {o} /\ UNCHANGED deferred
    /\ UNCHANGED <<phase, calendar, schedule, holdings, nextOpen, exits, bar>>

(* A buy is filled as far as the cash and the volume limit allow; the rest  *)
(* is dropped.                                                              *)
FillBuy(o, filled) ==
    /\ phase = "fill" /\ o \in queue
    /\ o.side = "BUY" /\ ~ awaiting /\ o.symbol \in bars
    /\ filled \in 0..o.quantity
    /\ o.symbol \in dry => filled = 0
    /\ queue' = queue \ {o}
    /\ position' = [position EXCEPT ![o.symbol] = @ + filled]
    /\ UNCHANGED <<phase, calendar, schedule, basis, pending, nextOpen, deferred, exits, bar>>

(* A sale is filled as far as the volume limit allows; the rest waits. What *)
(* is left of an exit is whatever is still held.                            *)
FillSell(o, filled) ==
    LET s == o.symbol
        left == position[s] - filled
        rest == IF o.exit THEN left ELSE Smaller(left, o.quantity - filled)
    IN  /\ phase = "fill" /\ o \in queue
        /\ o.side = "SELL" /\ s \in bars
        /\ filled \in 0..Smaller(o.quantity, position[s])
        /\ s \in dry => filled = 0
        /\ queue' = queue \ {o}
        /\ position' = [position EXCEPT ![s] = left]
        /\ dry' = IF filled < Smaller(o.quantity, position[s]) THEN dry \cup {s} ELSE dry
        /\ pending' = IF rest > 0 THEN pending \cup {[o EXCEPT !.quantity = rest]} ELSE pending
        /\ unresolved' = IF o.exit /\ left = 0 THEN unresolved \ {s} ELSE unresolved
        /\ untried' = untried \cap unresolved'
        /\ UNCHANGED <<phase, calendar, schedule, basis, nextOpen, deferred, awaiting, promoted, asked>>

\* Mutant: buys wait until every exit has been filled (the engine before 1.8.0).
EndOpenWaitsForFills ==
    LET gone == unresolved \ Held
    IN  /\ phase = "fill" /\ queue = {}
        /\ phase' = "postopen"
        /\ pending' = {o \in pending \cup nextOpen : ~ (o.symbol \in gone /\ o.exit)}
        /\ unresolved' = unresolved \ gone
        /\ untried' = SymbolsOf(nextOpen) \ gone
        /\ awaiting' = (awaiting /\ unresolved' # {})
        /\ nextOpen' = {} /\ dry' = {}
        /\ UNCHANGED <<calendar, schedule, holdings, queue, deferred, promoted, asked>>

\* Mutant: the first open after the rebalance ends the wait, also for today's exits.
EndOpenEndsTheWait ==
    LET gone == unresolved \ Held
    IN  /\ phase = "fill" /\ queue = {}
        /\ phase' = "postopen"
        /\ pending' = {o \in pending \cup nextOpen : ~ (o.symbol \in gone /\ o.exit)}
        /\ unresolved' = unresolved \ gone
        /\ untried' = SymbolsOf(nextOpen) \ gone
        /\ awaiting' = FALSE
        /\ nextOpen' = {} /\ dry' = {}
        /\ UNCHANGED <<calendar, schedule, holdings, queue, deferred, promoted, asked>>

(* Every order had its turn: the exits of today wait for the next open, and *)
(* unless there are any, whoever waited for an exit waits no more.          *)
EndOpen ==
    LET gone == unresolved \ Held
    IN  /\ phase = "fill" /\ queue = {}
        /\ phase' = "postopen"
        /\ pending' = {o \in pending \cup nextOpen : ~ (o.symbol \in gone /\ o.exit)}
        /\ unresolved' = unresolved \ gone
        /\ untried' = SymbolsOf(nextOpen) \ gone
        /\ awaiting' = (awaiting /\ nextOpen # {})
        /\ nextOpen' = {} /\ dry' = {}
        /\ UNCHANGED <<calendar, schedule, holdings, queue, deferred, promoted, asked>>

-----------------------------------------------------------------------------
(* The strategy. What it asks for on the last day no open fills: left out. *)

Decide ==
    /\ phase = "postopen" /\ ~ MayPromote
    /\ phase' = "decide"
    /\ UNCHANGED <<calendar, schedule, holdings, pending, queue, nextOpen, deferred, exits, bar>>

\* Mutant: a buy that was promoted today stays beside the new one.
AskToBuyAgain(s) ==
    LET late == rebalance \/ awaiting
        o == Order(s, "BUY", Lot, FALSE)
    IN  /\ phase = "decide" /\ s \notin asked /\ day < LastDay
        /\ s \in (members \cap bars) \ retired
        /\ late \/ HasRoom(s)
        /\ asked' = asked \cup {s}
        /\ pending' = IF late THEN pending ELSE pending \cup {o}
        /\ deferred' = IF late THEN Deferred({o}) ELSE deferred
        /\ basis' = [basis EXCEPT ![s] = IF @ = 0 THEN day ELSE @]
        /\ UNCHANGED <<phase, calendar, schedule, position, queue, nextOpen, exits, promoted, dry>>

(* A buy that validateOrder lets through. On the day of a rebalance, and    *)
(* while an exit has not been tried, it is put off. A buy that was promoted *)
(* today gives way to it.                                                   *)
AskToBuy(s) ==
    LET late == rebalance \/ awaiting
        o == Order(s, "BUY", Lot, FALSE)
        others == IF s \in promoted THEN pending \ {x \in Buys(pending) : x.symbol = s} ELSE pending
    IN  /\ phase = "decide" /\ s \notin asked /\ day < LastDay
        /\ s \in (members \cap bars) \ retired
        /\ late \/ HasRoom(s)
        /\ asked' = asked \cup {s}
        /\ pending' = IF late THEN others ELSE others \cup {o}
        /\ deferred' = IF late THEN Deferred({o}) ELSE deferred
        /\ basis' = [basis EXCEPT ![s] = IF @ = 0 THEN day ELSE @]
        /\ UNCHANGED <<phase, calendar, schedule, position, queue, nextOpen, exits, promoted, dry>>

(* A sale of what is held. An order of the engine replaces those for a      *)
(* symbol that has to leave. planSellPhase gives its sales the engine's     *)
(* reason.                                                                  *)
AskToSell(s, q, exit) ==
    /\ phase = "decide" /\ s \notin asked /\ day < LastDay
    /\ s \in Held \ unresolved
    /\ q \in 1..position[s] /\ (exit => q = position[s])
    /\ asked' = asked \cup {s}
    /\ pending' = pending \cup {Order(s, "SELL", q, exit)}
    /\ UNCHANGED <<phase, calendar, schedule, holdings, queue, nextOpen, deferred, exits, promoted, dry>>

(* What is local to one day ends with its last use.                         *)
EndDecision ==
    /\ phase = "decide" /\ phase' = "close"
    /\ rebalance' = FALSE /\ asked' = {}
    /\ UNCHANGED <<calendar, members, activated, holdings, pending, queue, nextOpen, deferred, exits, promoted, dry>>

EndDay ==
    /\ phase = "close" /\ ~ MayPromote
    /\ phase' = "closed" /\ promoted' = {}
    /\ UNCHANGED <<calendar, schedule, holdings, pending, queue, nextOpen, deferred, exits, dry, asked>>

-----------------------------------------------------------------------------
(* shouldCancel, between two days.                                          *)
Cancel ==
    /\ phase = "closed" /\ day < LastDay
    /\ phase' = "cancelled"
    /\ UNCHANGED <<calendar, schedule, holdings, pending, queue, nextOpen, deferred, exits, bar>>

(* assertHeldPositionBarsAvailable: the bar of a held symbol is missing and *)
(* nothing says that it did not trade. Members are checked before the run.  *)
PricesMissing ==
    /\ \/ phase = "adjust"
       \/ phase = "closed" /\ bars = {}
    /\ Held \ (bars \cup members) # {}
    /\ phase' = "failed"
    /\ UNCHANGED <<calendar, schedule, holdings, pending, queue, nextOpen, deferred, exits, bar>>

Next ==
    \/ \E D, B \in SUBSET Symbols : StartDay(D, B)
    \/ ApplyCorporateActions
    \/ NoRebalance
    \/ \E M \in SUBSET Symbols : Rebalance(M)
    \/ \E o \in deferred : PromoteDeferredBuy(o)
    \/ Open
    \/ \E o \in queue : Waits(o)
    \/ \E o \in queue : \E q \in 0..o.quantity : FillBuy(o, q) \/ FillSell(o, q)
    \/ EndOpen
    \/ Decide
    \/ \E s \in Symbols : AskToBuy(s)
    \/ \E s \in Symbols : \E q \in 1..position[s], exit \in BOOLEAN : AskToSell(s, q, exit)
    \/ EndDecision
    \/ EndDay
    \/ Cancel
    \/ PricesMissing

Spec == EngineInit /\ [][Next]_vars

-----------------------------------------------------------------------------
(* Properties.                                                             *)

TypeOK ==
    /\ phase \in {"closed", "adjust", "rebalance", "preopen", "fill", "postopen",
                  "decide", "close", "cancelled", "failed"}
    /\ maxPositions \in Caps
    /\ day \in 0..LastDay /\ activated \in 0..LastDay
    /\ basis \in [Symbols -> 0..LastDay]
    /\ position \in [Symbols -> Nat]
    /\ \A S \in {bars, members, unresolved, untried, promoted, retired, dry, asked} :
         S \subseteq Symbols
    /\ \A S \in {pending, queue, nextOpen, deferred} : S \subseteq Orders
    /\ \A b \in {rebalance, awaiting, ready} : b \in BOOLEAN

\* No more symbols are held than the user allows, although buys are put off past
\* the check of the cap, come back after it, and wait for symbols that do not trade.
CapHolds == Cardinality(Held) <= maxPositions

\* The symbols held from outside the universe are those on their way out, and each
\* has one sale waiting, for all that is held of it: through splits, partial fills,
\* days without trade, and entries that put it back and out again.
OutcastsAreLeaving ==
    phase \in {"preopen", "decide", "close", "closed"} =>
      /\ unresolved \cap Held = Held \ members
      /\ \A s \in Held \ members : \E o \in Sells(pending \cup nextOpen) :
           /\ o.exit /\ o.quantity = position[s]
           /\ {x \in Sells(pending \cup nextOpen) : x.symbol = s} = {o}

\* Nothing is bought at an open while a sale that the universe demands was not tried
\* at any open.
BuysWaitForExits ==
    [][ phase = "fill" /\ (\E s \in Symbols : position'[s] > position[s]) => untried = {} ]_vars

\* A buy is only put off for such a sale: at the end of a day with trade none is left
\* behind, however exits were called off, delisted or could not be filled.
BuysAreNotForgotten ==
    phase = "closed" /\ bars # {} /\ deferred # {} => untried # {}

\* Of one symbol one buy waits at most: one that was put off and asked for again is
\* not bought twice.
OneBuyPerSymbol ==
    \A o, x \in Buys(pending) \cup queue \cup deferred :
        o.side = "BUY" /\ x.side = "BUY" /\ o.symbol = x.symbol => o = x

\* A delisted code, which may be another company's by now, is never held, ordered or
\* waited for again.
RetiredAreGone ==
    retired \cap (Held \cup unresolved \cup SymbolsOf(pending \cup queue \cup nextOpen \cup deferred)) = {}
=============================================================================
