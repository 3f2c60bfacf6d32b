----------------------------- MODULE MCAnalysis -----------------------------
(* Instances of Analysis for TLC. *)
EXTENDS Analysis

MCSymbols == 1..3

MCDates == 1..2

\* KRX narrows three symbols to two, DART two to one, and the price rules; or KRX has
\* the last word.
MCRules == {<<[criterion |-> "MARKET_CAP", limit |-> 2], [criterion |-> "PER", limit |-> 1],
              [criterion |-> "DECLINE", limit |-> 1]>>,
            <<[criterion |-> "ROE", limit |-> 2], [criterion |-> "TRADING_VALUE", limit |-> 1]>>}

MCStrategy == [financial |-> TRUE, fields |-> FALSE, actions |-> TRUE]

MCWorlds ==
    {w \in [listed : {<<{1, 2, 3}, {1, 2, 3}>>, <<{1, 2, 3}, {1, 2}>>},
            unclassified : {<<{}, {}>>, <<{}, {3}>>},
            cap : {<<<<3, 3, 1>>, <<3, 2, 4>>>>, <<<<3, 0, 1>>, <<1, 2, 3>>>>},
            income : {<<2, 3, 1>>, <<0, 4, 4>>},
            fall : {<<1, 2, 3>>},
            short : {<<{}, {}>>, <<{1, 2}, {}>>},
            faulty : {{}, {2}},
            torn : {{}, {1}},
            holes : {{}, {2}}] :
       /\ Cardinality(w.faulty) + Cardinality(w.torn) + Cardinality(w.holes) <= 1
       /\ \A d \in MCDates : w.listed[d] \cap w.unclassified[d] = {}}

\* Nothing, or the market capitalisations that a migration brought along.
MCStores == {{}, {<<"DAY", 1>>, <<"CAP", 1>>}}

MCOthers == {<<"DAY", 2>>, <<"FINANCIAL", 1>>, <<"ACTION", 2>>, <<"PRICE", 1>>}
=============================================================================
