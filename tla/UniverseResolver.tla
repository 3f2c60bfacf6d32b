-------------------------- MODULE UniverseResolver --------------------------
(***************************************************************************)
(* What resolveOrDescribeNeeds of universe-rule-resolver.ts makes of the   *)
(* data that have been collected so far: the members of the universe at    *)
(* every rebalancing date and the symbols to be excluded for good, or what *)
(* has to be collected first.                                              *)
(*                                                                         *)
(* `w` is what the providers have, whether it was collected or not:        *)
(*   listed[d]        common stocks of the rule's markets that trade       *)
(*   unclassified[d]  listed symbols whose classification is missing       *)
(*   cap[d][s]        what KRX publishes of a symbol, 0 if nothing         *)
(*   income[s]        earnings, 0 if none or negative                      *)
(*   fall[s]          how far the price fell                               *)
(*   short[d]         symbols with fewer bars than DECLINE looks back      *)
(*   faulty           symbols whose reports contradict each other          *)
(*   torn             symbols with capital changes that cannot be applied  *)
(* `data` is a set of pairs, what has been collected of which date or      *)
(* symbol.  The symbols are numbered in the order of their codes, and a    *)
(* value is the better the higher it is, whatever the direction of the     *)
(* stage.                                                                  *)
(***************************************************************************)
EXTENDS Integers, Sequences, FiniteSets, FiniteSetsExt

CONSTANTS Symbols,   \* short codes
          Dates      \* rebalancing dates

\* VOLUME is ranked like TRADING_VALUE.
Criteria == {"MARKET_CAP", "TRADING_VALUE", "PER", "ROE", "DECLINE"}

ASSUME ResolverAssumption ==
    /\ Symbols \subseteq Nat /\ IsFiniteSet(Symbols)
    /\ Dates \subseteq Nat \ {0} /\ IsFiniteSet(Dates)

IsRule(rule) == rule \in Seq([criterion : Criteria, limit : Nat \ {0}])

\* Symbols of which `kind` was collected.
With(data, kind) == {s \in Symbols : <<kind, s>> \in data}

Ingested(data, d) == <<"METRIC", d>> \in data

\* Market capitalisations of old dates came with a migration, the rest of that row did not.
Cap(w, data, d, s) == IF Ingested(data, d) \/ <<"CAP", d>> \in data THEN w.cap[d][s] ELSE 0

Traded(w, data, d, s) == IF Ingested(data, d) THEN w.cap[d][s] ELSE 0

-----------------------------------------------------------------------------
(* A stage over the candidates C of date d; `u` when an earlier stage of   *)
(* the date is unresolved.  `out` are symbols to be excluded for good.     *)

\* Mutant: a value that is missing is asked for whether its date was collected or not.
KrxStageAnyBlank(criterion, C, u, w, data, d) ==
    LET value == [s \in C |-> Cap(w, data, d, s)]
        blank == {s \in C : value[s] = 0}
    IN  [ready |-> blank = {}, failed |-> FALSE, value |-> value,
         needs |-> IF blank = {} THEN {} ELSE {<<"METRIC", d>>}, out |-> {}]

KrxStage(criterion, C, u, w, data, d) ==
    LET value == [s \in C |-> IF criterion = "MARKET_CAP" THEN Cap(w, data, d, s)
                              ELSE Traded(w, data, d, s)]
        blank == {s \in C : value[s] = 0}
        ready == Ingested(data, d) \/ (criterion = "MARKET_CAP" /\ blank = {})
    IN  [ready |-> ready, failed |-> FALSE, value |-> value,
         needs |-> IF ready THEN {} ELSE {<<"METRIC", d>>},
         out |-> IF ready /\ ~ u THEN blank ELSE {}]

DartStage(criterion, C, u, w, data, d) ==
    LET missing  == C \ With(data, "FINANCIAL")
        uncapped == {s \in C : criterion = "PER" /\ Cap(w, data, d, s) = 0}
        capNeed  == uncapped # {} /\ ~ Ingested(data, d)
        ready    == missing = {} /\ ~ capNeed
    IN  [ready |-> ready,
         failed |-> (C \ missing) \cap w.faulty # {},
         value |-> [s \in C |-> IF s \in missing \cup uncapped THEN 0
                                ELSE IF criterion = "ROE" THEN w.income[s]
                                ELSE (100 * w.income[s]) \div Cap(w, data, d, s)],
         needs |-> {<<"FINANCIAL", s>> : s \in missing}
                   \cup (IF capNeed THEN {<<"METRIC", d>>} ELSE {}),
         out |-> IF ready /\ ~ u THEN uncapped ELSE {}]

\* Candidates without enough bars before date d.
Absent(C, w, data, d) == IF <<"PRICE", d>> \in data THEN C \cap w.short[d] ELSE C

Declines(C, unranked, w) == [s \in C |-> IF s \in unranked THEN 0 ELSE w.fall[s]]

PriceStage(C, u, w, data, d) ==
    LET absent == Absent(C, w, data, d)
        fetch  == absent # {} /\ <<"PRICE", d>> \notin data
        acting == IF fetch THEN C ELSE C \ absent
        needed == acting \ With(data, "ACTION")
        torn   == (acting \ needed) \cap w.torn
        known  == ~ fetch /\ needed = {}
        lost   == IF known /\ ~ u THEN torn ELSE {}
    IN  [ready |-> known /\ (torn = {} \/ ~ u), failed |-> FALSE,
         value |-> Declines(C, absent \cup lost, w),
         needs |-> {<<"ACTION", s>> : s \in needed} \cup (IF fetch THEN {<<"PRICE", d>>} ELSE {}),
         out |-> lost \cup (IF ~ fetch /\ ~ u THEN absent ELSE {})]

IsKrx(criterion) == criterion \in {"MARKET_CAP", "TRADING_VALUE"}

Stage(criterion, C, u, w, data, d) ==
    IF IsKrx(criterion) THEN KrxStage(criterion, C, u, w, data, d)
    ELSE IF criterion = "DECLINE" THEN PriceStage(C, u, w, data, d)
    ELSE DartStage(criterion, C, u, w, data, d)

-----------------------------------------------------------------------------

\* The order of a ranking: by value, then by code.
Precedes(value, s, t) == value[s] > value[t] \/ (value[s] = value[t] /\ s < t)

\* Mutant: the first behind the limit is taken, too.
SelectedOneMore(value, limit) ==
    LET eligible == {s \in DOMAIN value : value[s] > 0}
    IN  {s \in eligible : Cardinality({t \in eligible : Precedes(value, t, s)}) <= limit}

\* rankUniverseStage: the first `limit` of those with a value.
Selected(value, limit) ==
    LET eligible == {s \in DOMAIN value : value[s] > 0}
    IN  {s \in eligible : Cardinality({t \in eligible : Precedes(value, t, s)}) < limit}

\* The candidates after a stage with the outcome `r`.  Behind an unresolved stage they
\* are an upper bound, which only an empty selection can lower.
Candidates(st, r, limit) ==
    IF ~ r.ready THEN st.candidates
    ELSE IF ~ st.unresolved THEN Selected(r.value, limit)
    ELSE IF Selected(r.value, limit) = {} THEN {} ELSE st.candidates

\* Nothing is asked of DART or of the price history while KRX may still narrow the
\* candidates.
IsCutOff(criterion, r) == ~ r.ready /\ IsKrx(criterion)

AfterStage(st, stage, w, data, d) ==
    IF st.candidates = {} \/ st.cut \/ st.failed THEN {st}
    ELSE {[candidates |-> Candidates(st, r, stage.limit),
           unresolved |-> st.unresolved \/ ~ r.ready,
           cut |-> IsCutOff(stage.criterion, r), failed |-> r.failed,
           needs |-> st.needs \cup r.needs, out |-> st.out \cup r.out]
            : r \in {Stage(stage.criterion, st.candidates, st.unresolved, w, data, d)}}

Start(w, excluded, d) ==
    [candidates |-> w.listed[d] \ excluded, unresolved |-> FALSE, cut |-> FALSE,
     failed |-> FALSE, needs |-> {}, out |-> w.unclassified[d]]

AfterStages(rule, w, data, excluded, d) ==
    LET after[n \in 0..Len(rule)] ==
          IF n = 0 THEN {Start(w, excluded, d)}
          ELSE UNION {AfterStage(st, rule[n], w, data, d) : st \in after[n - 1]}
    IN  after

\* Needs of a date on which nothing can be selected are dropped.
AtDate(rule, w, data, excluded, d) ==
    IF <<"DAY", d>> \notin data
    THEN [candidates |-> {}, needs |-> {<<"METRIC", d>>}, out |-> {}, failed |-> FALSE]
    ELSE CHOOSE end \in {[candidates |-> st.candidates, failed |-> st.failed, out |-> st.out,
                          needs |-> IF st.candidates = {} THEN {} ELSE st.needs]
                            : st \in AfterStages(rule, w, data, excluded, d)[Len(rule)]} : TRUE

\* resolveOrDescribeNeeds
Resolve(rule, w, data, excluded) ==
    LET at == [d \in Dates |-> AtDate(rule, w, data, excluded, d)]
        needs == UNION {at[d].needs : d \in Dates}
    IN  [kind |-> IF \E d \in Dates : at[d].failed THEN "FAILED"
                  ELSE IF needs = {} THEN "READY" ELSE "NEEDS_DATA",
         needs |-> needs,
         out |-> UNION {at[d].out : d \in Dates},
         schedule |-> [d \in Dates |-> at[d].candidates]]
=============================================================================
