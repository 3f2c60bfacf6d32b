------------------------------ MODULE Analysis ------------------------------
(***************************************************************************)
(* One preparation on its way from lease to lease: an agent analyses a     *)
(* published version of the data until it needs something, the server      *)
(* collects that and publishes again, and the next lease starts from the   *)
(* beginning on the newer version (runClaimedJob and resolveUntilReady of  *)
(* backtest-preparation-orchestrator.ts, with the sources of               *)
(* preparation-runtime.ts).  Leases are lost, and other preparations have  *)
(* data collected.  Queues and versions are modelled in Preparation; here  *)
(* a version is what had been collected when the lease began.              *)
(***************************************************************************)
EXTENDS UniverseResolver

CONSTANTS Rules,       \* universes somebody may ask for
          Worlds,      \* what the providers may have
          Stores,      \* what may have been collected before
          Others,      \* what other preparations may have collected
          Strategy,    \* [financial, fields, actions]: the data the strategy reads
          MaxOthers,   \* bound: collections of others
          MaxLost      \* bound: lost leases

ASSUME AnalysisAssumption ==
    /\ \A rule \in Rules : IsRule(rule)
    /\ Strategy \in [financial : BOOLEAN, fields : BOOLEAN, actions : BOOLEAN]
    /\ MaxOthers \in Nat /\ MaxLost \in Nat

World ==
    [listed : [Dates -> SUBSET Symbols], unclassified : [Dates -> SUBSET Symbols],
     cap : [Dates -> [Symbols -> Nat]], income : [Symbols -> Nat], fall : [Symbols -> Nat],
     short : [Dates -> SUBSET Symbols],
     faulty : SUBSET Symbols, torn : SUBSET Symbols, holes : SUBSET Symbols]

ASSUME WorldsAssumption == Worlds \subseteq World

VARIABLES rule,    \* the stages of the universe
          world,   \* what the providers have
          store,   \* what has been collected
          job,     \* the preparation and its lease
          others,  \* collections of others so far
          lost     \* leases lost so far

vars == <<rule, world, store, job, others, lost>>

\* The days of the backtest itself, beside the histories before its dates.
Period == 0

NoSchedule == [d \in Dates |-> {}]

Members(schedule) == UNION {schedule[d] : d \in Dates}

Keyed(kind, K) == {<<kind, k>> : k \in K}

\* A collection of the market stores more of a day than was asked for, and one of
\* reports the capital changes of the same years.
Collected(request) ==
    request \cup {<<"METRIC", q[2]>> : q \in {p \in request : p[1] = "DAY"}}
            \cup {<<"ACTION", q[2]>> : q \in {p \in request : p[1] = "FINANCIAL"}}

Init ==
    /\ rule \in Rules /\ world \in Worlds /\ store \in Stores
    /\ job = [at |-> "QUEUED", data |-> {}, excluded |-> {}, schedule |-> NoSchedule,
              request |-> {}, why |-> "NONE"]
    /\ others = 0 /\ lost = 0

-----------------------------------------------------------------------------
(* What is asked for.                                                      *)

\* The first of the kinds of which something is missing.
FirstMissing(requests, data) ==
    LET open == {i \in DOMAIN requests : requests[i] \ data # {}}
    IN  IF open = {} THEN {} ELSE requests[Min(open)] \ data

\* requestMissingRegistrations
Registration(S, data) == Keyed("REGISTER", S \ With(data, "REGISTER"))

\* resolveUntilReady: the market first, as it may narrow whose reports are needed.
\* Prices are asked for over the whole range from the first to the last date.
Request(needs, data) ==
    LET metrics   == {d \in Dates : <<"METRIC", d>> \in needs}
        prices    == {d \in Dates : <<"PRICE", d>> \in needs}
        range     == {d \in Dates : (\E e \in prices : e <= d) /\ (\E e \in prices : d <= e)}
        financial == {s \in Symbols : <<"FINANCIAL", s>> \in needs}
        actions   == {s \in Symbols : <<"ACTION", s>> \in needs}
    IN  IF metrics \cup prices # {}
        THEN FirstMissing(<<Keyed("DAY", metrics) \cup Keyed("PRICE", range),
                            Keyed("METRIC", metrics)>>, data)
        ELSE FirstMissing(<<Registration(financial \cup actions, data),
                            Keyed("FINANCIAL", financial), Keyed("ACTION", actions)>>, data)

\* The data with which a backtest of `schedule` will be run.
FinalRequest(schedule, data) ==
    LET M == Members(schedule)
    IN  FirstMissing(<<Registration(M, data), {<<"PRICE", Period>>},
                       IF Strategy.financial THEN Keyed("FINANCIAL", M) ELSE {},
                       IF Strategy.actions THEN Keyed("ACTION", M) ELSE {}>>, data)

\* Members with which a backtest cannot be run although everything was collected.
Unusable(w, schedule) ==
    Members(schedule) \cap (w.holes \cup (IF Strategy.actions THEN w.torn ELSE {})
                            \cup (IF Strategy.financial /\ ~ Strategy.fields THEN w.faulty ELSE {}))

-----------------------------------------------------------------------------
(* The agent.                                                              *)

Fail(why) == job' = [job EXCEPT !.at = "FAILED", !.why = why]

\* A request of what the version has is a gap that no collection closes.
NeedsData(request) ==
    IF request = {} THEN Fail("REPEATED")
    ELSE job' = [job EXCEPT !.at = "WAITING", !.request = request]

Claim ==
    /\ job.at = "QUEUED"
    /\ job' = [job EXCEPT !.at = "RESOLVING", !.data = store, !.excluded = {},
                          !.schedule = NoSchedule, !.request = {}]
    /\ UNCHANGED <<rule, world, store, others, lost>>

\* Mutant: what a pass excludes is taken out after the schedule was made.
ResolvePassOnce ==
    /\ job.at = "RESOLVING"
    /\ \E r \in {Resolve(rule, world, job.data, job.excluded)} :
         CASE r.kind = "FAILED" -> Fail("FAULT")
           [] r.kind = "NEEDS_DATA" -> NeedsData(Request(r.needs, job.data))
           [] r.kind = "READY" ->
                job' = [job EXCEPT !.at = "FINISHING", !.excluded = @ \cup r.out,
                                   !.schedule = r.schedule]
    /\ UNCHANGED <<rule, world, store, others, lost>>

\* Mutant: a pass forgets what was excluded before.
ResolvePassForgets ==
    /\ job.at = "RESOLVING"
    /\ \E r \in {Resolve(rule, world, job.data, job.excluded)} :
         CASE r.kind = "FAILED" -> Fail("FAULT")
           [] r.kind = "NEEDS_DATA" -> NeedsData(Request(r.needs, job.data))
           [] r.kind = "READY" ->
                job' = [job EXCEPT !.at = IF r.out \subseteq job.excluded THEN "FINISHING" ELSE @,
                                   !.excluded = r.out, !.schedule = r.schedule]
    /\ UNCHANGED <<rule, world, store, others, lost>>

\* A pass of resolveUntilReady: what it excludes is taken out on every date.
ResolvePass ==
    /\ job.at = "RESOLVING"
    /\ \E r \in {Resolve(rule, world, job.data, job.excluded)} :
         CASE r.kind = "FAILED" -> Fail("FAULT")
           [] r.kind = "NEEDS_DATA" -> NeedsData(Request(r.needs, job.data))
           [] r.kind = "READY" ->
                job' = [job EXCEPT !.at = IF r.out \subseteq job.excluded THEN "FINISHING" ELSE @,
                                   !.excluded = @ \cup r.out, !.schedule = r.schedule]
    /\ UNCHANGED <<rule, world, store, others, lost>>

\* The final plan.  A version does not change under a lease, so that the passes that
\* follow on the same data come to the same schedule.
Finish ==
    /\ job.at = "FINISHING"
    /\ IF Members(job.schedule) = {} THEN Fail("EMPTY")
       ELSE \E request \in {FinalRequest(job.schedule, job.data)},
               unusable \in {Unusable(world, job.schedule)} :
         IF request # {} THEN NeedsData(request)
         ELSE IF Strategy.fields /\ Members(job.schedule) \cap world.faulty # {} THEN Fail("FAULT")
         ELSE IF unusable = {} THEN job' = [job EXCEPT !.at = "COMPLETED"]
         ELSE IF unusable \subseteq job.excluded THEN Fail("EXCLUDED")
         ELSE job' = [job EXCEPT !.at = "RESOLVING", !.excluded = @ \cup unusable]
    /\ UNCHANGED <<rule, world, store, others, lost>>

LoseLease ==
    /\ job.at \in {"RESOLVING", "FINISHING"}
    /\ lost < MaxLost /\ lost' = lost + 1
    /\ job' = [job EXCEPT !.at = "QUEUED"]
    /\ UNCHANGED <<rule, world, store, others>>

-----------------------------------------------------------------------------
(* The server.                                                             *)

Collect ==
    /\ job.at = "WAITING"
    /\ store' = store \cup Collected(job.request)
    /\ job' = [job EXCEPT !.at = "QUEUED"]
    /\ UNCHANGED <<rule, world, others, lost>>

CollectForOthers ==
    /\ others < MaxOthers /\ others' = others + 1
    /\ \E q \in Others \ store : store' = store \cup Collected({q})
    /\ UNCHANGED <<rule, world, job, lost>>

Ended == job.at \in {"COMPLETED", "FAILED"}

Next ==
    \/ Claim \/ ResolvePass \/ Finish \/ LoseLease
    \/ Collect \/ CollectForOthers

Spec == Init /\ [][Next]_vars

\* An agent goes on, and what was asked for is collected.
LiveSpec == Spec /\ WF_vars(Claim) /\ WF_vars(ResolvePass \/ Finish) /\ WF_vars(Collect)

-----------------------------------------------------------------------------
(* What a universe is, said of everything the providers have.              *)

Everything ==
    (({"DAY", "METRIC", "PRICE"} \X (Dates \cup {Period}))
      \cup ({"REGISTER", "FINANCIAL", "ACTION"} \X Symbols))

\* The value of a symbol at a stage, 0 when it has none.
TrueValue(w, d, criterion, s) ==
    CASE IsKrx(criterion) -> w.cap[d][s]
      [] criterion = "PER" -> IF w.cap[d][s] = 0 THEN 0 ELSE (100 * w.income[s]) \div w.cap[d][s]
      [] criterion = "ROE" -> w.income[s]
      [] criterion = "DECLINE" -> IF s \in w.short[d] THEN 0 ELSE w.fall[s]

\* The `limit` best of a set: nobody outside is better than anybody inside.
IsBest(T, C, w, d, stage) ==
    LET value == [s \in C |-> TrueValue(w, d, stage.criterion, s)]
        eligible == {s \in C : value[s] > 0}
    IN  /\ T \subseteq eligible
        /\ Cardinality(T) = (IF Cardinality(eligible) < stage.limit THEN Cardinality(eligible)
                             ELSE stage.limit)
        /\ \A s \in T, t \in eligible \ T :
             value[s] > value[t] \/ (value[s] = value[t] /\ s < t)

\* The survivors of the first n stages on date d.
Survivors(w, d, excluded, n) ==
    LET f[k \in 0..Len(rule)] ==
          IF k = 0 THEN w.listed[d] \ excluded
          ELSE CHOOSE T \in SUBSET f[k - 1] : IsBest(T, f[k - 1], w, d, rule[k])
    IN  f[n]

-----------------------------------------------------------------------------
(* Properties.                                                             *)

\* A preview is what the rule selects from everything the providers have, without
\* the symbols it names as excluded: however little had been collected when the
\* analysis began, in whatever order, and whoever collected it.
PreviewIsTrue ==
    job.at = "COMPLETED" =>
      /\ \A d \in Dates : job.schedule[d] = Survivors(world, d, job.excluded, Len(rule))
      /\ Unusable(world, job.schedule) = {}

\* The reports and prices of a symbol are only asked for when it survives what KRX
\* alone decides: the quota of DART is not spent on the others.
OnlySurvivorsAreFetched ==
    job.at = "WAITING" =>
      \A s \in Symbols :
        job.request \cap {<<"FINANCIAL", s>>, <<"ACTION", s>>} # {} =>
          \E d \in Dates : \E n \in 0..Len(rule) :
            /\ \A k \in 1..n : IsKrx(rule[k].criterion)
            /\ n < Len(rule) => ~ IsKrx(rule[n + 1].criterion)
            /\ s \in Survivors(world, d, job.excluded, n)

\* A preparation fails when nothing can be selected or a report is contradictory, and
\* not because it asks again for what it has or goes round in circles.
FailsForAReason ==
    job.at = "FAILED" =>
      \/ \A d \in Dates : Survivors(world, d, job.excluded, Len(rule)) = {}
      \/ job.why = "FAULT" /\ world.faulty # {}

\* The universe of an analysis for which everything was collected beforehand.
WithEverything ==
    LET After(x) == {x \cup r.out \cup (IF r.out \subseteq x THEN Unusable(world, r.schedule) ELSE {})
                       : r \in {Resolve(rule, world, Everything, x)}}
        x[n \in 0..(2 * Cardinality(Symbols))] ==
          IF n = 0 THEN {{}} ELSE UNION {After(y) : y \in x[n - 1]}
    IN  UNION {{Resolve(rule, world, Everything, y).schedule} : y \in x[2 * Cardinality(Symbols)]}

\* What a comment of the resolver says: the needs it drops could not change what is
\* selected.  Then a universe would not depend on what had been collected before.
DroppedNeedsChangeNothing ==
    job.at = "COMPLETED" => job.schedule \in WithEverything

\* An analysis ends, with a preview or a reason.
AnalysisEnds == <>[]Ended
=============================================================================
