---------------------------- MODULE SymbolMaster ----------------------------
(* The symbol master (symbol-master-service.ts): which securities are       *)
(* listed on a date, as versions with validity intervals, and which dates   *)
(* have been collected.  Dates are collected in any order, several at a     *)
(* time, each with awaits between its requests to the exchange; what is     *)
(* stored of a date is written in one transaction after the last answer.    *)
EXTENDS KrxSource, FiniteSetsExt

Forever == LastDay + 1      \* the end of a version that is still valid

INSTANCE VersionTimeline

Callers == {"scheduler", "backfill", "sync"}

VARIABLES
    versions,       \* symbol_master_versions, per standard code
    covered,        \* symbol_master_coverage, as the set of covered dates
    tradingDays,    \* symbol_master_trading_days
    ingest,         \* inflightIngests: the request a date is at, 0 if none
    caller          \* who has asked for which date, and with what outcome

masterVars == <<versions, covered, tradingDays, ingest, caller>>

\* An entry of the master: what is known of a security, and whether that day's
\* base information was missing, so that it must not be traded.
Entry(id, missing) == [id |-> id, missing |-> missing]
Entries == [id : Ids, missing : BOOLEAN]

ASSUME EntriesAssumption == Absent \notin Entries

NoCall == [at |-> 0, got |-> "none"]

MasterInit ==
    /\ versions = [c \in Codes |-> {}]
    /\ covered = {} /\ tradingDays = {}
    /\ ingest = [d \in Days |-> 0]
    /\ caller = [w \in Callers |-> NoCall]

\* readUniverseAsOfInternal.
Universe(d) == [c \in Codes |-> EntryAt(versions[c], d)]

\* effectiveTradingDateWithinCoverage: the last trading day not after d that
\* is connected with d by covered dates; 0 if there is none.
TradingDateWithinCoverage(d) ==
    Max({0} \cup {t \in tradingDays : t <= d /\ t .. d \subseteq covered})

-----------------------------------------------------------------------------
(* Asking for a date (ingestDate): a covered date is answered at once, and  *)
(* a date that is being collected already is waited for.                    *)

Asking(d) == [at |-> d, got |-> IF d \in covered THEN "ok" ELSE "wait"]

\* The collection of a date begins, unless it is covered or under way.
Collecting(d) ==
    IF d \in covered \/ ingest[d] # 0 THEN ingest ELSE [ingest EXCEPT ![d] = 1]

\* Everyone who waits for the date learns how its collection ended.
Told(d, outcome) ==
    [w \in Callers |-> IF caller[w] = [at |-> d, got |-> "wait"]
                       THEN [at |-> d, got |-> outcome] ELSE caller[w]]

-----------------------------------------------------------------------------
(* What a trading day adds.                                                 *)

(* putEntry and preserveMissingBaseInfoEntries: a security with base        *)
(* information is stored as it is; one that only traded keeps the identity  *)
(* that the master gives it on this date, if it gives one.                  *)
Fetched(d) ==
    [c \in Codes |->
        LET said == history[d][c]
            modelled == EntryAt(versions[c], d)
        IN  CASE said \in Ids -> Entry(said, FALSE)
              [] said = TradeOnly /\ modelled # Absent -> Entry(modelled.id, TRUE)
              [] OTHER -> Absent]

\* The next date of which something is known: the next trading day or the
\* next boundary of any version.
NextObservation(d) ==
    LET boundaries == UNION {{v.from, v.to} : v \in UNION {versions[c] : c \in Codes}}
    IN  Min({Forever} \cup {t \in tradingDays \cup boundaries : t > d})

\* overlayUniverseInterval: the histories of the codes that change.
OverlaidVersions(d, next, fetched) ==
    [c \in Codes |-> IF fetched[c] = EntryAt(versions[c], d) THEN versions[c]
                     ELSE Overlay(versions[c], d, next, fetched[c])]

\* assertUniversesEqual, on the date and on the next observation, and the
\* exception of normalizeTimeline: a write that does not hold what it should
\* is undone.
WriteIsSound(d, next, fetched, written) ==
    \A c \in Codes : /\ ~Overlapping(written[c])
                     /\ EntryAt(written[c], d) = fetched[c]
                     /\ next # Forever => EntryAt(written[c], next) = EntryAt(versions[c], next)

\* persistTradingDay.
PersistTradingDay(d) ==
    LET next == NextObservation(d)
        fetched == Fetched(d)
        written == OverlaidVersions(d, next, fetched)
    IN  IF WriteIsSound(d, next, fetched, written)
        THEN /\ versions' = written
             /\ covered' = covered \cup {d}
             /\ tradingDays' = tradingDays \cup {d}
             /\ caller' = Told(d, "ok")
        ELSE /\ caller' = Told(d, "error")
             /\ UNCHANGED <<versions, covered, tradingDays>>

\* No market has traded: the date is covered, and no trading day.
PersistHoliday(d) ==
    /\ covered' = covered \cup {d}
    /\ caller' = Told(d, "ok")
    /\ UNCHANGED <<versions, tradingDays>>

-----------------------------------------------------------------------------
(* The steps of ingestDateUnguarded.                                        *)

\* The answer to request k is there: the trades of all markets decide
\* whether there was trading, and the last answer is followed by the write.
GoOn(d, k) ==
    IF k = NumMarkets /\ \A i \in 1 .. NumMarkets : ~HasRows(d, i)
    THEN PersistHoliday(d) /\ ingest' = [ingest EXCEPT ![d] = 0]
    ELSE IF k = 2 * NumMarkets
    THEN PersistTradingDay(d) /\ ingest' = [ingest EXCEPT ![d] = 0]
    ELSE ingest' = [ingest EXCEPT ![d] = k + 1] /\ UNCHANGED <<versions, covered, tradingDays, caller>>

GiveUp(d, outcome) ==
    /\ ingest' = [ingest EXCEPT ![d] = 0]
    /\ caller' = Told(d, outcome)
    /\ UNCHANGED <<versions, covered, tradingDays>>

IngestSaved(d) ==
    /\ ingest[d] # 0 /\ IsStored(d, ingest[d])
    /\ GoOn(d, ingest[d])
    /\ UNCHANGED sourceVars

IngestAnswer(d) ==
    /\ ingest[d] # 0 /\ Answer(d, ingest[d])
    /\ GoOn(d, ingest[d])

IngestFails(d) ==
    /\ ingest[d] # 0
    /\ EmptyAnswer(d, ingest[d]) \/ Breakdown(d, ingest[d]) \/ RefusedAttempt(d, ingest[d])
    /\ GiveUp(d, "error")

IngestQuota(d) ==
    /\ ingest[d] # 0 /\ TooManyRequests(d, ingest[d])
    /\ GiveUp(d, "quota")

\* The plan waits, or the quota of the day is known to be used up; found only
\* at the attempt itself, that is told like any other error.
IngestBlocked(d) ==
    /\ ingest[d] # 0 /\ ~IsStored(d, ingest[d]) /\ ~MayCall(d, ingest[d])
    /\ \E outcome \in IF d \in waiting THEN {"error"} ELSE {"error", "quota"} :
         GiveUp(d, outcome)
    /\ UNCHANGED sourceVars

Ingest(d) ==
    \/ IngestSaved(d)
    \/ IngestAnswer(d)
    \/ IngestFails(d)
    \/ IngestQuota(d)
    \/ IngestBlocked(d)

-----------------------------------------------------------------------------
(* Questions about the master.                                              *)

\* Mutant: only a version that follows at once shows that it goes on.
DelistedEventsUnfiltered(from, to) ==
    UNION {{<<c, e>> : e \in {x \in from .. to :
                               /\ \E v \in versions[c] : v.to = x /\ x # Forever
                               /\ \E t \in tradingDays : t < x
                               /\ \A v \in versions[c] : v.from # x}} : c \in Codes}

(* delistedEventsBetween: versions that end with no version of the same     *)
(* code after them, later than the first trading day.                       *)
DelistedEventsBetween(from, to) ==
    LET observed == {t \in tradingDays : t < to}
        ends(c) == {v.to : v \in {w \in versions[c] : w.to # Forever}}
        delisted(c) == {e \in ends(c) \cap (from .. to) :
                           /\ \E t \in observed : t < e
                           /\ \A v \in versions[c] : v.from < e}
    IN  UNION {{<<c, e>> : e \in delisted(c)} : c \in Codes}
=============================================================================
