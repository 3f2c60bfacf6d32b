-------------------------- MODULE MarketCollection --------------------------
(* Who collects the dates of the symbol master: the daily scheduler (symbol- *)
(* master-scheduler.ts), the backfill of a range (symbol-master-backfill.ts) *)
(* and those who ask for one date and get the last trading day before it     *)
(* (ensureTradingDay: the route /symbol-master/sync, and the collections of  *)
(* preparations). They share the dates under way, the calls of the day and   *)
(* the plans of requests; their own state is in memory only.                 *)
EXTENDS SymbolMaster

CONSTANTS
    BackfillRanges,     \* the ranges a user asks for; 0 as the end: until today
    SyncDates,          \* the dates that are asked for one by one
    MaxLookback,        \* DEFAULT_MAX_LOOKBACK_DAYS
    MaxStarts           \* bound on the backfills a user starts

VARIABLES
    tick,       \* the tick of the scheduler: its last date, what it saw of the backfill
    backfill,   \* state, cursor, the range of the last start, the bound of its loop
    syncDate,   \* the date of ensureTradingDay, 0 if there is none
    starts

vars == <<sourceVars, masterVars, tick, backfill, syncDate, starts>>

NoTick == [until |-> 0, state |-> "IDLE", from |-> 0]
NoBackfill == [state |-> "IDLE", cursor |-> 0, from |-> 0, to |-> 0, upper |-> 0]

Init ==
    /\ SourceInit /\ MasterInit
    /\ tick = NoTick /\ backfill = NoBackfill /\ syncDate = 0
    /\ starts = 0

-----------------------------------------------------------------------------
(* Backfill.                                                                *)

\* The head of runLoop: the range is done, the budget is, or the next date
\* is asked for.
Looped(b, cursor) ==
    IF cursor > b.upper THEN [b EXCEPT !.state = "IDLE", !.cursor = 0]
    ELSE IF spent THEN [b EXCEPT !.state = "BUDGET_EXHAUSTED", !.cursor = cursor]
    ELSE [b EXCEPT !.state = "RUNNING", !.cursor = cursor]

\* start, which a running backfill ignores.
Started(from, to) ==
    LET b == [state |-> "RUNNING", cursor |-> from, from |-> from, to |-> to,
              upper |-> IF to = 0 THEN today ELSE to]
    IN  IF backfill.state = "RUNNING" THEN backfill ELSE Looped(b, from)

\* The calls after the backfill has got to state b by a start: only a new
\* loop asks for a date.
AskedBy(b, calls) ==
    IF b.state = "RUNNING" /\ backfill.state # "RUNNING"
    THEN [calls EXCEPT !["backfill"] = Asking(b.cursor)] ELSE calls

CollectedBy(b) ==
    IF b.state = "RUNNING" /\ backfill.state # "RUNNING" THEN Collecting(b.cursor) ELSE ingest

StartBackfill(from, to) ==
    /\ starts < MaxStarts /\ starts' = starts + 1
    /\ backfill' = Started(from, to)
    /\ caller' = AskedBy(backfill', caller)
    /\ ingest' = CollectedBy(backfill')
    /\ UNCHANGED <<sourceVars, versions, covered, tradingDays, tick, syncDate>>

\* The date is done and the loop goes on.
BackfillStep ==
    LET next == Looped(backfill, backfill.cursor + 1)
    IN  /\ caller["backfill"].got = "ok"
        /\ backfill' = next
        /\ IF next.state = "RUNNING"
           THEN /\ caller' = [caller EXCEPT !["backfill"] = Asking(next.cursor)]
                /\ ingest' = Collecting(next.cursor)
           ELSE caller' = [caller EXCEPT !["backfill"] = NoCall] /\ UNCHANGED ingest
        /\ UNCHANGED <<sourceVars, versions, covered, tradingDays, tick, syncDate, starts>>

\* A used up quota is waited for; any other error ends the backfill.
BackfillStops ==
    /\ caller["backfill"].got \in {"quota", "error"}
    /\ backfill' = [backfill EXCEPT !.state = IF caller["backfill"].got = "quota"
                                              THEN "BUDGET_EXHAUSTED" ELSE "FAILED"]
    /\ caller' = [caller EXCEPT !["backfill"] = NoCall]
    /\ UNCHANGED <<sourceVars, versions, covered, tradingDays, ingest, tick, syncDate, starts>>

-----------------------------------------------------------------------------
(* Scheduler. An hourly timer calls tick; before 18:00 it does nothing.     *)

LastCovered == Max({0} \cup covered)
Yesterday == today - 1

\* Mutant: the timer does not look after the backfill.
ResumedNever(state, from) == backfill

\* The end of a tick: a backfill that had used up its budget when the tick
\* began is started again from the same date, until today.
Resumed(state, from) ==
    IF state = "BUDGET_EXHAUSTED" THEN Started(from, 0) ELSE backfill

\* A tick without dates to collect.
TickResumes ==
    /\ tick = NoTick
    /\ \/ backfill.state = "RUNNING"
       \/ LastCovered = 0
       \/ LastCovered >= Yesterday
    /\ backfill' = Resumed(backfill.state, backfill.from)
    /\ caller' = AskedBy(backfill', caller)
    /\ ingest' = CollectedBy(backfill')
    /\ UNCHANGED <<sourceVars, versions, covered, tradingDays, tick, syncDate, starts>>

\* Mutant: an off-by-one leaves out a gap of one day.
TickCollectsLongGaps ==
    /\ tick = NoTick
    /\ backfill.state # "RUNNING" /\ LastCovered # 0 /\ LastCovered + 1 < Yesterday
    /\ tick' = [until |-> Yesterday, state |-> backfill.state, from |-> backfill.from]
    /\ caller' = [caller EXCEPT !["scheduler"] = Asking(LastCovered + 1)]
    /\ ingest' = Collecting(LastCovered + 1)
    /\ UNCHANGED <<sourceVars, versions, covered, tradingDays, backfill, syncDate, starts>>

\* A tick that fills the gap between the last covered date and yesterday.
TickCollects ==
    /\ tick = NoTick
    /\ backfill.state # "RUNNING" /\ LastCovered # 0 /\ LastCovered < Yesterday
    /\ tick' = [until |-> Yesterday, state |-> backfill.state, from |-> backfill.from]
    /\ caller' = [caller EXCEPT !["scheduler"] = Asking(LastCovered + 1)]
    /\ ingest' = Collecting(LastCovered + 1)
    /\ UNCHANGED <<sourceVars, versions, covered, tradingDays, backfill, syncDate, starts>>

TickGoesOn ==
    LET done == caller["scheduler"].at
    IN  /\ caller["scheduler"].got = "ok" /\ done < tick.until
        /\ caller' = [caller EXCEPT !["scheduler"] = Asking(done + 1)]
        /\ ingest' = Collecting(done + 1)
        /\ UNCHANGED <<sourceVars, versions, covered, tradingDays, tick, backfill, syncDate, starts>>

TickEnds ==
    /\ caller["scheduler"].got = "ok" /\ caller["scheduler"].at = tick.until
    /\ backfill' = Resumed(tick.state, tick.from)
    /\ caller' = AskedBy(backfill', [caller EXCEPT !["scheduler"] = NoCall])
    /\ ingest' = CollectedBy(backfill')
    /\ tick' = NoTick
    /\ UNCHANGED <<sourceVars, versions, covered, tradingDays, syncDate, starts>>

\* After an error the next tick tries again; the backfill has to wait.
TickFails ==
    /\ caller["scheduler"].got \in {"quota", "error"}
    /\ caller' = [caller EXCEPT !["scheduler"] = NoCall]
    /\ tick' = NoTick
    /\ UNCHANGED <<sourceVars, versions, covered, tradingDays, ingest, backfill, syncDate, starts>>

-----------------------------------------------------------------------------
(* ensureTradingDay.                                                        *)

AskForDate(d) ==
    /\ syncDate = 0
    /\ syncDate' = d
    /\ caller' = [caller EXCEPT !["sync"] = Asking(d)]
    /\ ingest' = Collecting(d)
    /\ UNCHANGED <<sourceVars, versions, covered, tradingDays, tick, backfill, starts>>

\* No trading day is known that is connected with the date: the date before
\* is collected too. (The dates of the model begin at 1.)
LookFurtherBack ==
    LET before == caller["sync"].at - 1
    IN  /\ caller["sync"].got = "ok"
        /\ TradingDateWithinCoverage(syncDate) = 0
        /\ before >= Max({1, syncDate - MaxLookback})
        /\ caller' = [caller EXCEPT !["sync"] = Asking(before)]
        /\ ingest' = Collecting(before)
        /\ UNCHANGED <<sourceVars, versions, covered, tradingDays, tick, backfill, syncDate, starts>>

AnswerDate ==
    /\ \/ caller["sync"].got \in {"quota", "error"}
       \/ /\ caller["sync"].got = "ok"
          /\ \/ TradingDateWithinCoverage(syncDate) # 0
             \/ caller["sync"].at <= Max({1, syncDate - MaxLookback})
    /\ caller' = [caller EXCEPT !["sync"] = NoCall]
    /\ syncDate' = 0
    /\ UNCHANGED <<sourceVars, versions, covered, tradingDays, ingest, tick, backfill, starts>>

-----------------------------------------------------------------------------

\* The server dies and starts again: what is in memory is lost, but of the
\* requests under way attempts may have been counted.
Restart ==
    /\ Fault
    /\ \E cut \in SUBSET {d \in Days : ingest[d] # 0} : partial' = partial \cup cut
    /\ ingest' = [d \in Days |-> 0]
    /\ caller' = [w \in Callers |-> NoCall]
    /\ tick' = NoTick /\ backfill' = NoBackfill /\ syncDate' = 0
    /\ UNCHANGED <<history, today, posted, stored, waiting, quota, spent,
                   versions, covered, tradingDays, starts>>

Environment ==
    \/ \E d \in Days, i \in 1 .. NumMarkets : Publish(d, Markets[i])
    \/ \E d \in Days : RetryTime(d)
    \/ Midnight
    \/ SpendBudget

Next ==
    \/ \E range \in BackfillRanges : StartBackfill(range[1], range[2])
    \/ BackfillStep \/ BackfillStops
    \/ TickResumes \/ TickCollects \/ TickGoesOn \/ TickEnds \/ TickFails
    \/ \E d \in SyncDates : AskForDate(d)
    \/ LookFurtherBack \/ AnswerDate
    \/ \E d \in Days : Ingest(d) /\ UNCHANGED <<tick, backfill, syncDate, starts>>
    \/ Environment /\ UNCHANGED <<masterVars, tick, backfill, syncDate, starts>>
    \/ Restart

-----------------------------------------------------------------------------
(* Fairness. Promises of the event loop and of the timer are kept, plans    *)
(* come to the time of their retry, days pass, and the exchange publishes   *)
(* every past day at some time. Nobody has to start a backfill or to ask    *)
(* for a date; faults need not happen and are bounded.                      *)

BackfillMoves == BackfillStep \/ BackfillStops
TickMoves == TickResumes \/ TickCollects \/ TickGoesOn \/ TickEnds \/ TickFails
SyncMoves == LookFurtherBack \/ AnswerDate
Others == <<masterVars, tick, backfill, syncDate, starts>>

Fairness ==
    /\ \A d \in Days : WF_vars(Ingest(d) /\ UNCHANGED <<tick, backfill, syncDate, starts>>)
    /\ WF_vars(BackfillMoves) /\ WF_vars(TickMoves) /\ WF_vars(SyncMoves)
    /\ WF_vars((\E d \in 1 .. today - 1, i \in 1 .. NumMarkets : Publish(d, Markets[i]))
                    /\ UNCHANGED Others)
    /\ WF_vars((\E d \in Days : RetryTime(d)) /\ UNCHANGED Others)
    /\ WF_vars(Midnight /\ UNCHANGED Others)

Spec == Init /\ [][Next]_vars /\ Fairness

-----------------------------------------------------------------------------
(* Properties.                                                              *)

(* Where the master says that it knows a date, it tells the truth about it: *)
(* the trading day it names is the last one on which the exchange was open, *)
(* and each security is as the base information of that day had it, however *)
(* the dates around it were collected, in whatever order, and interrupted   *)
(* by whom. A security that only traded is missing, or not to be traded.    *)
UniversesAreTrue ==
    \A d \in Days :
        LET t == TradingDateWithinCoverage(d)
        IN  t # 0 =>
              /\ t = Max(1 .. d \ Closed)
              /\ \A c \in Codes :
                    LET said == history[t][c]
                        known == Universe(d)[c]
                    IN  CASE said \in Ids -> known = Entry(said, FALSE)
                          [] said = TradeOnly -> known = Absent \/ known.missing
                          [] OTHER -> known = Absent

(* The worker sells a security by force on the day it is reported as        *)
(* delisted. The reports are exactly these: a security that the master had  *)
(* on a day it has collected and has on none of the collected days after    *)
(* it, of which there is one, is delisted on the first of those. So no      *)
(* security is sold that the master has on a later day it has collected.    *)
DelistingsAreFinal ==
    LET held(c) == {t \in tradingDays : Universe(t)[c] # Absent}
        after(c) == {t \in tradingDays : held(c) # {} /\ t > Max(held(c))}
    IN  DelistedEventsBetween(1, LastDay)
            = {<<c, Min(after(c))>> : c \in {x \in Codes : after(x) # {}}}

(* Once a date is covered, the daily collection catches up with every past  *)
(* day, through failures, refused calls, late publications and restarts.    *)
CollectionCatchesUp == LastCovered # 0 ~> LastCovered >= Yesterday

(* A backfill that has used up the calls of a day is taken up again, until  *)
(* every date of its range is covered, unless it fails, or a restart makes  *)
(* the server forget it.                                                    *)
ExhaustedBackfillsGoOn ==
    backfill.state = "BUDGET_EXHAUSTED"
        ~> \/ backfill.state = "FAILED" \/ backfill = NoBackfill
           \/ backfill.state = "IDLE" /\ backfill.from .. backfill.upper \subseteq covered
=============================================================================
