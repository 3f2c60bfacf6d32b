----------------------------- MODULE KrxSource -----------------------------
(* The exchange's data service (KRX) and what stands between it and the     *)
(* symbol master: the answers that were stored (krx_raw_api_snapshots), the *)
(* calendar of the exchange, the plans of requests with their attempts and  *)
(* waiting times (provider_request_plans) and the use of the day's calls    *)
(* (external_api_daily_usage).                                              *)
(*                                                                          *)
(* A date is collected from the daily trades of every market and then from  *)
(* the base information of every market, in this order, and every answer is *)
(* stored; so of a date it is enough to know how many final answers there   *)
(* are, and there is one plan for it at a time.                             *)
EXTENDS Integers, Sequences

CONSTANTS
    Codes,          \* the standard codes that are followed
    Ids,            \* what the exchange can say of a security (name, shares, market)
    Absent,         \* ... or that it is not listed
    TradeOnly,      \* ... or that it traded, without saying who it is
    Markets,        \* the sequence of the markets, KOSPI and KOSDAQ
    LastDay,        \* the dates are 1 .. LastDay
    FirstToday,     \* the date on which a behaviour begins
    Closed,         \* the dates without trading
    CalendarDays,   \* the dates of the years whose official calendar is known
    Histories,      \* the possible truths about the codes
    MaxFaults       \* bound on failures, restarts and spent budgets

Days == 1 .. LastDay

ASSUME DaysAssumption == LastDay \in Nat /\ FirstToday \in Days
ASSUME CalendarAssumption == Closed \subseteq Days \ {1} /\ CalendarDays \subseteq Days
ASSUME HistoriesAssumption ==
    Histories \subseteq [Days -> [Codes -> Ids \cup {Absent, TradeOnly}]]
ASSUME AnswersAssumption == TradeOnly \notin Ids
ASSUME MarketsAssumption == Len(Markets) \in Nat \ {0}

VARIABLES
    history,    \* the truth of this behaviour
    today,      \* the date in Korea
    posted,     \* the markets whose data the exchange has published, per date
    stored,     \* the number of final answers that are stored, per date
    partial,    \* the dates whose plan has used up part of its batch of attempts
    waiting,    \* the dates whose plan waits for the time of its retry
    quota,      \* the requests (endpoints) that the exchange has refused today
    spent,      \* the day's calls have reached the budget of the backfill
    faults

sourceVars == <<history, today, posted, stored, partial, waiting, quota, spent, faults>>

NumMarkets == Len(Markets)
Requests == 1 .. 2 * NumMarkets     \* of one date, in their order
MarketOf(k) == Markets[IF k <= NumMarkets THEN k ELSE k - NumMarkets]

\* The answer to request k of a date has rows.
HasRows(d, k) == d \notin Closed /\ MarketOf(k) \in posted[d]

\* Mutant: a day that has begun is taken for a holiday if it has no rows.
IsFinalOnceBegun(d, k) == HasRows(d, k) \/ d <= today

\* An answer without rows is only final if the calendar says so
\* (pendingEmptyState); otherwise the exchange may still publish the date.
IsFinal(d, k) == HasRows(d, k) \/ (d \in Closed /\ d \in CalendarDays)

IsStored(d, k) == k <= stored[d]

\* authorize and the check of the quota: whether a call may be made at all.
MayCall(d, k) == d \notin waiting /\ k \notin quota

Fault == faults < MaxFaults /\ faults' = faults + 1

SourceInit ==
    /\ history \in Histories
    /\ today = FirstToday
    /\ posted = [d \in Days |-> IF d < FirstToday THEN {Markets[i] : i \in 1 .. NumMarkets} ELSE {}]
    /\ stored = [d \in Days |-> 0]
    /\ partial \in {{}, 1 .. FirstToday - 1}    \* attempts of an earlier process
    /\ waiting = {}
    /\ quota = {} /\ spent = FALSE
    /\ faults = 0

-----------------------------------------------------------------------------
(* Answers to request k of date d.                                          *)

\* A final answer is stored and its plan completed.
Answer(d, k) ==
    /\ ~IsStored(d, k) /\ MayCall(d, k) /\ IsFinal(d, k)
    /\ stored' = [stored EXCEPT ![d] = k]
    /\ partial' = partial \ {d}
    /\ UNCHANGED <<history, today, posted, waiting, quota, spent, faults>>

\* An empty answer is stored as well and its plan completed, and a new plan
\* is made for the date, which has attempts of its own (PENDING_PUBLICATION).
EmptyAnswer(d, k) ==
    /\ ~IsStored(d, k) /\ MayCall(d, k) /\ ~IsFinal(d, k)
    /\ partial' = partial \ {d}
    /\ UNCHANGED <<history, today, posted, stored, waiting, quota, spent, faults>>

\* The connection breaks or the server has an error: the plan waits
\* (deferRetry), and its batch of attempts may be used up. Or the exchange
\* refuses the request, or its answer is an error, which is stored and for
\* which a new plan is made: then nothing waits.
Breakdown(d, k) ==
    /\ ~IsStored(d, k) /\ MayCall(d, k) /\ Fault
    /\ waiting' \in {waiting, waiting \cup {d}}
    /\ partial' \in {partial \cup {d}, partial \ {d}}
    /\ UNCHANGED <<history, today, posted, stored, quota, spent>>

\* The exchange answers 429 to every attempt of a whole batch: the quota of
\* the day is noted, and the plan waits.
TooManyRequests(d, k) ==
    /\ ~IsStored(d, k) /\ MayCall(d, k) /\ d \notin partial /\ Fault
    /\ quota' = quota \cup {k}
    /\ waiting' = waiting \cup {d}
    /\ UNCHANGED <<history, today, posted, stored, partial, spent>>

\* The same with a batch of which attempts are missing: the plan refuses the
\* next attempt (RETRY_BACKOFF) before the client gives up, and nothing is
\* noted of the quota.
RefusedAttempt(d, k) ==
    /\ ~IsStored(d, k) /\ MayCall(d, k) /\ d \in partial /\ Fault
    /\ waiting' = waiting \cup {d}
    /\ partial' = partial \ {d}
    /\ UNCHANGED <<history, today, posted, stored, quota, spent>>

-----------------------------------------------------------------------------
(* Time and the exchange.                                                   *)

Publish(d, m) ==
    /\ d \in Days \ Closed /\ d <= today /\ m \notin posted[d]
    /\ posted' = [posted EXCEPT ![d] = @ \cup {m}]
    /\ UNCHANGED <<history, today, stored, partial, waiting, quota, spent, faults>>

RetryTime(d) ==
    /\ d \in waiting
    /\ waiting' = waiting \ {d}
    /\ UNCHANGED <<history, today, posted, stored, partial, quota, spent, faults>>

\* The calls of a day are counted under its date. The last date stands for
\* all later ones.
Midnight ==
    /\ today' = IF today < LastDay THEN today + 1 ELSE today
    /\ quota' = {} /\ spent' = FALSE
    /\ UNCHANGED <<history, posted, stored, partial, waiting, faults>>

\* A call is made that is the last one within the budget.
SpendBudget ==
    /\ ~spent /\ Fault
    /\ spent' = TRUE
    /\ UNCHANGED <<history, today, posted, stored, partial, waiting, quota>>
=============================================================================
