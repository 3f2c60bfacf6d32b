----------------------------- MODULE Submissions ----------------------------
(***************************************************************************)
(* The rows a submission leaves behind: backtest jobs, preparations, the   *)
(* wizard's reference, a batch of seeds and an experiment.  Every operator *)
(* is a piece of synchronous code, which nothing interrupts, as a function *)
(* from the tables `d` to the tables after it; the state machine over them *)
(* is Experiments.                                                         *)
(***************************************************************************)
EXTENDS Integers, FiniteSets

CONSTANTS Items,        \* ordinals of the items of a batch of seeds
          UserSlots,    \* rows for the backtests of users
          Trials,       \* ordinals of the trials of an experiment
          MaxPreps,     \* bound: rows of preparations of one input at a time
          MaxQueued     \* deps.maxQueuedBacktests

ASSUME SubmissionsAssumption ==
    /\ Items \subseteq Nat /\ Trials \subseteq Nat \ {0}
    /\ IsFiniteSet(Items) /\ IsFiniteSet(UserSlots) /\ IsFiniteSet(Trials)
    /\ MaxPreps \in Nat \ {0} /\ MaxQueued \in Nat \ {0}

Source    == <<"source", 0>>
User(u)   == <<"user", u>>
Item(i)   == <<"item", i>>
Trial(t)  == <<"trial", t>>
UserJobs  == {User(u) : u \in UserSlots}
ItemJobs  == {Item(i) : i \in Items}
TrialJobs == {Trial(t) : t \in Trials}
Slots     == {Source} \cup UserJobs \cup ItemJobs \cup TrialJobs
\* The rows of one input are numbered next to each other; input 0 is the source's.
Inputs    == {0} \cup Trials
PrepInput(p) == (p - 1) \div MaxPreps
PrepIds   == {p \in 1..(9 * MaxPreps) : PrepInput(p) \in Inputs}

Live  == {"QUEUED", "RUNNING", "CANCELLING"}
Ended == {"COMPLETED", "FAILED", "CANCELLED"}

\* `rev`: the data revision it was submitted for, then the one it computed with.
NoJob  == [status |-> "NONE", prep |-> 0, rev |-> 0]
\* "CANCELLING": still under way, with cancel_requested set.  `rev`: of its preview.
NoPrep == [status |-> "NONE", rev |-> 0, managed |-> FALSE]

Queued(d) == Cardinality({s \in Slots : d.jobs[s].status = "QUEUED"})
QueueIsFull(d) == Queued(d) >= MaxQueued

-----------------------------------------------------------------------------
(* Preparations and who refers to them.                                    *)

\* isFresh: completed, and the data have not changed since.
Fresh(d, p) == p # 0 /\ d.preps[p].status = "COMPLETED" /\ d.preps[p].rev = d.rev

FreshFor(d, input) == {p \in PrepIds : Fresh(d, p) /\ PrepInput(p) = input}

\* Mutant: a batch whose items are all waiting has no job that holds its preview.
IsReferencedByRows(d, p) ==
    \/ \E s \in Slots : d.jobs[s].prep = p
    \/ d.wizard = p
    \/ \E t \in Trials : d.trials[t].prep = p

IsReferenced(d, p) ==
    \/ \E s \in Slots : d.jobs[s].prep = p
    \/ d.batch.prep = p
    \/ d.wizard = p
    \/ \E t \in Trials : d.trials[t].prep = p

\* collect: managed rows that have ended and that nobody refers to are deleted.
Collect(d) ==
    [d EXCEPT !.preps = [p \in PrepIds |->
        IF d.preps[p].managed /\ d.preps[p].status \in Ended /\ ~ IsReferenced(d, p)
        THEN NoPrep ELSE d.preps[p]]]

\* start: joins the row of the same input that is under way, or inserts one.
RowFor(d, input) ==
    LET rows     == {p \in PrepIds : PrepInput(p) = input}
        underWay == {p \in rows : d.preps[p].status \in {"ACTIVE", "CANCELLING"}}
        vacant   == {p \in rows : d.preps[p].status = "NONE"}
    IN  IF underWay # {} THEN underWay ELSE {p \in vacant : \A q \in vacant : p <= q}

Start(d, p) == [d EXCEPT !.preps[p].status = IF @ = "NONE" THEN "ACTIVE" ELSE @]

\* bindWizard, releaseWizard
BindWizard(d, p)  == Collect([d EXCEPT !.wizard = p, !.preps[p].managed = TRUE])
ReleaseWizard(d)  == Collect([d EXCEPT !.wizard = 0])

-----------------------------------------------------------------------------
(* Jobs.                                                                   *)

\* enqueue, inside its transaction; a wizard that still refers to the preview
\* of the new job is finished with it.
Enqueue(d, s, p, finishes) ==
    Collect([d EXCEPT !.jobs[s] = [status |-> "QUEUED", prep |-> p, rev |-> d.rev],
                      !.wizard = IF finishes /\ @ = p THEN 0 ELSE @])

SetStatus(d, s, status) == [d EXCEPT !.jobs[s].status = status]

\* JobOrchestrator.cancel of several jobs, without their events.
CancelJobs(d, S) ==
    [d EXCEPT !.jobs = [s \in Slots |->
        CASE d.jobs[s].status = "QUEUED" /\ s \in S  -> [d.jobs[s] EXCEPT !.status = "CANCELLED"]
          [] d.jobs[s].status = "RUNNING" /\ s \in S -> [d.jobs[s] EXCEPT !.status = "CANCELLING"]
          [] OTHER -> d.jobs[s]]]

\* Mutant: ... only the jobs of trials are looked for.
IsTrialJob(d, s) == \E t \in Trials : s = Trial(t) /\ d.trials[t].launched

\* hasValidationReference: the job of a trial, or the source of an experiment.
IsOfExperiment(d, s) ==
    \/ d.exp.status # "NONE" /\ s = Source
    \/ \E t \in Trials : s = Trial(t) /\ d.trials[t].launched
=============================================================================
