-------------------------- MODULE PeriodValidation --------------------------
(***************************************************************************)
(* PeriodValidationService: an experiment repeats a backtest over periods. *)
(* For each fold, candidates are trained, one is selected, and it is run   *)
(* on the period that follows, beside the source's own parameters.  Each   *)
(* group of runs is prepared first and then run on one revision of the     *)
(* data.  A timer and some requests call pump; its tick has two awaits,    *)
(* and what it remembers over them is in `tick`.                           *)
(***************************************************************************)
EXTENDS SeedBatches

NoExp   == [status |-> "NONE", mode |-> "NONE", phase |-> "NONE", fold |-> 0,
            rev |-> 0, error |-> FALSE]
NoTrial == [prep |-> 0, launched |-> FALSE, candidate |-> 0]

\* Four trials a fold: candidates 0 and 1, the one selected, the source's own.
FoldOf(t)    == (t - 1) \div 4
Candidate(t) == (t - 1) % 4
IsTrain(t)   == Candidate(t) \in {0, 1}
IsOOS(t)     == Candidate(t) = 2
Baseline(t)  == t + 1

Folds(mode)      == IF mode = "WALK_FORWARD" THEN 2 ELSE 1
Candidates(mode) == IF mode = "HOLDOUT" THEN {0} ELSE {0, 1}

TrialsOf(mode) ==
    {t \in Trials : /\ FoldOf(t) < Folds(mode)
                    /\ \/ Candidate(t) \in Candidates(mode)
                       \/ IsOOS(t)
                       \/ mode # "HOLDOUT"}

\* What a trial runs.  Candidate 1 has the source's own parameters, so that its
\* run out of sample asks for the same preview as the baseline.
InputOf(d, t) ==
    IF IsOOS(t) /\ d.trials[t].candidate = 1 THEN Baseline(t) ELSE t

Group(d) ==
    {t \in TrialsOf(d.exp.mode) :
        FoldOf(t) = d.exp.fold /\ (IsTrain(t) <=> d.exp.phase \in {"PREPARING_TRAIN", "TRAIN"})}

Preparing(d) == d.exp.phase \in {"PREPARING_TRAIN", "PREPARING_OOS"}

CreateExperiment(d, mode) ==
    [d EXCEPT !.exp = [NoExp EXCEPT !.status = "ACTIVE", !.mode = mode,
                                    !.phase = "PREPARING_TRAIN"],
              !.trials = [t \in Trials |-> NoTrial]]

TrialJobsOf(d) == {Trial(t) : t \in {u \in Trials : d.trials[u].launched}}

\* delete: refused while the experiment or one of its jobs is under way.
ExperimentDeletable(d) ==
    d.exp.status \in Ended /\ \A s \in TrialJobsOf(d) : JobEnded(d, s)

DeleteExperiment(d) ==
    Collect([d EXCEPT !.exp = NoExp,
                      !.trials = [t \in Trials |-> NoTrial],
                      !.jobs = [s \in Slots |-> IF s \in TrialJobs THEN NoJob ELSE d.jobs[s]]])

-----------------------------------------------------------------------------
(* What a tick does between two awaits is a set of outcomes: the tables    *)
(* after it and where it waits.                                            *)

Idle == [at |-> "idle", trial |-> 0, prep |-> 0, phase |-> "NONE", fold |-> 0]
WaitAt(d, at, t) == [at |-> at, trial |-> t, prep |-> d.trials[t].prep,
                     phase |-> d.exp.phase, fold |-> d.exp.fold]
Done(d) == {[db |-> d, tick |-> Idle]}

\* Mutant: only fold and phase are compared.
SamePhaseUnstopped(d, w) == d.exp.fold = w.fold /\ d.exp.phase = w.phase

\* samePhase, after an await that began at `w`.
SamePhase(d, w) ==
    d.exp.status = "ACTIVE" /\ d.exp.fold = w.fold /\ d.exp.phase = w.phase

\* A preview under way that only this experiment is waiting for.
IsShared(d, p) == d.wizard = p \/ d.batch.prep = p \/ \E s \in Slots : d.jobs[s].prep = p
IsUnfinished(d, p) ==
    /\ d.preps[p].status \in {"ACTIVE", "CANCELLING"}
    /\ \E t \in Trials : d.trials[t].prep = p
    /\ ~ IsShared(d, p)
LiveTrials(d) == {s \in TrialJobsOf(d) : d.jobs[s].status \in Live}

\* Mutant: the experiment ends once everything has been asked to.
FinishAtOnce(d) ==
    LET c == IF LiveTrials(d) = {} THEN d
             ELSE OnJobStatusChanged(CancelJobs(d, LiveTrials(d)))
    IN  [c EXCEPT !.exp.status = IF d.exp.error THEN "FAILED" ELSE "CANCELLED"]

\* finishCancellation: it asks, and ends the experiment when nothing is left to ask.
FinishCancellation(d) ==
    LET c == [(IF LiveTrials(d) = {} THEN d
               ELSE OnJobStatusChanged(CancelJobs(d, LiveTrials(d))))
              EXCEPT !.preps = [p \in PrepIds |->
                  IF IsUnfinished(d, p) THEN [@[p] EXCEPT !.status = "CANCELLING"] ELSE @[p]]]
    IN  IF LiveTrials(d) # {} \/ \E p \in PrepIds : IsUnfinished(d, p) THEN c
        ELSE [c EXCEPT !.exp.status = IF d.exp.error THEN "FAILED" ELSE "CANCELLED"]

\* The catch of tick.
Fail(d) ==
    Done(FinishCancellation([d EXCEPT !.exp.status = "CANCELLING", !.exp.error = TRUE]))

Attach(d, t, p) ==
    Collect([d EXCEPT !.trials[t].prep = p, !.preps[p].managed = TRUE])

\* prepareGroup: the first trial without a fresh preview is given one, or waits.
PrepareTrial(d, t) ==
    LET p     == d.trials[t].prep
        ready == FreshFor(d, InputOf(d, t))
    IN  CASE p # 0 /\ d.preps[p].status \in {"NONE", "FAILED", "CANCELLED"} -> Fail(d)
          [] p # 0 /\ d.preps[p].status \in {"ACTIVE", "CANCELLING"} -> Done(d)
          [] OTHER -> IF ready # {} THEN UNION {Done(Attach(d, t, q)) : q \in ready}
                      ELSE {[db |-> d, tick |-> WaitAt(d, "ready", t)]}

PrepareGroup(d) ==
    LET todo == {t \in Group(d) : ~ Fresh(d, d.trials[t].prep)}
    IN  IF todo # {} THEN UNION {PrepareTrial(d, t) : t \in todo}
        ELSE Done([d EXCEPT !.exp.phase = IF @ = "PREPARING_TRAIN" THEN "TRAIN" ELSE "OOS",
                            !.exp.rev = d.rev])

\* ... and after the await: nothing was ready, so a preparation is started.
ResumeReady(d, w) ==
    IF ~ SamePhase(d, w) \/ d.trials[w.trial].prep # w.prep \/ Fresh(d, w.prep) THEN Done(d)
    ELSE UNION {Done(Attach(Start(d, p), w.trial, p)) : p \in RowFor(d, InputOf(d, w.trial))}

\* Mutant: the revision is not compared.
AnyRevision(d) == TRUE

\* assertRevision
SameRevision(d) == d.exp.rev = d.rev

Take(d, c) ==
    [d EXCEPT !.trials = [t \in Trials |-> IF FoldOf(t) = d.exp.fold /\ IsOOS(t)
                          THEN [d.trials[t] EXCEPT !.candidate = c] ELSE d.trials[t]],
              !.exp.phase = "PREPARING_OOS", !.exp.rev = 0]

\* A candidate is taken, or none is eligible; or the next fold, or the end.
Decide(d) ==
    IF d.exp.phase = "TRAIN"
    THEN (UNION {Done(Take(d, c)) : c \in Candidates(d.exp.mode)})
         \cup (IF d.exp.mode = "HOLDOUT" THEN {} ELSE Fail(d))
    ELSE IF d.exp.fold + 1 = Folds(d.exp.mode)
    THEN Done([d EXCEPT !.exp.status = "COMPLETED"])
    ELSE Done([d EXCEPT !.exp.fold = @ + 1, !.exp.phase = "PREPARING_TRAIN", !.exp.rev = 0])

\* Mutant: a run that was cancelled or deleted is waited for.
RunFailed(d, t) == d.trials[t].launched /\ d.jobs[Trial(t)].status = "FAILED"

RunIsLost(d, t) ==
    d.trials[t].launched /\ d.jobs[Trial(t)].status \in {"NONE", "FAILED", "CANCELLED"}

RunGroup(d) ==
    LET failed  == {t \in Group(d) : RunIsLost(d, t)}
        waiting == {t \in Group(d) : ~ d.trials[t].launched}
    IN  CASE ~ SameRevision(d) \/ failed # {} -> Fail(d)
          [] SameRevision(d) /\ failed = {} /\ waiting # {} ->
               UNION {IF ~ Fresh(d, d.trials[t].prep) THEN Fail(d)
                      ELSE IF QueueIsFull(d) THEN Done(d)
                      ELSE {[db |-> d, tick |-> WaitAt(d, "build", t)]} : t \in waiting}
          [] SameRevision(d) /\ failed = {} /\ waiting = {} ->
               IF \A t \in Group(d) : d.jobs[Trial(t)].status = "COMPLETED"
               THEN Decide(d) ELSE Done(d)

\* Mutant: the queue is looked at before buildEnqueue only.
ResumeBuildUnchecked(d, w) ==
    IF ~ SamePhase(d, w) \/ d.trials[w.trial].launched THEN Done(d)
    ELSE Fail(d) \cup
         (IF ~ SameRevision(d) THEN {}
          ELSE Done([Enqueue(d, Trial(w.trial), w.prep, FALSE)
                     EXCEPT !.trials[w.trial].launched = TRUE]))

\* ... and after buildEnqueue, which checks resources and validates, and may throw.
ResumeBuild(d, w) ==
    IF ~ SamePhase(d, w) \/ d.trials[w.trial].launched THEN Done(d)
    ELSE Fail(d) \cup
         (IF ~ SameRevision(d) THEN {}
          ELSE IF QueueIsFull(d) THEN Done(d)
          ELSE Done([Enqueue(d, Trial(w.trial), w.prep, FALSE)
                     EXCEPT !.trials[w.trial].launched = TRUE]))

\* tick, up to its first await.
Tick(d) ==
    CASE d.exp.status = "CANCELLING" -> Done(FinishCancellation(d))
      [] d.exp.status = "ACTIVE" -> IF Preparing(d) THEN PrepareGroup(d) ELSE RunGroup(d)
      [] OTHER -> Done(d)
=============================================================================
