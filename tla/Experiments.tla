----------------------------- MODULE Experiments ----------------------------
(***************************************************************************)
(* Users, agents and the server over the tables of Submissions.  Each      *)
(* action is one run of the server's thread from one await to the next;    *)
(* the jobs and preparations, which have models of their own, move by      *)
(* themselves here, and every move of a job is followed by its event, to   *)
(* which the batches listen, unless the server dies in between.            *)
(***************************************************************************)
EXTENDS PeriodValidation

CONSTANTS Modes,          \* the kinds of experiments users create
          Posts,          \* the kinds of submissions users post
          PreviewInputs,  \* the inputs users preview in the wizard
          MaxRevision,    \* bound: revisions of the data
          MaxCrashes      \* bound: deaths of the server

ASSUME ExperimentsAssumption ==
    /\ Modes \subseteq {"HOLDOUT", "OPTIMIZED_HOLDOUT", "WALK_FORWARD"}
    /\ Posts \subseteq {"wizard", "clone", "seeds"}
    /\ PreviewInputs \subseteq Nat
    /\ MaxRevision \in Nat /\ MaxCrashes \in Nat

VARIABLES db,       \* the tables
          tick,     \* the await in which the tick of the experiments is
          post,     \* a submission that waits for its checks
          up,       \* the server runs
          crashes   \* deaths so far

vars == <<db, tick, post, up, crashes>>

NoPost == [kind |-> "NONE", prep |-> 0, rev |-> 0]

\* A source that has completed on a preview of the current data.
Init ==
    /\ db = [rev |-> 1, valid |-> TRUE, wizard |-> 0,
             jobs |-> [s \in Slots |-> IF s = Source
                         THEN [status |-> "COMPLETED", prep |-> 1, rev |-> 1] ELSE NoJob],
             preps |-> [p \in PrepIds |-> IF p = 1
                         THEN [status |-> "COMPLETED", rev |-> 1, managed |-> TRUE]
                         ELSE NoPrep],
             batch |-> NoBatch, items |-> [i \in Items |-> "NONE"],
             exp |-> NoExp, trials |-> [t \in Trials |-> NoTrial]]
    /\ tick = Idle /\ post = NoPost
    /\ up = TRUE /\ crashes = 0

Serve(d) == up /\ db' = d /\ UNCHANGED <<tick, post, up, crashes>>

Dies == /\ up /\ crashes < MaxCrashes
        /\ up' = FALSE /\ crashes' = crashes + 1
        /\ tick' = Idle /\ post' = NoPost

\* The tables are `d`; the event of a job follows, if the server lives to see it.
ThenEvent(d) ==
    \/ Serve(OnJobStatusChanged(d))
    \/ Dies /\ \E n \in 0..Cardinality(Items) : db' = PumpUpTo(d, n)

\* A request of an experiment ends in pump, which ticks unless a tick is under way.
ThenTick(d) ==
    /\ up /\ UNCHANGED <<post, up, crashes>>
    /\ IF tick = Idle THEN \E o \in Tick(d) : db' = o.db /\ tick' = o.tick
       ELSE db' = d /\ tick' = tick

-----------------------------------------------------------------------------
(* The data, the preparations and the jobs.                                *)

ChangeData == db.rev < MaxRevision /\ Serve([db EXCEPT !.rev = @ + 1])

\* The data no longer bear out what the batch was made from; nobody looks at that
\* once all of its items are jobs.
SnapshotDrifts ==
    /\ \E i \in Items : db.items[i] = "PENDING"
    /\ Serve([db EXCEPT !.valid = FALSE])

EndPreparation(p) ==
    \/ /\ db.preps[p].status = "ACTIVE"
       /\ \/ Serve([db EXCEPT !.preps[p].status = "COMPLETED", !.preps[p].rev = db.rev])
          \/ Serve([db EXCEPT !.preps[p].status = "FAILED"])
    \/ /\ db.preps[p].status = "CANCELLING"
       /\ Serve([db EXCEPT !.preps[p].status = "CANCELLED"])

ClaimJob(s) ==
    /\ db.jobs[s].status = "QUEUED"
    /\ \E r \in db.jobs[s].rev..db.rev :
         ThenEvent([db EXCEPT !.jobs[s].status = "RUNNING", !.jobs[s].rev = r])

HandBackJob(s) == db.jobs[s].status = "RUNNING" /\ ThenEvent(SetStatus(db, s, "QUEUED"))

EndJob(s) ==
    \/ /\ db.jobs[s].status = "RUNNING"
       /\ \E status \in {"COMPLETED", "FAILED"} : ThenEvent(SetStatus(db, s, status))
    \/ db.jobs[s].status = "CANCELLING" /\ ThenEvent(SetStatus(db, s, "CANCELLED"))

-----------------------------------------------------------------------------
(* Users.                                                                  *)

\* POST universe-preview
Preview(input) ==
    \E p \in RowFor(db, input) : Serve(BindWizard(Start(db, p), p))

\* An autosave of the page that clones the source binds the source's preview.
SaveDraft ==
    /\ 0 \in PreviewInputs
    /\ db.wizard = 0 /\ db.jobs[Source].prep # 0
    /\ Serve(BindWizard(db, db.jobs[Source].prep))

RemoveDraft == db.wizard # 0 /\ Serve(ReleaseWizard(db))

CancelPreparation(p) ==
    db.preps[p].status = "ACTIVE" /\ Serve([db EXCEPT !.preps[p].status = "CANCELLING"])

CancelJob(s) ==
    db.jobs[s].status \in {"QUEUED", "RUNNING"} /\ ThenEvent(CancelJobs(db, {s}))

RemoveJob(s) == JobDeletable(db, s) /\ Serve(DeleteJob(db, s))

\* A submission, up to its last await: validated, and the queue had room.  The
\* earlier awaits add nothing, as the revision seen before them is compared again.
BeginPost(kind) ==
    LET p == IF kind = "wizard" THEN db.wizard ELSE db.jobs[Source].prep
    IN  /\ up /\ post = NoPost
        /\ Fresh(db, p)
        /\ IF kind = "seeds" THEN db.batch.status = "NONE"
           ELSE ~ QueueIsFull(db) /\ \E u \in UserSlots : db.jobs[User(u)] = NoJob
        /\ post' = [kind |-> kind, prep |-> p, rev |-> db.rev]
        /\ UNCHANGED <<db, tick, up, crashes>>

\* What the transaction of enqueue and create compares again.
StillValid(d, p) ==
    /\ d.rev = p.rev
    /\ d.preps[p.prep].status = "COMPLETED"
    /\ p.kind = "wizard" => d.wizard = p.prep /\ Fresh(d, p.prep)

CommitPost ==
    /\ up /\ post # NoPost
    /\ post' = NoPost
    /\ UNCHANGED <<tick, up, crashes>>
    /\ IF ~ StillValid(db, post) THEN db' = db
       ELSE IF post.kind = "seeds" THEN db' = CreateBatch(db, post.prep)
       ELSE LET u == CHOOSE v \in UserSlots : db.jobs[User(v)] = NoJob
            IN  \E ofWizard \in (IF post.kind = "wizard" THEN {TRUE} ELSE BOOLEAN) :
                  db' = Enqueue(db, User(u), post.prep, ofWizard)

StopSeeds ==
    /\ db.batch.status # "NONE"
    /\ \/ Serve(CancelBatch(db))
       \/ Dies /\ db' = StopBatch(db)

RemoveSeeds == BatchDeletable(db) /\ Serve(DeleteBatch(db))

BeginExperiment(mode) ==
    /\ db.exp.status = "NONE" /\ db.jobs[Source].status = "COMPLETED"
    /\ ThenTick(CreateExperiment(db, mode))

CancelExperiment ==
    db.exp.status = "ACTIVE" /\ ThenTick([db EXCEPT !.exp.status = "CANCELLING"])

RemoveExperiment == ExperimentDeletable(db) /\ Serve(DeleteExperiment(db))

-----------------------------------------------------------------------------
(* The server.                                                             *)

TimerTick ==
    db.exp.status \in {"ACTIVE", "CANCELLING"} /\ tick = Idle /\ ThenTick(db)

ResumeTick ==
    /\ up /\ tick # Idle
    /\ \E o \in (IF tick.at = "ready" THEN ResumeReady(db, tick) ELSE ResumeBuild(db, tick)) :
         db' = o.db /\ tick' = o.tick
    /\ UNCHANGED <<post, up, crashes>>

Crash == Dies /\ db' = db

\* Mutant: the batches are left to the next event.
BootWithoutRecovery ==
    /\ ~ up
    /\ up' = TRUE
    /\ db' = Collect(db)
    /\ UNCHANGED <<tick, post, crashes>>

\* The container collects, main recovers the batches.
Boot ==
    /\ ~ up
    /\ up' = TRUE
    /\ db' = OnJobStatusChanged(Collect(db))
    /\ UNCHANGED <<tick, post, crashes>>

Next ==
    \/ ChangeData \/ SnapshotDrifts
    \/ \E p \in PrepIds : EndPreparation(p) \/ CancelPreparation(p)
    \/ \E s \in Slots : ClaimJob(s) \/ HandBackJob(s) \/ EndJob(s) \/ CancelJob(s) \/ RemoveJob(s)
    \/ \E input \in PreviewInputs : Preview(input)
    \/ SaveDraft \/ RemoveDraft
    \/ \E kind \in Posts : BeginPost(kind)
    \/ CommitPost
    \/ StopSeeds \/ RemoveSeeds
    \/ \E mode \in Modes : BeginExperiment(mode)
    \/ CancelExperiment \/ RemoveExperiment
    \/ TimerTick \/ ResumeTick
    \/ Crash \/ Boot

Spec == Init /\ [][Next]_vars

\* The timer comes, awaits end and a server that died is started again, of which only
\* one is possible at a time; and what is under way ends: of the previews of an experiment one after the other, of those a
\* user can ask for each; of the jobs of users, of a batch and of an experiment one
\* after the other, although an agent may hand a job back any number of times.
LiveSpec ==
    /\ Spec
    /\ WF_vars(TimerTick \/ ResumeTick \/ Boot)
    /\ \A G \in {Inputs \ PreviewInputs} \cup {{input} : input \in PreviewInputs} :
         WF_vars(\E p \in PrepIds : PrepInput(p) \in G /\ EndPreparation(p))
    /\ \A G \in {UserJobs, ItemJobs, TrialJobs} :
         /\ WF_vars(\E s \in G : ClaimJob(s))
         /\ SF_vars(\E s \in G : EndJob(s))

-----------------------------------------------------------------------------
(* Properties.                                                             *)

\* What a row refers to is kept by every collection, whoever ends, deletes or
\* submits meanwhile; and a job or a batch refers to a finished preview.
ReferencedPreparationsStay ==
    /\ \A s \in Slots : db.jobs[s].prep # 0 => db.preps[db.jobs[s].prep].status = "COMPLETED"
    /\ db.batch.prep # 0 => db.preps[db.batch.prep].status = "COMPLETED"
    /\ db.wizard # 0 => db.preps[db.wizard].status # "NONE"
    /\ \A t \in Trials : db.trials[t].prep # 0 => db.preps[db.trials[t].prep].status # "NONE"

\* A batch that has completed or was cancelled has no job under way, and no item
\* left that could become one.
BatchEndsQuietly ==
    db.batch.status \in {"COMPLETED", "CANCELLED"} =>
        \A i \in Items : db.items[i] # "PENDING" /\ JobEnded(db, Item(i))

\* The same for an experiment, however it ended.
ExperimentEndsQuietly ==
    db.exp.status \in Ended => \A s \in TrialJobs : JobEnded(db, s)

\* What the server submits by itself never goes beyond the limit of the queue,
\* although between the two looks a tick takes at it (before and after
\* buildEnqueue) users submit, batches promote and devices hand jobs back.
BackgroundRespectsLimit ==
    [][ (\E s \in ItemJobs \cup TrialJobs :
            db.jobs[s].status = "NONE" /\ db'.jobs[s].status = "QUEUED")
        => Queued(db') <= MaxQueued ]_vars

\* Runs are compared, and a fold is decided, only on one revision of the data.
ComparedOnSameData ==
    [][ /\ db.exp.status = "ACTIVE" /\ db.exp.phase \in {"TRAIN", "OOS"}
        /\ db'.exp.status \in {"ACTIVE", "COMPLETED"}
        /\ db'.exp # db.exp
        => \A t, u \in Group(db) : /\ db.jobs[Trial(t)].status = "COMPLETED"
                                   /\ db.jobs[Trial(t)].rev = db.jobs[Trial(u)].rev ]_vars

\* Once a cancellation was accepted no run is submitted and no preview asked for,
\* also not by a tick that was waiting at that moment.
CancelledExperimentsLaunchNothing ==
    [][ db.exp.status \in {"CANCELLING"} \cup Ended /\ db'.exp.status # "NONE" =>
          \A t \in Trials : /\ db'.trials[t].launched = db.trials[t].launched
                            /\ db'.trials[t].prep = db.trials[t].prep ]_vars

\* The source of an experiment and the runs it was decided on cannot be deleted
\* while it exists.
ExperimentsKeepTheirRuns ==
    db.exp.status # "NONE" =>
        /\ db.jobs[Source].status = "COMPLETED"
        /\ \A t \in Trials : db.trials[t].launched => db.jobs[Trial(t)].status # "NONE"
        /\ db.exp.status = "COMPLETED" =>
             \A t \in TrialsOf(db.exp.mode) :
                 db.trials[t].launched /\ db.jobs[Trial(t)].status = "COMPLETED"

\* A batch ends, over full queues, deaths of the server in the middle of a
\* promotion, and cancellations.
BatchesEnd ==
    db.batch.status \in {"ACTIVE", "CANCELLING"} ~> db.batch.status \in Ended \cup {"NONE"}

\* An experiment ends, whatever happens to its previews, its jobs and the data.
ExperimentsEnd ==
    db.exp.status \in {"ACTIVE", "CANCELLING"} ~> db.exp.status \in Ended \cup {"NONE"}
=============================================================================
