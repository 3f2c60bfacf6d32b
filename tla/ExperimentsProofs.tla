-------------------------- MODULE ExperimentsProofs --------------------------
(* Proofs about Experiments. The tables are a record `d`, and every operator   *)
(* of Submissions, SeedBatches and PeriodValidation is a function on it: one   *)
(* lemma for each operator says that it keeps the invariant Sound(d, w, q), w  *)
(* being where the tick waits and q the submission that waits for its checks.  *)
EXTENDS Experiments, FiniteSetTheorems, WellFoundedInduction, TLAPS

-----------------------------------------------------------------------------
(* Types.                                                                  *)

Refs  == {0} \cup PrepIds
Kinds == {"wizard", "clone", "seeds"}
ExpModes  == {"NONE", "HOLDOUT", "OPTIMIZED_HOLDOUT", "WALK_FORWARD"}
ExpPhases == {"NONE", "PREPARING_TRAIN", "TRAIN", "PREPARING_OOS", "OOS"}
RowStatus == {"NONE", "ACTIVE", "CANCELLING"} \cup Ended

Job   == [status : {"NONE"} \cup Live \cup Ended, prep : Refs, rev : Nat]
Prep  == [status : RowStatus, rev : Nat, managed : BOOLEAN]
Batch == [status : RowStatus, prep : Refs]
Exp   == [status : RowStatus, mode : ExpModes, phase : ExpPhases, fold : Nat,
          rev : Nat, error : BOOLEAN]
TrialRow == [prep : Refs, launched : BOOLEAN, candidate : Nat]

Tables ==
    [rev : Nat, valid : BOOLEAN, wizard : Refs,
     jobs : [Slots -> Job], preps : [PrepIds -> Prep],
     batch : Batch, items : [Items -> {"NONE", "PENDING", "DISPATCHED", "CANCELLED"}],
     exp : Exp, trials : [Trials -> TrialRow]]

Wait == {Idle} \cup [at : {"ready", "build"}, trial : Trials, prep : Refs,
                     phase : ExpPhases, fold : Nat]

Submission == {NoPost} \cup [kind : Kinds, prep : PrepIds, rev : Nat]

-----------------------------------------------------------------------------
(* The invariant.                                                          *)

\* ReferencedPreparationsStay, of any tables.
RefsInv(d) ==
    /\ \A s \in Slots : d.jobs[s].prep # 0 => d.preps[d.jobs[s].prep].status = "COMPLETED"
    /\ d.batch.prep # 0 => d.preps[d.batch.prep].status = "COMPLETED"
    /\ d.wizard # 0 => d.preps[d.wizard].status # "NONE"
    /\ \A t \in Trials : d.trials[t].prep # 0 => d.preps[d.trials[t].prep].status # "NONE"

\* BatchEndsQuietly, and: only an item that was dispatched has a job.
BatchInv(d) ==
    /\ \A i \in Items : d.items[i] # "DISPATCHED" => d.jobs[Item(i)] = NoJob
    /\ d.batch.status = "NONE" => \A i \in Items : d.items[i] = "NONE"
    /\ d.batch.status \in {"COMPLETED", "CANCELLED"} =>
          \A i \in Items : d.items[i] # "PENDING" /\ JobEnded(d, Item(i))

\* The trials of the groups before the one the experiment is at.
Past(d) ==
    {t \in TrialsOf(d.exp.mode) :
        \/ FoldOf(t) < d.exp.fold
        \/ FoldOf(t) = d.exp.fold /\ IsTrain(t) /\ d.exp.phase \in {"PREPARING_OOS", "OOS"}}

\* A trial has a job when it was launched, and it keeps it.
LaunchInv(d) ==
    \A t \in Trials : IF d.trials[t].launched THEN d.jobs[Trial(t)].status # "NONE"
                      ELSE d.jobs[Trial(t)] = NoJob

\* The groups before were run to their end, those that follow not begun.
GroupInv(d) ==
    IF d.exp.status = "NONE" THEN \A t \in Trials : ~ d.trials[t].launched
    ELSE /\ d.exp.phase # "NONE"
         /\ d.jobs[Source].status = "COMPLETED"
         /\ \A t \in Past(d) : d.trials[t].launched /\ d.jobs[Trial(t)].status = "COMPLETED"
         /\ \A t \in Trials : d.trials[t].launched =>
              \/ t \in Past(d)
              \/ t \in Group(d) /\ ~ Preparing(d)

\* ExperimentEndsQuietly, and what a completed one has run.
EndInv(d) ==
    /\ d.exp.status \in Ended => \A s \in TrialJobs : JobEnded(d, s)
    /\ d.exp.status = "COMPLETED" =>
          \A t \in TrialsOf(d.exp.mode) :
              d.trials[t].launched /\ d.jobs[Trial(t)].status = "COMPLETED"

\* The runs of the group at hand were made on the revision it was prepared on
\* or on a later one.
RevInv(d) ==
    \A t \in Group(d) : d.trials[t].launched =>
        d.exp.rev <= d.jobs[Trial(t)].rev /\ d.jobs[Trial(t)].rev <= d.rev

\* What a tick that waits for a run to be built comes back to: the experiment
\* is where it was and the preview is still there, unless it has gone on to
\* another phase (and it can only have been cancelled, or be a new one).
TickInv(d, w) ==
    w.at = "build" =>
        /\ w.phase \in {"TRAIN", "OOS"}
        /\ d.exp.phase = w.phase =>
              /\ w.trial \in Group(d) /\ w.prep # 0
              /\ d.trials[w.trial].prep = w.prep
              /\ d.preps[w.prep].status = "COMPLETED"

\* What a submission that waits for its checks comes back to.
PostInv(d, q) ==
    /\ q.kind = "seeds" => d.batch.status = "NONE"
    /\ q.kind \in {"wizard", "clone"} => \E u \in UserSlots : d.jobs[User(u)] = NoJob

Sound(d, w, q) ==
    /\ d \in Tables
    /\ RefsInv(d) /\ BatchInv(d) /\ LaunchInv(d) /\ GroupInv(d) /\ EndInv(d) /\ RevInv(d)
    /\ TickInv(d, w) /\ PostInv(d, q)

ExpInv ==
    /\ tick \in Wait /\ post \in Submission /\ up \in BOOLEAN
    /\ Sound(db, tick, post)

-----------------------------------------------------------------------------
(* The rows.                                                               *)

LEMMA SlotsDiffer ==
    /\ \A u, i : User(u) # Item(i) /\ User(u) # Trial(i) /\ Item(u) # Trial(i)
    /\ \A x : User(x) # Source /\ Item(x) # Source /\ Trial(x) # Source
    /\ \A x, y : (User(x) = User(y) => x = y) /\ (Item(x) = Item(y) => x = y)
                 /\ (Trial(x) = Trial(y) => x = y)
  BY DEF User, Item, Trial, Source

LEMMA SlotsAre ==
    /\ Source \in Slots
    /\ \A u \in UserSlots : User(u) \in Slots
    /\ \A i \in Items : Item(i) \in Slots /\ Item(i) \in ItemJobs
    /\ \A t \in Trials : Trial(t) \in Slots /\ Trial(t) \in TrialJobs
    /\ \A s \in ItemJobs : \E i \in Items : s = Item(i)
    /\ \A s \in TrialJobs : \E t \in Trials : s = Trial(t)
    /\ \A s \in Slots : s = Source \/ s \in UserJobs \/ s \in ItemJobs \/ s \in TrialJobs
    /\ \A s \in UserJobs : \E u \in UserSlots : s = User(u)
  BY DEF Slots, UserJobs, ItemJobs, TrialJobs

LEMMA PrepIdsAre == 0 \notin PrepIds /\ PrepIds \subseteq Nat /\ 1 \in PrepIds
<1>1. 0 \notin PrepIds /\ PrepIds \subseteq Nat
  BY SubmissionsAssumption DEF PrepIds
<1>2. PrepInput(1) = 0
  BY SubmissionsAssumption DEF PrepInput
<1>3. 1 \in 1..(9 * MaxPreps)
  BY SubmissionsAssumption
<1> QED
  BY <1>1, <1>2, <1>3 DEF PrepIds, Inputs

LEMMA FoldsAre ==
  ASSUME NEW t \in Trials
  PROVE  FoldOf(t) \in Nat /\ Candidate(t) \in 0..3
  BY SubmissionsAssumption DEF FoldOf, Candidate

\* What the fields of the tables are.
LEMMA Fields ==
  ASSUME NEW d \in Tables
  PROVE  /\ d.rev \in Nat /\ d.valid \in BOOLEAN /\ d.wizard \in Refs
         /\ d.jobs \in [Slots -> Job] /\ d.preps \in [PrepIds -> Prep]
         /\ d.batch \in Batch
         /\ d.items \in [Items -> {"NONE", "PENDING", "DISPATCHED", "CANCELLED"}]
         /\ d.exp \in Exp /\ d.trials \in [Trials -> TrialRow]
         /\ d = [rev |-> d.rev, valid |-> d.valid, wizard |-> d.wizard, jobs |-> d.jobs,
                 preps |-> d.preps, batch |-> d.batch, items |-> d.items,
                 exp |-> d.exp, trials |-> d.trials]
  BY DEF Tables

-----------------------------------------------------------------------------
(* What the operators of Submissions do to the tables.                     *)

LEMMA CollectEffect ==
  ASSUME NEW d \in Tables
  PROVE  /\ Collect(d) \in Tables
         /\ Collect(d).rev = d.rev /\ Collect(d).valid = d.valid
         /\ Collect(d).wizard = d.wizard /\ Collect(d).jobs = d.jobs
         /\ Collect(d).batch = d.batch /\ Collect(d).items = d.items
         /\ Collect(d).exp = d.exp /\ Collect(d).trials = d.trials
         /\ \A p \in PrepIds : IF d.preps[p].managed /\ d.preps[p].status \in Ended
                                  /\ ~ IsReferenced(d, p)
                               THEN Collect(d).preps[p] = NoPrep
                               ELSE Collect(d).preps[p] = d.preps[p]
<1> DEFINE Q == [p \in PrepIds |->
                  IF d.preps[p].managed /\ d.preps[p].status \in Ended /\ ~ IsReferenced(d, p)
                  THEN NoPrep ELSE d.preps[p]]
<1>1. Q \in [PrepIds -> Prep]
  <2>1. NoPrep \in Prep
    BY DEF NoPrep, Prep, RowStatus
  <2> QED
    BY <2>1, Fields
<1>2. Collect(d) = [d EXCEPT !.preps = Q]
  BY DEF Collect
<1>3. \A p \in PrepIds : IF d.preps[p].managed /\ d.preps[p].status \in Ended
                            /\ ~ IsReferenced(d, p)
                         THEN Q[p] = NoPrep ELSE Q[p] = d.preps[p]
  OBVIOUS
<1> HIDE DEF Q
<1> QED
  BY <1>1, <1>2, <1>3 DEF Tables

LEMMA JobsEffect ==
  ASSUME NEW d \in Tables, NEW J \in [Slots -> Job], NEW e, e = [d EXCEPT !.jobs = J]
  PROVE  /\ e \in Tables /\ e.jobs = J
         /\ e.rev = d.rev /\ e.valid = d.valid /\ e.wizard = d.wizard /\ e.preps = d.preps
         /\ e.batch = d.batch /\ e.items = d.items /\ e.exp = d.exp /\ e.trials = d.trials
  BY DEF Tables

-----------------------------------------------------------------------------
(* Steps of one kind of row, and what they leave.                          *)

\* Preparations that are referred to stay, and the completed ones completed.
LEMMA PrepsStep ==
  ASSUME NEW w, NEW q, NEW d, Sound(d, w, q), NEW e \in Tables,
         e.jobs = d.jobs, e.trials = d.trials, e.exp = d.exp, e.rev = d.rev,
         e.batch = d.batch, e.items = d.items,
         \A p \in PrepIds : IsReferenced(d, p) =>
           /\ d.preps[p].status # "NONE" => e.preps[p].status # "NONE"
           /\ d.preps[p].status = "COMPLETED" => e.preps[p].status = "COMPLETED",
         e.wizard \in {0, d.wizard} \/ e.preps[e.wizard].status # "NONE"
  PROVE  Sound(e, w, q)
<1> USE DEF Sound
<1>1. d \in Tables
  OBVIOUS
<1>2. RefsInv(e)
  <2>1. \A s \in Slots : d.jobs[s].prep \in Refs
    BY <1>1, Fields DEF Job
  <2>2. d.batch.prep \in Refs /\ d.wizard \in Refs
    BY <1>1, Fields DEF Batch
  <2>3. \A t \in Trials : d.trials[t].prep \in Refs
    BY <1>1, Fields DEF TrialRow
  <2>4. \A s \in Slots : e.jobs[s].prep # 0 => e.preps[e.jobs[s].prep].status = "COMPLETED"
    BY <2>1 DEF RefsInv, IsReferenced, Refs
  <2>5. e.batch.prep # 0 => e.preps[e.batch.prep].status = "COMPLETED"
    BY <2>2 DEF RefsInv, IsReferenced, Refs
  <2>6. e.wizard # 0 => e.preps[e.wizard].status # "NONE"
    BY <2>2 DEF RefsInv, IsReferenced, Refs
  <2>7. \A t \in Trials : e.trials[t].prep # 0 => e.preps[e.trials[t].prep].status # "NONE"
    BY <2>3 DEF RefsInv, IsReferenced, Refs
  <2> QED
    BY <2>4, <2>5, <2>6, <2>7 DEF RefsInv
<1>3. BatchInv(e)
  BY DEF BatchInv, JobEnded
<1>4. LaunchInv(e)
  BY DEF LaunchInv
<1>5. GroupInv(e)
  BY DEF GroupInv, Past, Group, Preparing
<1>6. EndInv(e)
  BY DEF EndInv, JobEnded
<1>7. RevInv(e)
  BY DEF RevInv, Group
<1>8. TickInv(e, w)
  <2>1. Group(e) = Group(d)
    BY DEF Group
  <2>2. d.trials \in [Trials -> TrialRow] /\ Group(d) \subseteq Trials
    BY <1>1, Fields DEF Group, TrialsOf
  <2>3. ASSUME w.at = "build", d.exp.phase = w.phase
        PROVE  e.preps[w.prep].status = "COMPLETED"
    <3>1. w.trial \in Trials /\ w.prep # 0 /\ d.trials[w.trial].prep = w.prep
          /\ d.preps[w.prep].status = "COMPLETED"
      BY <2>2, <2>3 DEF TickInv
    <3>2. w.prep \in PrepIds
      BY <2>2, <3>1 DEF TrialRow, Refs
    <3> QED
      BY <3>1, <3>2 DEF IsReferenced
  <2> QED
    BY <2>1, <2>3 DEF TickInv
<1>9. PostInv(e, q)
  BY DEF PostInv
<1> QED
  BY <1>2, <1>3, <1>4, <1>5, <1>6, <1>7, <1>8, <1>9

\* collect keeps whatever is referred to.
LEMMA CollectSound ==
  ASSUME NEW w, NEW q, NEW d, Sound(d, w, q)
  PROVE  Sound(Collect(d), w, q)
<1>1. d \in Tables
  BY DEF Sound
<1> QED
  BY <1>1, CollectEffect, PrepsStep

\* A job under way goes on: its preview stays, its revision may advance.
JobStep(d, e, s) ==
    \/ e.jobs[s] = d.jobs[s]
    \/ /\ d.jobs[s].status \in Live /\ e.jobs[s].status # "NONE"
       /\ e.jobs[s].prep = d.jobs[s].prep
       /\ \/ e.jobs[s].rev = d.jobs[s].rev
          \/ d.jobs[s].rev <= e.jobs[s].rev /\ e.jobs[s].rev <= d.rev

LEMMA JobsStep ==
  ASSUME NEW w, NEW q, NEW d, Sound(d, w, q), NEW e \in Tables,
         e.preps = d.preps, e.trials = d.trials, e.exp = d.exp, e.rev = d.rev,
         e.batch = d.batch, e.items = d.items, e.wizard = d.wizard,
         \A s \in Slots : JobStep(d, e, s)
  PROVE  Sound(e, w, q)
<1> USE DEF Sound
<1>1. d \in Tables /\ d.jobs \in [Slots -> Job] /\ e.jobs \in [Slots -> Job]
  BY Fields
<1>2. \A s \in Slots : /\ e.jobs[s].prep = d.jobs[s].prep
                       /\ d.jobs[s].status \notin Live => e.jobs[s] = d.jobs[s]
                       /\ e.jobs[s].status = "NONE" => e.jobs[s] = d.jobs[s]
  BY <1>1 DEF JobStep
<1>3. \A s \in Slots : d.jobs[s] = NoJob => e.jobs[s] = NoJob
  BY <1>2 DEF NoJob, Live
<1>4. RefsInv(e)
  BY <1>2 DEF RefsInv
<1>5. BatchInv(e)
  BY <1>2, <1>3, SlotsAre DEF BatchInv, JobEnded
<1>6. LaunchInv(e)
  BY <1>2, <1>3, SlotsAre DEF LaunchInv
<1>7. \A s \in Slots : d.jobs[s].status = "COMPLETED" => e.jobs[s].status = "COMPLETED"
  BY <1>2 DEF Live
<1>8. GroupInv(e)
  <2>1. Past(e) = Past(d) /\ Group(e) = Group(d) /\ Preparing(e) = Preparing(d)
        /\ Past(d) \subseteq Trials
    BY DEF Past, Group, Preparing, TrialsOf
  <2> QED
    BY <1>7, <2>1, SlotsAre DEF GroupInv
<1>9. EndInv(e)
  <2>1. \A s \in TrialJobs : s \in Slots
    BY SlotsAre
  <2>2. e.exp.status \in Ended => \A s \in TrialJobs : JobEnded(e, s)
    BY <1>2, <2>1 DEF EndInv, JobEnded
  <2>3. \A t \in TrialsOf(d.exp.mode) : t \in Trials
    BY DEF TrialsOf
  <2> QED
    BY <1>7, <2>2, <2>3, SlotsAre DEF EndInv
<1>10. RevInv(e)
  <2>1. \A s \in Slots : d.jobs[s].rev \in Nat /\ e.jobs[s].rev \in Nat
    BY <1>1 DEF Job
  <2>2. Group(e) = Group(d) /\ Group(d) \subseteq Trials /\ d.rev \in Nat /\ d.exp.rev \in Nat
    BY <1>1, Fields DEF Group, TrialsOf, Exp
  <2>3. ASSUME NEW t \in Group(d), d.trials[t].launched
        PROVE  d.exp.rev <= e.jobs[Trial(t)].rev /\ e.jobs[Trial(t)].rev <= d.rev
    <3>1. Trial(t) \in Slots /\ JobStep(d, e, Trial(t))
      BY <2>2, <2>3, SlotsAre
    <3>2. d.exp.rev <= d.jobs[Trial(t)].rev /\ d.jobs[Trial(t)].rev <= d.rev
      BY <2>3 DEF RevInv
    <3> QED
      BY <2>1, <2>2, <3>1, <3>2 DEF JobStep
  <2> QED
    BY <2>2, <2>3 DEF RevInv
<1>11. TickInv(e, w)
  BY DEF TickInv, Group
<1>12. PostInv(e, q)
  BY <1>3, SlotsAre DEF PostInv
<1> QED
  BY <1>4, <1>5, <1>6, <1>8, <1>9, <1>10, <1>11, <1>12

-----------------------------------------------------------------------------
(* Jobs that change their status.                                          *)

LEMMA CancelJobsEffect ==
  ASSUME NEW d \in Tables, NEW S
  PROVE  /\ CancelJobs(d, S) \in Tables
         /\ CancelJobs(d, S).rev = d.rev /\ CancelJobs(d, S).valid = d.valid
         /\ CancelJobs(d, S).wizard = d.wizard /\ CancelJobs(d, S).preps = d.preps
         /\ CancelJobs(d, S).batch = d.batch /\ CancelJobs(d, S).items = d.items
         /\ CancelJobs(d, S).exp = d.exp /\ CancelJobs(d, S).trials = d.trials
         /\ \A s \in Slots :
              \/ CancelJobs(d, S).jobs[s] = d.jobs[s]
              \/ /\ s \in S /\ d.jobs[s].status \in {"QUEUED", "RUNNING"}
                 /\ CancelJobs(d, S).jobs[s].status \in {"CANCELLED", "CANCELLING"}
                 /\ CancelJobs(d, S).jobs[s].prep = d.jobs[s].prep
                 /\ CancelJobs(d, S).jobs[s].rev = d.jobs[s].rev
<1> DEFINE New(s) == CASE d.jobs[s].status = "QUEUED" /\ s \in S
                            -> [d.jobs[s] EXCEPT !.status = "CANCELLED"]
                       [] d.jobs[s].status = "RUNNING" /\ s \in S
                            -> [d.jobs[s] EXCEPT !.status = "CANCELLING"]
                       [] OTHER -> d.jobs[s]
           J == [s \in Slots |-> New(s)]
<1>1. ASSUME NEW s \in Slots
      PROVE  /\ New(s) \in Job
             /\ \/ New(s) = d.jobs[s]
                \/ /\ s \in S /\ d.jobs[s].status \in {"QUEUED", "RUNNING"}
                   /\ New(s).status \in {"CANCELLED", "CANCELLING"}
                   /\ New(s).prep = d.jobs[s].prep /\ New(s).rev = d.jobs[s].rev
  <2>1. d.jobs[s] \in Job
    BY Fields
  <2>2. CASE d.jobs[s].status = "QUEUED" /\ s \in S
    <3>1. New(s) = [d.jobs[s] EXCEPT !.status = "CANCELLED"]
      BY <2>2
    <3> HIDE DEF New
    <3> QED
      BY <2>1, <2>2, <3>1 DEF Job, Live, Ended
  <2>3. CASE d.jobs[s].status = "RUNNING" /\ s \in S
    <3>1. New(s) = [d.jobs[s] EXCEPT !.status = "CANCELLING"]
      BY <2>3
    <3> HIDE DEF New
    <3> QED
      BY <2>1, <2>3, <3>1 DEF Job, Live, Ended
  <2>4. CASE d.jobs[s].status \notin {"QUEUED", "RUNNING"} \/ s \notin S
    <3>1. New(s) = d.jobs[s]
      BY <2>4
    <3> HIDE DEF New
    <3> QED
      BY <2>1, <3>1
  <2> QED
    BY <2>2, <2>3, <2>4
<1>2. CancelJobs(d, S) = [d EXCEPT !.jobs = J]
  BY DEF CancelJobs
<1>3. \A s \in Slots : J[s] = New(s)
  OBVIOUS
<1> HIDE DEF New
<1>4. J \in [Slots -> Job]
  BY <1>1
<1> HIDE DEF J
<1> QED
  BY <1>1, <1>2, <1>3, <1>4, JobsEffect

LEMMA CancelJobsSound ==
  ASSUME NEW w, NEW q, NEW d, Sound(d, w, q), NEW S
  PROVE  Sound(CancelJobs(d, S), w, q)
<1>1. d \in Tables
  BY DEF Sound
<1>2. \A s \in Slots : JobStep(d, CancelJobs(d, S), s)
  BY <1>1, CancelJobsEffect DEF JobStep, Live
<1> QED
  BY <1>1, <1>2, CancelJobsEffect, JobsStep

LEMMA NewStatus ==
  ASSUME NEW x \in Job, NEW status, NEW r
  PROVE  /\ [[x EXCEPT !.status = status] EXCEPT !.rev = r]
               = [status |-> status, prep |-> x.prep, rev |-> r]
         /\ [x EXCEPT !.status = status] = [status |-> status, prep |-> x.prep, rev |-> x.rev]
<1>1. x = [status |-> x.status, prep |-> x.prep, rev |-> x.rev]
  BY DEF Job
<1>2. [x EXCEPT !.status = status] = [status |-> status, prep |-> x.prep, rev |-> x.rev]
  BY <1>1
<1>3. [[status |-> status, prep |-> x.prep, rev |-> x.rev] EXCEPT !.rev = r]
        = [status |-> status, prep |-> x.prep, rev |-> r]
  OBVIOUS
<1> QED
  BY <1>2, <1>3

\* A job under way gets another status, and when it is claimed a revision.
Moved(d, s, status, r) ==
    [d EXCEPT !.jobs = [d.jobs EXCEPT ![s] = [status |-> status, prep |-> d.jobs[s].prep,
                                              rev |-> r]]]

LEMMA MovedEffect ==
  ASSUME NEW d \in Tables, NEW s \in Slots, NEW r \in Nat, NEW status \in Live \cup Ended
  PROVE  LET e == Moved(d, s, status, r)
         IN  /\ e \in Tables
             /\ e.rev = d.rev /\ e.valid = d.valid /\ e.wizard = d.wizard /\ e.preps = d.preps
             /\ e.batch = d.batch /\ e.items = d.items /\ e.exp = d.exp /\ e.trials = d.trials
             /\ \A x \in Slots : e.jobs[x] = IF x = s
                   THEN [status |-> status, prep |-> d.jobs[s].prep, rev |-> r] ELSE d.jobs[x]
<1> DEFINE J == [d.jobs EXCEPT ![s] = [status |-> status, prep |-> d.jobs[s].prep, rev |-> r]]
<1>1. d.jobs \in [Slots -> Job] /\ d.jobs[s] \in Job
  BY Fields
<1>2. [status |-> status, prep |-> d.jobs[s].prep, rev |-> r] \in Job
  BY <1>1 DEF Job
<1>3. Moved(d, s, status, r) = [d EXCEPT !.jobs = J]
  BY DEF Moved
<1>4. J \in [Slots -> Job]
  BY <1>1, <1>2
<1>5. \A x \in Slots : J[x] = IF x = s THEN [status |-> status, prep |-> d.jobs[s].prep, rev |-> r]
                              ELSE d.jobs[x]
  BY <1>1
<1> HIDE DEF J
<1> QED
  BY <1>3, <1>4, <1>5, JobsEffect

LEMMA SetStatusMoves ==
  ASSUME NEW d \in Tables, NEW s \in Slots, NEW status
  PROVE  SetStatus(d, s, status) = Moved(d, s, status, d.jobs[s].rev)
<1>1. d.jobs \in [Slots -> Job] /\ d.jobs[s] \in Job
  BY Fields
<1>2. [d.jobs[s] EXCEPT !.status = status]
        = [status |-> status, prep |-> d.jobs[s].prep, rev |-> d.jobs[s].rev]
  BY <1>1, NewStatus
<1> QED
  BY <1>1, <1>2 DEF SetStatus, Moved

Claimed(d, s, r) == [d EXCEPT !.jobs[s].status = "RUNNING", !.jobs[s].rev = r]

LEMMA ClaimMoves ==
  ASSUME NEW d \in Tables, NEW s \in Slots, NEW r
  PROVE  Claimed(d, s, r) = Moved(d, s, "RUNNING", r)
<1>1. d.jobs \in [Slots -> Job] /\ d.jobs[s] \in Job
  BY Fields
<1>2. [[d.jobs[s] EXCEPT !.status = "RUNNING"] EXCEPT !.rev = r]
        = [status |-> "RUNNING", prep |-> d.jobs[s].prep, rev |-> r]
  BY <1>1, NewStatus
<1> QED
  BY <1>1, <1>2, Fields DEF Moved, Claimed

LEMMA MovedSound ==
  ASSUME NEW w, NEW q, NEW d, Sound(d, w, q), NEW s \in Slots, d.jobs[s].status \in Live,
         NEW status \in Live \cup Ended, NEW r \in Nat,
         r = d.jobs[s].rev \/ (d.jobs[s].rev <= r /\ r <= d.rev)
  PROVE  Sound(Moved(d, s, status, r), w, q)
<1>1. d \in Tables
  BY DEF Sound
<1>2. PICK e : e = Moved(d, s, status, r)
  OBVIOUS
<1>3. /\ e \in Tables
      /\ e.rev = d.rev /\ e.valid = d.valid /\ e.wizard = d.wizard /\ e.preps = d.preps
      /\ e.batch = d.batch /\ e.items = d.items /\ e.exp = d.exp /\ e.trials = d.trials
      /\ \A x \in Slots : e.jobs[x] = IF x = s
            THEN [status |-> status, prep |-> d.jobs[s].prep, rev |-> r] ELSE d.jobs[x]
  BY <1>1, <1>2, MovedEffect
<1>4. \A x \in Slots : JobStep(d, e, x)
  BY <1>3 DEF JobStep, Live, Ended
<1> QED
  BY <1>2, <1>3, <1>4, JobsStep

-----------------------------------------------------------------------------
(* Batches of seeds.                                                       *)

\* What stays when only the batch, its items and their jobs change.
SameButBatch(d, e) ==
    /\ e.rev = d.rev /\ e.wizard = d.wizard /\ e.exp = d.exp /\ e.trials = d.trials
    /\ \A s \in Slots \ ItemJobs : e.jobs[s] = d.jobs[s]
    /\ \A p \in PrepIds : d.preps[p].status \notin Ended => e.preps[p] = d.preps[p]

BatchStatus(d, status) == [d EXCEPT !.batch.status = status]

LEMMA BatchStatusEffect ==
  ASSUME NEW d \in Tables, NEW status \in RowStatus
  PROVE  /\ BatchStatus(d, status) \in Tables
         /\ BatchStatus(d, status).rev = d.rev /\ BatchStatus(d, status).valid = d.valid
         /\ BatchStatus(d, status).wizard = d.wizard /\ BatchStatus(d, status).jobs = d.jobs
         /\ BatchStatus(d, status).preps = d.preps /\ BatchStatus(d, status).items = d.items
         /\ BatchStatus(d, status).exp = d.exp /\ BatchStatus(d, status).trials = d.trials
         /\ BatchStatus(d, status).batch = [status |-> status, prep |-> d.batch.prep]
<1>1. [d.batch EXCEPT !.status = status] = [status |-> status, prep |-> d.batch.prep]
  BY Fields DEF Batch
<1>2. [status |-> status, prep |-> d.batch.prep] \in Batch
  BY Fields DEF Batch
<1>3. PICK B : B = [status |-> status, prep |-> d.batch.prep]
  OBVIOUS
<1>4. BatchStatus(d, status) = [d EXCEPT !.batch = B]
  BY <1>1, <1>3 DEF BatchStatus
<1>5. B \in Batch
  BY <1>2, <1>3
<1> QED
  BY <1>3, <1>4, <1>5 DEF Tables

\* A batch goes on to another status; when it ends, its jobs have ended.
LEMMA BatchStatusSound ==
  ASSUME NEW w, NEW q, NEW d, Sound(d, w, q), d.batch.status # "NONE",
         NEW status \in RowStatus \ {"NONE"},
         status \in {"COMPLETED", "CANCELLED"} =>
            \A i \in Items : d.items[i] # "PENDING" /\ JobEnded(d, Item(i))
  PROVE  Sound(BatchStatus(d, status), w, q)
<1>1. d \in Tables
  BY DEF Sound
<1>2. PICK e : e = BatchStatus(d, status)
  OBVIOUS
<1>3. /\ e \in Tables
      /\ e.rev = d.rev /\ e.valid = d.valid /\ e.wizard = d.wizard /\ e.jobs = d.jobs
      /\ e.preps = d.preps /\ e.items = d.items /\ e.exp = d.exp /\ e.trials = d.trials
      /\ e.batch = [status |-> status, prep |-> d.batch.prep]
  BY <1>1, <1>2, BatchStatusEffect
<1>4. e.batch.status = status /\ e.batch.prep = d.batch.prep
  BY <1>3
<1> USE DEF Sound
<1>5. RefsInv(e)
  BY <1>3, <1>4 DEF RefsInv
<1>6. BatchInv(e)
  BY <1>3, <1>4 DEF BatchInv, JobEnded
<1>7. LaunchInv(e) /\ EndInv(e) /\ RevInv(e)
  BY <1>3 DEF LaunchInv, EndInv, JobEnded, RevInv, Group
<1>8. GroupInv(e)
  BY <1>3 DEF GroupInv, Past, Group, Preparing
<1>9. TickInv(e, w)
  BY <1>3 DEF TickInv, Group
<1>10. PostInv(e, q)
  BY <1>3, <1>4 DEF PostInv
<1> QED
  BY <1>2, <1>3, <1>5, <1>6, <1>7, <1>8, <1>9, <1>10

\* The items N become jobs.
Promote(d, N) ==
    [d EXCEPT
       !.jobs = [s \in Slots |->
           IF \E i \in N : s = Item(i)
           THEN [status |-> "QUEUED", prep |-> d.batch.prep, rev |-> d.rev]
           ELSE d.jobs[s]],
       !.items = [i \in Items |-> IF i \in N THEN "DISPATCHED" ELSE @[i]]]

LEMMA PromoteEffect ==
  ASSUME NEW d \in Tables, NEW N
  PROVE  /\ Promote(d, N) \in Tables
         /\ Promote(d, N).rev = d.rev /\ Promote(d, N).valid = d.valid
         /\ Promote(d, N).wizard = d.wizard /\ Promote(d, N).preps = d.preps
         /\ Promote(d, N).batch = d.batch
         /\ Promote(d, N).exp = d.exp /\ Promote(d, N).trials = d.trials
         /\ \A s \in Slots :
              Promote(d, N).jobs[s] = IF \E i \in N : s = Item(i)
                 THEN [status |-> "QUEUED", prep |-> d.batch.prep, rev |-> d.rev]
                 ELSE d.jobs[s]
         /\ \A i \in Items :
              Promote(d, N).items[i] = IF i \in N THEN "DISPATCHED" ELSE d.items[i]
<1> DEFINE J == [s \in Slots |->
                   IF \E i \in N : s = Item(i)
                   THEN [status |-> "QUEUED", prep |-> d.batch.prep, rev |-> d.rev]
                   ELSE d.jobs[s]]
           I == [i \in Items |-> IF i \in N THEN "DISPATCHED" ELSE d.items[i]]
<1>1. [status |-> "QUEUED", prep |-> d.batch.prep, rev |-> d.rev] \in Job
  BY Fields DEF Job, Batch, Live
<1>2. J \in [Slots -> Job]
  BY <1>1, Fields
<1>3. I \in [Items -> {"NONE", "PENDING", "DISPATCHED", "CANCELLED"}]
  BY Fields
<1>4. Promote(d, N) = [d EXCEPT !.jobs = J, !.items = I]
  BY Fields DEF Promote
<1>5. /\ \A s \in Slots : J[s] = IF \E i \in N : s = Item(i)
                 THEN [status |-> "QUEUED", prep |-> d.batch.prep, rev |-> d.rev]
                 ELSE d.jobs[s]
      /\ \A i \in Items : I[i] = IF i \in N THEN "DISPATCHED" ELSE d.items[i]
  OBVIOUS
<1> HIDE DEF J, I
<1>6. /\ Promote(d, N) \in Tables
      /\ Promote(d, N).jobs = J /\ Promote(d, N).items = I
      /\ Promote(d, N).rev = d.rev /\ Promote(d, N).valid = d.valid
      /\ Promote(d, N).wizard = d.wizard /\ Promote(d, N).preps = d.preps
      /\ Promote(d, N).batch = d.batch
      /\ Promote(d, N).exp = d.exp /\ Promote(d, N).trials = d.trials
  BY <1>2, <1>3, <1>4 DEF Tables
<1> QED
  BY <1>5, <1>6

LEMMA PromoteSound ==
  ASSUME NEW w, NEW q, NEW d, Sound(d, w, q), d.batch.status = "ACTIVE",
         NEW N, N \subseteq {i \in Items : d.items[i] = "PENDING"}
  PROVE  Sound(Promote(d, N), w, q)
<1>1. d \in Tables
  BY DEF Sound
<1>2. PICK e : e = Promote(d, N)
  OBVIOUS
<1>3. /\ e \in Tables
      /\ e.rev = d.rev /\ e.valid = d.valid /\ e.wizard = d.wizard /\ e.preps = d.preps
      /\ e.batch = d.batch /\ e.exp = d.exp /\ e.trials = d.trials
      /\ \A s \in Slots :
           e.jobs[s] = IF \E i \in N : s = Item(i)
              THEN [status |-> "QUEUED", prep |-> d.batch.prep, rev |-> d.rev]
              ELSE d.jobs[s]
      /\ \A i \in Items : e.items[i] = IF i \in N THEN "DISPATCHED" ELSE d.items[i]
  BY <1>1, <1>2, PromoteEffect
<1>4. \A s \in Slots : e.jobs[s] = d.jobs[s] \/ e.jobs[s].prep = d.batch.prep
  BY <1>3
<1>5. /\ e.jobs[Source] = d.jobs[Source]
      /\ \A t \in Trials : e.jobs[Trial(t)] = d.jobs[Trial(t)]
      /\ \A u \in UserSlots : e.jobs[User(u)] = d.jobs[User(u)]
      /\ \A i \in Items : i \notin N => e.jobs[Item(i)] = d.jobs[Item(i)]
  BY <1>3, SlotsAre, SlotsDiffer
<1> USE DEF Sound
<1>6. RefsInv(e)
  BY <1>3, <1>4 DEF RefsInv
<1>7. BatchInv(e)
  BY <1>3, <1>5 DEF BatchInv
<1>8. LaunchInv(e)
  BY <1>3, <1>5 DEF LaunchInv
<1>9. GroupInv(e)
  <2>1. Past(e) = Past(d) /\ Group(e) = Group(d) /\ Preparing(e) = Preparing(d)
        /\ Past(d) \subseteq Trials
    BY <1>3 DEF Past, Group, Preparing, TrialsOf
  <2> QED
    BY <1>3, <1>5, <2>1 DEF GroupInv
<1>10. EndInv(e)
  <2>1. \A t \in TrialsOf(d.exp.mode) : t \in Trials
    BY DEF TrialsOf
  <2> QED
    BY <1>3, <1>5, <2>1, SlotsAre DEF EndInv, JobEnded
<1>11. RevInv(e)
  <2>1. Group(e) = Group(d) /\ Group(d) \subseteq Trials
    BY <1>3 DEF Group, TrialsOf
  <2> QED
    BY <1>3, <1>5, <2>1 DEF RevInv
<1>12. TickInv(e, w)
  BY <1>3 DEF TickInv, Group
<1>13. PostInv(e, q)
  BY <1>3, <1>5 DEF PostInv
<1> QED
  BY <1>2, <1>3, <1>6, <1>7, <1>8, <1>9, <1>10, <1>11, <1>12, <1>13

LEMMA PumpCases ==
  ASSUME NEW d, NEW n
  PROVE  \/ PumpUpTo(d, n) = d
         \/ d.batch.status = "ACTIVE" /\ PumpUpTo(d, n) = BatchStatus(d, "FAILED")
         \/ d.batch.status = "ACTIVE" /\ PumpUpTo(d, n) = Collect(Promote(d, Promoted(d, n)))
  BY DEF PumpUpTo, BatchStatus, Promote

LEMMA BatchStatusLeaves ==
  ASSUME NEW d \in Tables, NEW status \in RowStatus
  PROVE  SameButBatch(d, BatchStatus(d, status))
<1>1. PICK e : e = BatchStatus(d, status)
  OBVIOUS
<1>2. e.rev = d.rev /\ e.wizard = d.wizard /\ e.exp = d.exp /\ e.trials = d.trials
      /\ e.jobs = d.jobs /\ e.preps = d.preps
  BY <1>1, BatchStatusEffect
<1> QED
  BY <1>1, <1>2 DEF SameButBatch

LEMMA LeavesTwice ==
  ASSUME NEW d, NEW e, NEW f, SameButBatch(d, e), SameButBatch(e, f)
  PROVE  SameButBatch(d, f)
  BY DEF SameButBatch

LEMMA PumpSound ==
  ASSUME NEW w, NEW q, NEW d, Sound(d, w, q), NEW n
  PROVE  Sound(PumpUpTo(d, n), w, q) /\ SameButBatch(d, PumpUpTo(d, n))
<1>1. d \in Tables
  BY DEF Sound
<1>2. Promoted(d, n) \subseteq {i \in Items : d.items[i] = "PENDING"}
  BY DEF Promoted
<1>3. CASE PumpUpTo(d, n) = d
  BY <1>3 DEF SameButBatch
<1>4. CASE d.batch.status = "ACTIVE" /\ PumpUpTo(d, n) = BatchStatus(d, "FAILED")
  <2>1. "FAILED" \in RowStatus
    BY DEF RowStatus, Ended
  <2>2. Sound(BatchStatus(d, "FAILED"), w, q)
    BY <1>4, <2>1, BatchStatusSound
  <2>3. SameButBatch(d, BatchStatus(d, "FAILED"))
    BY <1>1, <2>1, BatchStatusLeaves
  <2> QED
    BY <1>4, <2>2, <2>3
<1>5. CASE d.batch.status = "ACTIVE" /\ PumpUpTo(d, n) = Collect(Promote(d, Promoted(d, n)))
  <2>1. PICK c : c = Promote(d, Promoted(d, n))
    OBVIOUS
  <2>2. Sound(c, w, q)
    BY <1>2, <1>5, <2>1, PromoteSound
  <2>3. SameButBatch(d, c)
    <3>1. \A s \in Slots \ ItemJobs : \A i \in Items : s # Item(i)
      BY SlotsAre
    <3>2. PICK N : N = Promoted(d, n)
      OBVIOUS
    <3>3. /\ c.rev = d.rev /\ c.wizard = d.wizard /\ c.preps = d.preps /\ c.exp = d.exp /\ c.trials = d.trials
          /\ \A s \in Slots : c.jobs[s] = IF \E i \in N : s = Item(i)
                 THEN [status |-> "QUEUED", prep |-> d.batch.prep, rev |-> d.rev]
                 ELSE d.jobs[s]
      BY <1>1, <2>1, <3>2, PromoteEffect
    <3>4. \A s \in Slots \ ItemJobs : c.jobs[s] = d.jobs[s]
      BY <1>2, <3>1, <3>2, <3>3
    <3> QED
      BY <3>3, <3>4 DEF SameButBatch
  <2>4. c \in Tables
    BY <2>2 DEF Sound
  <2> QED
    BY <1>5, <2>1, <2>2, <2>3, <2>4, CollectSound, CollectEffect DEF SameButBatch
<1> QED
  BY <1>3, <1>4, <1>5, PumpCases

LEMMA OnJobStatusChangedSound ==
  ASSUME NEW w, NEW q, NEW d, Sound(d, w, q)
  PROVE  Sound(OnJobStatusChanged(d), w, q) /\ SameButBatch(d, OnJobStatusChanged(d))
<1>1. PICK p : p = Pump(d)
  OBVIOUS
<1>2. Sound(p, w, q) /\ SameButBatch(d, p)
  BY <1>1, PumpSound DEF Pump
<1>3. p \in Tables
  BY <1>2 DEF Sound
<1>4. OnJobStatusChanged(d) =
        CASE p.batch.status = "ACTIVE" /\ \A i \in Items : ItemEnded(p, i)
               -> BatchStatus(p, "COMPLETED")
          [] /\ p.batch.status = "CANCELLING"
             /\ \A i \in Items : p.items[i] = "CANCELLED" \/ ItemEnded(p, i)
               -> BatchStatus(p, "CANCELLED")
          [] OTHER -> p
  BY <1>1 DEF OnJobStatusChanged, BatchStatus
<1>5. {"COMPLETED", "CANCELLED"} \subseteq RowStatus
  BY DEF RowStatus, Ended
<1>6. CASE p.batch.status = "ACTIVE" /\ \A i \in Items : ItemEnded(p, i)
  <2>1. OnJobStatusChanged(d) = BatchStatus(p, "COMPLETED")
    BY <1>4, <1>6
  <2>2. \A i \in Items : p.items[i] # "PENDING" /\ JobEnded(p, Item(i))
    BY <1>6 DEF ItemEnded
  <2> QED
    BY <1>2, <1>3, <1>5, <1>6, <2>1, <2>2, BatchStatusLeaves, BatchStatusSound, LeavesTwice
<1>7. CASE /\ p.batch.status = "CANCELLING"
           /\ \A i \in Items : p.items[i] = "CANCELLED" \/ ItemEnded(p, i)
  <2>1. OnJobStatusChanged(d) = BatchStatus(p, "CANCELLED")
    BY <1>4, <1>7
  <2>2. \A i \in Items : p.items[i] = "CANCELLED" => JobEnded(p, Item(i))
    BY <1>2 DEF Sound, BatchInv, JobEnded, NoJob, Live
  <2>3. \A i \in Items : p.items[i] # "PENDING" /\ JobEnded(p, Item(i))
    BY <1>7, <2>2 DEF ItemEnded
  <2> QED
    BY <1>2, <1>3, <1>5, <1>7, <2>1, <2>3, BatchStatusLeaves, BatchStatusSound, LeavesTwice
<1>8. CASE /\ ~ (p.batch.status = "ACTIVE" /\ \A i \in Items : ItemEnded(p, i))
           /\ ~ (/\ p.batch.status = "CANCELLING"
                 /\ \A i \in Items : p.items[i] = "CANCELLED" \/ ItemEnded(p, i))
  BY <1>2, <1>4, <1>8
<1> QED
  BY <1>6, <1>7, <1>8

Batched(d, B, I) == [d EXCEPT !.batch = B, !.items = I]

LEMMA BatchedEffect ==
  ASSUME NEW d \in Tables, NEW B \in Batch,
         NEW I \in [Items -> {"NONE", "PENDING", "DISPATCHED", "CANCELLED"}]
  PROVE  LET e == Batched(d, B, I)
         IN  /\ e \in Tables /\ e.batch = B /\ e.items = I
             /\ e.rev = d.rev /\ e.valid = d.valid /\ e.wizard = d.wizard /\ e.jobs = d.jobs
             /\ e.preps = d.preps /\ e.exp = d.exp /\ e.trials = d.trials
  BY DEF Tables, Batched

\* A batch and its items are rewritten, and its jobs are left alone.
LEMMA BatchStep ==
  ASSUME NEW w, NEW q, NEW d, Sound(d, w, q), NEW e \in Tables,
         e.jobs = d.jobs, e.preps = d.preps, e.trials = d.trials, e.exp = d.exp,
         e.rev = d.rev, e.wizard = d.wizard,
         e.batch.prep # 0 => d.preps[e.batch.prep].status = "COMPLETED",
         BatchInv(e), PostInv(e, q)
  PROVE  Sound(e, w, q) /\ SameButBatch(d, e)
<1> USE DEF Sound
<1>1. RefsInv(e)
  BY DEF RefsInv
<1>2. LaunchInv(e) /\ EndInv(e) /\ RevInv(e)
  BY DEF LaunchInv, EndInv, JobEnded, RevInv, Group
<1>3. GroupInv(e)
  BY DEF GroupInv, Past, Group, Preparing
<1>4. TickInv(e, w)
  BY DEF TickInv, Group
<1> QED
  BY <1>1, <1>2, <1>3, <1>4 DEF SameButBatch

LEMMA StopBatchSound ==
  ASSUME NEW w, NEW q, NEW d, Sound(d, w, q)
  PROVE  Sound(StopBatch(d), w, q) /\ SameButBatch(d, StopBatch(d))
<1>1. d \in Tables
  BY DEF Sound
<1>2. CASE d.batch.status # "ACTIVE"
  BY <1>2 DEF StopBatch, SameButBatch
<1>3. CASE d.batch.status = "ACTIVE"
  <2>1. PICK I : I = [i \in Items |-> IF d.items[i] = "PENDING" THEN "CANCELLED" ELSE d.items[i]]
    OBVIOUS
  <2>2. I \in [Items -> {"NONE", "PENDING", "DISPATCHED", "CANCELLED"}]
    BY <1>1, <2>1, Fields
  <2>3. PICK B : B = [status |-> "CANCELLING", prep |-> d.batch.prep]
    OBVIOUS
  <2>4. B \in Batch /\ [d.batch EXCEPT !.status = "CANCELLING"] = B
    BY <1>1, <2>3, Fields DEF Batch, RowStatus
  <2>5. StopBatch(d) = Batched(d, B, I)
    BY <1>1, <1>3, <2>1, <2>4, Fields DEF StopBatch, Batched
  <2>6. PICK e : e = StopBatch(d)
    OBVIOUS
  <2>7. /\ e \in Tables /\ e.batch = B /\ e.items = I
        /\ e.rev = d.rev /\ e.valid = d.valid /\ e.wizard = d.wizard /\ e.jobs = d.jobs
        /\ e.preps = d.preps /\ e.exp = d.exp /\ e.trials = d.trials
    BY <1>1, <2>2, <2>4, <2>5, <2>6, BatchedEffect
  <2>8. e.batch.status = "CANCELLING" /\ e.batch.prep = d.batch.prep
    BY <2>3, <2>7
  <2>9. BatchInv(e)
    BY <2>1, <2>7, <2>8 DEF BatchInv, Sound
  <2>10. PostInv(e, q)
    BY <1>3, <2>7, <2>8 DEF PostInv, Sound
  <2>11. d.batch.prep # 0 => d.preps[d.batch.prep].status = "COMPLETED"
    BY DEF Sound, RefsInv
  <2> QED
    BY <2>6, <2>7, <2>8, <2>9, <2>10, <2>11, BatchStep
<1> QED
  BY <1>2, <1>3

LEMMA CancelBatchSound ==
  ASSUME NEW w, NEW q, NEW d, Sound(d, w, q)
  PROVE  Sound(CancelBatch(d), w, q) /\ SameButBatch(d, CancelBatch(d))
<1>1. PICK c : c = IF d.batch.status # "ACTIVE" THEN d ELSE OnJobStatusChanged(StopBatch(d))
  OBVIOUS
<1>2. Sound(c, w, q) /\ SameButBatch(d, c)
  <2>1. CASE d.batch.status # "ACTIVE"
    BY <1>1, <2>1 DEF SameButBatch
  <2>2. CASE d.batch.status = "ACTIVE"
    <3>1. Sound(StopBatch(d), w, q) /\ SameButBatch(d, StopBatch(d))
      BY StopBatchSound
    <3> QED
      BY <1>1, <2>2, <3>1, OnJobStatusChangedSound, LeavesTwice
  <2> QED
    BY <2>1, <2>2
<1>3. PICK S : S = {s \in ItemJobs : c.jobs[s].status \in Live}
  OBVIOUS
<1>4. CancelBatch(d) = IF S = {} THEN c ELSE OnJobStatusChanged(CancelJobs(c, S))
  BY <1>1, <1>3 DEF CancelBatch
<1>5. Sound(CancelJobs(c, S), w, q)
  BY <1>2, CancelJobsSound
<1>6. SameButBatch(d, CancelJobs(c, S))
  <2>1. c \in Tables
    BY <1>2 DEF Sound
  <2>2. \A s \in Slots \ ItemJobs : CancelJobs(c, S).jobs[s] = c.jobs[s]
    BY <1>3, <2>1, CancelJobsEffect
  <2> QED
    BY <1>2, <2>1, <2>2, CancelJobsEffect DEF SameButBatch
<1> QED
  BY <1>2, <1>4, <1>5, <1>6, OnJobStatusChangedSound, LeavesTwice

\* create: the batch is made and as many of its items as there is room for.
LEMMA CreateBatchSound ==
  ASSUME NEW w, NEW q, NEW d, Sound(d, w, q), d.batch.status = "NONE", q.kind # "seeds",
         NEW p \in PrepIds, d.preps[p].status = "COMPLETED"
  PROVE  Sound(CreateBatch(d, p), w, q) /\ SameButBatch(d, CreateBatch(d, p))
<1>1. d \in Tables
  BY DEF Sound
<1>2. PICK I : I = [i \in Items |-> "PENDING"]
  OBVIOUS
<1>3. PICK B : B = [status |-> "ACTIVE", prep |-> p]
  OBVIOUS
<1>4. I \in [Items -> {"NONE", "PENDING", "DISPATCHED", "CANCELLED"}]
  BY <1>2
<1>5. B \in Batch
  BY <1>3 DEF Batch, RowStatus, Refs
<1>6. PICK e : e = Batched(d, B, I)
  OBVIOUS
<1>7. CreateBatch(d, p) = Pump(e)
  BY <1>2, <1>3, <1>6 DEF CreateBatch, Batched
<1>8. /\ e \in Tables /\ e.batch = B /\ e.items = I
      /\ e.rev = d.rev /\ e.valid = d.valid /\ e.wizard = d.wizard /\ e.jobs = d.jobs
      /\ e.preps = d.preps /\ e.exp = d.exp /\ e.trials = d.trials
  BY <1>1, <1>4, <1>5, <1>6, BatchedEffect
<1>9. e.batch.status = "ACTIVE" /\ e.batch.prep = p
  BY <1>3, <1>8
<1>10. \A i \in Items : d.jobs[Item(i)] = NoJob
  BY DEF Sound, BatchInv
<1>11. BatchInv(e)
  BY <1>2, <1>8, <1>9, <1>10 DEF BatchInv
<1>12. PostInv(e, q)
  BY <1>8 DEF PostInv, Sound
<1>13. Sound(e, w, q) /\ SameButBatch(d, e)
  BY <1>8, <1>9, <1>11, <1>12, BatchStep
<1> QED
  BY <1>7, <1>13, PumpSound, LeavesTwice DEF Pump

-----------------------------------------------------------------------------
(* Preparations.                                                           *)

\* What stays in every step that is not the experiment's.
SameExp(d, e) == e.exp = d.exp /\ e.trials = d.trials

Prepared(d, P, x) == [d EXCEPT !.preps = P, !.wizard = x]

LEMMA PreparedEffect ==
  ASSUME NEW d \in Tables, NEW P \in [PrepIds -> Prep], NEW x \in Refs
  PROVE  /\ Prepared(d, P, x) \in Tables
         /\ Prepared(d, P, x).preps = P /\ Prepared(d, P, x).wizard = x
         /\ Prepared(d, P, x).rev = d.rev /\ Prepared(d, P, x).valid = d.valid
         /\ Prepared(d, P, x).jobs = d.jobs /\ Prepared(d, P, x).batch = d.batch
         /\ Prepared(d, P, x).items = d.items /\ Prepared(d, P, x).exp = d.exp
         /\ Prepared(d, P, x).trials = d.trials
  BY DEF Tables, Prepared

\* A preparation goes on from p to r: what is there stays, what is completed
\* stays completed.
GoesOn(p, r) ==
    /\ p.status # "NONE" => r.status # "NONE"
    /\ p.status = "COMPLETED" => r.status = "COMPLETED"

LEMMA PreparedSound ==
  ASSUME NEW w, NEW q, NEW d, Sound(d, w, q), NEW P \in [PrepIds -> Prep],
         \A p \in PrepIds : GoesOn(d.preps[p], P[p]),
         NEW x \in Refs, x \in {0, d.wizard} \/ P[x].status # "NONE"
  PROVE  Sound(Prepared(d, P, x), w, q) /\ SameExp(d, Prepared(d, P, x))
<1>1. d \in Tables
  BY DEF Sound
<1>2. PICK e : e = Prepared(d, P, x)
  OBVIOUS
<1>3. /\ e \in Tables /\ e.preps = P /\ e.wizard = x /\ e.rev = d.rev /\ e.valid = d.valid
      /\ e.jobs = d.jobs /\ e.batch = d.batch /\ e.items = d.items /\ e.exp = d.exp
      /\ e.trials = d.trials
  BY <1>1, <1>2, PreparedEffect
<1>4. \A p \in PrepIds : IsReferenced(d, p) =>
           /\ d.preps[p].status # "NONE" => e.preps[p].status # "NONE"
           /\ d.preps[p].status = "COMPLETED" => e.preps[p].status = "COMPLETED"
  BY <1>3 DEF GoesOn
<1>5. e.wizard \in {0, d.wizard} \/ e.preps[e.wizard].status # "NONE"
  BY <1>3
<1> QED
  BY <1>2, <1>3, <1>4, <1>5, PrepsStep DEF SameExp

LEMMA CollectLeaves ==
  ASSUME NEW d, NEW e \in Tables, SameExp(d, e)
  PROVE  SameExp(d, Collect(e))
  BY CollectEffect DEF SameExp

PrepMoved(d, p, status, r) ==
    [d EXCEPT !.preps = [d.preps EXCEPT ![p] =
       [status |-> status, rev |-> r, managed |-> d.preps[p].managed]]]

\* A preparation that is under way gets another status.
LEMMA PreparationStep ==
  ASSUME NEW w, NEW q, NEW d, Sound(d, w, q), NEW p \in PrepIds, NEW status, NEW r \in Nat,
         \/ d.preps[p].status \in {"ACTIVE", "CANCELLING"} /\ status \in RowStatus \ {"NONE"}
         \/ d.preps[p].status = "NONE" /\ status = "ACTIVE"
         \/ status = d.preps[p].status
  PROVE  Sound(PrepMoved(d, p, status, r), w, q) /\ SameExp(d, PrepMoved(d, p, status, r))
<1>1. d \in Tables
  BY DEF Sound
<1>2. d.preps \in [PrepIds -> Prep] /\ d.preps[p] \in Prep
  BY <1>1, Fields
<1>3. PICK P : P = [d.preps EXCEPT ![p] =
                     [status |-> status, rev |-> r, managed |-> d.preps[p].managed]]
  OBVIOUS
<1>4. [status |-> status, rev |-> r, managed |-> d.preps[p].managed] \in Prep
  BY <1>2 DEF Prep, RowStatus
<1>5. P \in [PrepIds -> Prep]
  BY <1>2, <1>3, <1>4
<1>6. \A x \in PrepIds : P[x] = IF x = p
         THEN [status |-> status, rev |-> r, managed |-> d.preps[p].managed] ELSE d.preps[x]
  BY <1>2, <1>3
<1>7. \A x \in PrepIds : GoesOn(d.preps[x], P[x])
  BY <1>6 DEF GoesOn
<1>8. d.wizard \in Refs
  BY <1>1, Fields
<1>9. Sound(Prepared(d, P, d.wizard), w, q) /\ SameExp(d, Prepared(d, P, d.wizard))
  BY <1>5, <1>7, <1>8, PreparedSound
<1>10. [d EXCEPT !.preps = P] = Prepared(d, P, d.wizard)
  BY <1>1, Fields DEF Prepared
<1> QED
  BY <1>3, <1>9, <1>10 DEF PrepMoved

LEMMA PrepStatusIs ==
  ASSUME NEW d \in Tables, NEW p \in PrepIds, NEW status
  PROVE  [d EXCEPT !.preps[p].status = status] = PrepMoved(d, p, status, d.preps[p].rev)
<1>1. d.preps \in [PrepIds -> Prep] /\ d.preps[p] \in Prep
  BY Fields
<1>2. PICK x \in Prep : x = d.preps[p]
  BY <1>1
<1>3. x = [status |-> x.status, rev |-> x.rev, managed |-> x.managed]
  BY DEF Prep
<1>4. [x EXCEPT !.status = status] = [status |-> status, rev |-> x.rev, managed |-> x.managed]
  BY <1>3
<1> QED
  BY <1>2, <1>4 DEF PrepMoved

PrepEnded(d, p) == [d EXCEPT !.preps[p].status = "COMPLETED", !.preps[p].rev = d.rev]

LEMMA PrepEndIs ==
  ASSUME NEW d \in Tables, NEW p \in PrepIds
  PROVE  PrepEnded(d, p) = PrepMoved(d, p, "COMPLETED", d.rev)
<1>1. d.preps \in [PrepIds -> Prep] /\ d.preps[p] \in Prep
  BY Fields
<1>2. PICK x \in Prep : x = d.preps[p]
  BY <1>1
<1>3. x = [status |-> x.status, rev |-> x.rev, managed |-> x.managed]
  BY DEF Prep
<1>4. [x EXCEPT !.status = "COMPLETED"] = [status |-> "COMPLETED", rev |-> x.rev, managed |-> x.managed]
  BY <1>3
<1>5. [[status |-> "COMPLETED", rev |-> x.rev, managed |-> x.managed] EXCEPT !.rev = d.rev]
        = [status |-> "COMPLETED", rev |-> d.rev, managed |-> x.managed]
  OBVIOUS
<1>6. [[x EXCEPT !.status = "COMPLETED"] EXCEPT !.rev = d.rev]
        = [status |-> "COMPLETED", rev |-> d.rev, managed |-> x.managed]
  BY <1>4, <1>5
<1>7. [d EXCEPT !.preps[p].status = "COMPLETED", !.preps[p].rev = d.rev]
        = [d EXCEPT !.preps = [d.preps EXCEPT ![p] = [[x EXCEPT !.status = "COMPLETED"] EXCEPT !.rev = d.rev]]]
  BY <1>1, <1>2, Fields
<1> QED
  BY <1>2, <1>6, <1>7 DEF PrepMoved, PrepEnded

LEMMA StartSound ==
  ASSUME NEW w, NEW q, NEW d, Sound(d, w, q), NEW p \in PrepIds
  PROVE  /\ Sound(Start(d, p), w, q) /\ SameExp(d, Start(d, p))
         /\ Start(d, p).preps[p].status # "NONE"
<1>1. d \in Tables
  BY DEF Sound
<1> DEFINE status == IF d.preps[p].status = "NONE" THEN "ACTIVE" ELSE d.preps[p].status
<1>2. /\ d.preps[p].status = "NONE" => status = "ACTIVE"
      /\ d.preps[p].status # "NONE" => status = d.preps[p].status
  OBVIOUS
<1>3. Start(d, p) = [d EXCEPT !.preps[p].status = status]
  BY DEF Start
<1> HIDE DEF status
<1>4. d.preps \in [PrepIds -> Prep] /\ d.preps[p].rev \in Nat
  BY <1>1, Fields DEF Prep
<1>5. PICK P : P = [d.preps EXCEPT ![p] = [status |-> status, rev |-> d.preps[p].rev,
                                           managed |-> d.preps[p].managed]]
  OBVIOUS
<1>6. Start(d, p) = [d EXCEPT !.preps = P]
  <2>1. [d EXCEPT !.preps[p].status = status]
          = [d EXCEPT !.preps = [d.preps EXCEPT ![p] = [status |-> status, rev |-> d.preps[p].rev,
                                                        managed |-> d.preps[p].managed]]]
    BY <1>1, PrepStatusIs DEF PrepMoved
  <2> QED
    BY <1>3, <1>5, <2>1
<1>7. Start(d, p).preps = P
  BY <1>1, <1>6, Fields
<1>8. P[p].status # "NONE"
  BY <1>2, <1>4, <1>5
<1>9. Sound([d EXCEPT !.preps = P], w, q) /\ SameExp(d, [d EXCEPT !.preps = P])
  BY <1>2, <1>4, <1>5, PreparationStep DEF PrepMoved
<1> QED
  BY <1>6, <1>7, <1>8, <1>9

\* bindWizard
LEMMA BindSound ==
  ASSUME NEW w, NEW q, NEW d, Sound(d, w, q), NEW p \in PrepIds, d.preps[p].status # "NONE"
  PROVE  Sound(BindWizard(d, p), w, q) /\ SameExp(d, BindWizard(d, p))
<1>1. d \in Tables
  BY DEF Sound
<1>2. d.preps \in [PrepIds -> Prep] /\ d.preps[p] \in Prep
  BY <1>1, Fields
<1>3. PICK P : P = [d.preps EXCEPT ![p] = [d.preps[p] EXCEPT !.managed = TRUE]]
  OBVIOUS
<1>4. [d.preps[p] EXCEPT !.managed = TRUE] \in Prep
      /\ [d.preps[p] EXCEPT !.managed = TRUE].status = d.preps[p].status
  BY <1>2 DEF Prep
<1>5. P \in [PrepIds -> Prep] /\ \A x \in PrepIds : P[x].status = d.preps[x].status
  BY <1>2, <1>3, <1>4
<1>6. PICK e : e = Prepared(d, P, p)
  OBVIOUS
<1>7. Sound(e, w, q) /\ SameExp(d, e)
  BY <1>5, <1>6, PreparedSound DEF GoesOn, Refs
<1>8. [d EXCEPT !.wizard = p, !.preps[p].managed = TRUE] = e
  BY <1>1, <1>3, <1>6, Fields DEF Prepared
<1>9. BindWizard(d, p) = Collect(e)
  BY <1>8 DEF BindWizard
<1> QED
  BY <1>7, <1>9, CollectSound, CollectLeaves DEF Sound

LEMMA ReleaseSound ==
  ASSUME NEW w, NEW q, NEW d, Sound(d, w, q)
  PROVE  Sound(ReleaseWizard(d), w, q) /\ SameExp(d, ReleaseWizard(d))
<1>1. d \in Tables
  BY DEF Sound
<1>2. d.preps \in [PrepIds -> Prep]
  BY <1>1, Fields
<1>3. PICK e : e = Prepared(d, d.preps, 0)
  OBVIOUS
<1>4. Sound(e, w, q) /\ SameExp(d, e)
  BY <1>2, <1>3, PreparedSound DEF GoesOn, Refs
<1>5. [d EXCEPT !.wizard = 0] = e
  BY <1>1, <1>3, Fields DEF Prepared
<1> QED
  BY <1>4, <1>5, CollectSound, CollectLeaves DEF Sound, ReleaseWizard

\* The data change.
LEMMA RevStep ==
  ASSUME NEW w, NEW q, NEW d, Sound(d, w, q)
  PROVE  Sound([d EXCEPT !.rev = d.rev + 1], w, q)
<1>1. d \in Tables /\ d.rev \in Nat
  BY Fields DEF Sound
<1>2. PICK r \in Nat : r = d.rev + 1
  BY <1>1
<1>3. PICK e : e = [d EXCEPT !.rev = r]
  OBVIOUS
<1>4. /\ e \in Tables /\ e.rev = r /\ e.valid = d.valid /\ e.wizard = d.wizard
      /\ e.jobs = d.jobs /\ e.preps = d.preps /\ e.batch = d.batch /\ e.items = d.items
      /\ e.exp = d.exp /\ e.trials = d.trials
  BY <1>1, <1>3 DEF Tables
<1> USE DEF Sound
<1>5. RefsInv(e) /\ BatchInv(e) /\ LaunchInv(e) /\ EndInv(e)
  BY <1>4 DEF RefsInv, BatchInv, JobEnded, LaunchInv, EndInv
<1>6. GroupInv(e)
  BY <1>4 DEF GroupInv, Past, Group, Preparing
<1>7. RevInv(e)
  <2>1. \A t \in Trials : d.jobs[Trial(t)].rev \in Nat
    BY <1>1, Fields, SlotsAre DEF Job
  <2>2. Group(e) = Group(d) /\ Group(d) \subseteq Trials
    BY <1>4 DEF Group, TrialsOf
  <2>3. \A t \in Group(d) : d.trials[t].launched => d.jobs[Trial(t)].rev <= r
    BY <1>1, <1>2, <2>1, <2>2 DEF RevInv
  <2> QED
    BY <1>4, <2>2, <2>3 DEF RevInv
<1>8. TickInv(e, w) /\ PostInv(e, q)
  BY <1>4 DEF TickInv, Group, PostInv
<1> QED
  BY <1>2, <1>3, <1>4, <1>5, <1>6, <1>7, <1>8

-----------------------------------------------------------------------------
(* Jobs that are inserted and deleted.                                     *)

Queue(d, s, p, x) ==
    [d EXCEPT !.jobs = [d.jobs EXCEPT ![s] = [status |-> "QUEUED", prep |-> p, rev |-> d.rev]],
              !.wizard = x]

LEMMA QueueEffect ==
  ASSUME NEW d \in Tables, NEW s \in Slots, NEW p \in PrepIds, NEW x \in Refs
  PROVE  /\ Queue(d, s, p, x) \in Tables
         /\ Queue(d, s, p, x).wizard = x /\ Queue(d, s, p, x).rev = d.rev
         /\ Queue(d, s, p, x).preps = d.preps /\ Queue(d, s, p, x).batch = d.batch
         /\ Queue(d, s, p, x).items = d.items /\ Queue(d, s, p, x).exp = d.exp
         /\ Queue(d, s, p, x).trials = d.trials
         /\ \A y \in Slots : Queue(d, s, p, x).jobs[y] = IF y = s
               THEN [status |-> "QUEUED", prep |-> p, rev |-> d.rev] ELSE d.jobs[y]
<1> DEFINE J == [d.jobs EXCEPT ![s] = [status |-> "QUEUED", prep |-> p, rev |-> d.rev]]
<1>1. d.jobs \in [Slots -> Job]
      /\ [status |-> "QUEUED", prep |-> p, rev |-> d.rev] \in Job
  BY Fields DEF Job, Refs, Live
<1>2. J \in [Slots -> Job] /\ \A y \in Slots : J[y] = IF y = s
         THEN [status |-> "QUEUED", prep |-> p, rev |-> d.rev] ELSE d.jobs[y]
  BY <1>1
<1>3. Queue(d, s, p, x) = [d EXCEPT !.jobs = J, !.wizard = x]
  BY DEF Queue
<1> HIDE DEF J
<1>4. /\ Queue(d, s, p, x) \in Tables /\ Queue(d, s, p, x).jobs = J
      /\ Queue(d, s, p, x).wizard = x /\ Queue(d, s, p, x).rev = d.rev
      /\ Queue(d, s, p, x).preps = d.preps /\ Queue(d, s, p, x).batch = d.batch
      /\ Queue(d, s, p, x).items = d.items /\ Queue(d, s, p, x).exp = d.exp
      /\ Queue(d, s, p, x).trials = d.trials
  BY <1>2, <1>3 DEF Tables
<1> QED
  BY <1>2, <1>4

LEMMA EnqueueIs ==
  ASSUME NEW d \in Tables, NEW s \in Slots, NEW p, NEW finishes
  PROVE  \E x \in {0, d.wizard} : Enqueue(d, s, p, finishes) = Collect(Queue(d, s, p, x))
<1> DEFINE x == IF finishes /\ d.wizard = p THEN 0 ELSE d.wizard
<1>1. x \in {0, d.wizard}
  OBVIOUS
<1>2. Enqueue(d, s, p, finishes) = Collect(Queue(d, s, p, x))
  BY Fields DEF Enqueue, Queue
<1> QED
  BY <1>1, <1>2

\* A user's backtest: its row is nobody else's, its preview is completed.
LEMMA EnqueueSound ==
  ASSUME NEW q, NEW w, NEW d, Sound(d, w, q), q = NoPost, NEW u \in UserSlots,
         NEW p \in PrepIds, d.preps[p].status = "COMPLETED", NEW finishes
  PROVE  Sound(Enqueue(d, User(u), p, finishes), w, q)
         /\ SameExp(d, Enqueue(d, User(u), p, finishes))
<1>1. d \in Tables /\ User(u) \in Slots
  BY SlotsAre DEF Sound
<1>2. PICK x \in {0, d.wizard} : Enqueue(d, User(u), p, finishes) = Collect(Queue(d, User(u), p, x))
  BY <1>1, EnqueueIs
<1>3. PICK e : e = Queue(d, User(u), p, x)
  OBVIOUS
<1>4. x \in Refs
  BY <1>1, Fields DEF Refs
<1>5. /\ e \in Tables /\ e.wizard = x /\ e.rev = d.rev /\ e.preps = d.preps
      /\ e.batch = d.batch /\ e.items = d.items /\ e.exp = d.exp /\ e.trials = d.trials
      /\ \A y \in Slots : e.jobs[y] = IF y = User(u)
            THEN [status |-> "QUEUED", prep |-> p, rev |-> d.rev] ELSE d.jobs[y]
  BY <1>1, <1>3, <1>4, QueueEffect
<1>6. /\ e.jobs[Source] = d.jobs[Source]
      /\ \A t \in Trials : e.jobs[Trial(t)] = d.jobs[Trial(t)]
      /\ \A i \in Items : e.jobs[Item(i)] = d.jobs[Item(i)]
  BY <1>5, SlotsAre, SlotsDiffer
<1> USE DEF Sound
<1>7. RefsInv(e)
  <2>1. \A s \in Slots : e.jobs[s].prep # 0 => e.preps[e.jobs[s].prep].status = "COMPLETED"
    BY <1>5 DEF RefsInv
  <2> QED
    BY <1>5, <2>1 DEF RefsInv
<1>8. BatchInv(e) /\ LaunchInv(e)
  BY <1>5, <1>6 DEF BatchInv, JobEnded, LaunchInv
<1>9. GroupInv(e) /\ EndInv(e) /\ RevInv(e)
  <2>1. Past(e) = Past(d) /\ Group(e) = Group(d) /\ Preparing(e) = Preparing(d)
        /\ Past(d) \subseteq Trials /\ Group(d) \subseteq Trials
    BY <1>5 DEF Past, Group, Preparing, TrialsOf
  <2>2. GroupInv(e)
    BY <1>5, <1>6, <2>1 DEF GroupInv
  <2>3. \A t \in TrialsOf(d.exp.mode) : t \in Trials
    BY DEF TrialsOf
  <2>4. EndInv(e)
    BY <1>5, <1>6, <2>3, SlotsAre DEF EndInv, JobEnded
  <2>5. RevInv(e)
    BY <1>5, <1>6, <2>1 DEF RevInv
  <2> QED
    BY <2>2, <2>4, <2>5
<1>10. TickInv(e, w)
  BY <1>5 DEF TickInv, Group
<1>11. PostInv(e, q)
  BY DEF PostInv, NoPost
<1>12. Sound(e, w, q) /\ SameExp(d, e)
  BY <1>5, <1>7, <1>8, <1>9, <1>10, <1>11 DEF SameExp
<1> QED
  BY <1>2, <1>3, <1>12, CollectSound, CollectLeaves

\* Jobs are dropped that are none of the experiment's.
LEMMA DropStep ==
  ASSUME NEW w, NEW q, NEW d, Sound(d, w, q), NEW e \in Tables,
         e.preps = d.preps, e.trials = d.trials, e.exp = d.exp, e.rev = d.rev,
         e.wizard = d.wizard, BatchInv(e), e.batch.prep \in {0, d.batch.prep},
         e.batch.status \in {"NONE", d.batch.status},
         \A s \in Slots : e.jobs[s] \in {NoJob, d.jobs[s]},
         \A t \in Trials : e.jobs[Trial(t)] = d.jobs[Trial(t)],
         d.exp.status # "NONE" => e.jobs[Source] = d.jobs[Source]
  PROVE  Sound(e, w, q)
<1> USE DEF Sound
<1>1. RefsInv(e)
  BY DEF RefsInv, NoJob
<1>2. LaunchInv(e)
  BY DEF LaunchInv
<1>3. GroupInv(e) /\ EndInv(e) /\ RevInv(e)
  <2>1. Past(e) = Past(d) /\ Group(e) = Group(d) /\ Preparing(e) = Preparing(d)
        /\ Past(d) \subseteq Trials /\ Group(d) \subseteq Trials
    BY DEF Past, Group, Preparing, TrialsOf
  <2>2. GroupInv(e)
    BY <2>1 DEF GroupInv
  <2>3. \A t \in TrialsOf(d.exp.mode) : t \in Trials
    BY DEF TrialsOf
  <2>4. EndInv(e)
    BY <2>3, SlotsAre DEF EndInv, JobEnded
  <2>5. RevInv(e)
    BY <2>1 DEF RevInv
  <2> QED
    BY <2>2, <2>4, <2>5
<1>4. TickInv(e, w)
  BY DEF TickInv, Group
<1>5. PostInv(e, q)
  BY SlotsAre DEF PostInv
<1> QED
  BY <1>1, <1>2, <1>3, <1>4, <1>5

LEMMA WithoutBatchEffect ==
  ASSUME NEW d \in Tables
  PROVE  LET e == WithoutBatch(d)
         IN  /\ e \in Tables /\ e.preps = d.preps /\ e.trials = d.trials /\ e.exp = d.exp
             /\ e.rev = d.rev /\ e.wizard = d.wizard /\ e.batch = NoBatch
             /\ \A i \in Items : e.items[i] = "NONE"
             /\ \A s \in Slots : e.jobs[s] = IF s \in ItemJobs THEN NoJob ELSE d.jobs[s]
<1> DEFINE J == [s \in Slots |-> IF s \in ItemJobs THEN NoJob ELSE d.jobs[s]]
           I == [i \in Items |-> "NONE"]
<1>1. NoJob \in Job /\ NoBatch \in Batch
  BY DEF NoJob, Job, Refs, NoBatch, Batch, RowStatus
<1>2. J \in [Slots -> Job] /\ I \in [Items -> {"NONE", "PENDING", "DISPATCHED", "CANCELLED"}]
  BY <1>1, Fields
<1>3. WithoutBatch(d) = [d EXCEPT !.batch = NoBatch, !.valid = TRUE, !.items = I, !.jobs = J]
  BY DEF WithoutBatch
<1>4. /\ \A i \in Items : I[i] = "NONE"
      /\ \A s \in Slots : J[s] = IF s \in ItemJobs THEN NoJob ELSE d.jobs[s]
  OBVIOUS
<1> HIDE DEF I, J
<1>5. PICK e : e = WithoutBatch(d)
  OBVIOUS
<1>6. /\ e \in Tables /\ e.preps = d.preps /\ e.trials = d.trials /\ e.exp = d.exp
      /\ e.rev = d.rev /\ e.wizard = d.wizard /\ e.batch = NoBatch /\ e.items = I /\ e.jobs = J
  BY <1>1, <1>2, <1>3, <1>5 DEF Tables
<1> QED
  BY <1>4, <1>5, <1>6

LEMMA WithoutBatchSound ==
  ASSUME NEW w, NEW q, NEW d, Sound(d, w, q)
  PROVE  Sound(WithoutBatch(d), w, q) /\ SameExp(d, WithoutBatch(d))
<1>1. d \in Tables
  BY DEF Sound
<1>2. PICK e : e = WithoutBatch(d)
  OBVIOUS
<1>3. /\ e \in Tables /\ e.preps = d.preps /\ e.trials = d.trials /\ e.exp = d.exp
      /\ e.rev = d.rev /\ e.wizard = d.wizard /\ e.batch = NoBatch
      /\ \A i \in Items : e.items[i] = "NONE"
      /\ \A s \in Slots : e.jobs[s] = IF s \in ItemJobs THEN NoJob ELSE d.jobs[s]
  BY <1>1, <1>2, WithoutBatchEffect
<1>4. \A s \in Slots : e.jobs[s] \in {NoJob, d.jobs[s]}
  BY <1>3
<1>5. /\ \A t \in Trials : e.jobs[Trial(t)] = d.jobs[Trial(t)]
      /\ e.jobs[Source] = d.jobs[Source]
      /\ \A i \in Items : e.jobs[Item(i)] = NoJob
  BY <1>3, SlotsAre, SlotsDiffer
<1>6. BatchInv(e)
  BY <1>3, <1>5 DEF BatchInv, NoBatch
<1>7. e.batch.prep = 0 /\ e.batch.status = "NONE"
  BY <1>3 DEF NoBatch
<1> QED
  BY <1>2, <1>3, <1>4, <1>5, <1>6, <1>7, DropStep DEF SameExp

LEMMA DeleteBatchSound ==
  ASSUME NEW w, NEW q, NEW d, Sound(d, w, q)
  PROVE  Sound(DeleteBatch(d), w, q) /\ SameExp(d, DeleteBatch(d))
<1>1. Sound(WithoutBatch(d), w, q) /\ SameExp(d, WithoutBatch(d))
  BY WithoutBatchSound
<1> QED
  BY <1>1, CollectSound, CollectLeaves DEF DeleteBatch, Sound

LEMMA DeleteJobSound ==
  ASSUME NEW w, NEW q, NEW d, Sound(d, w, q), NEW s \in Slots, JobDeletable(d, s)
  PROVE  Sound(DeleteJob(d, s), w, q) /\ SameExp(d, DeleteJob(d, s))
<1>1. PICK b : b = IF s = Source THEN WithoutBatch(d) ELSE d
  OBVIOUS
<1>2. Sound(b, w, q) /\ SameExp(d, b)
  BY <1>1, WithoutBatchSound DEF SameExp
<1>3. b \in Tables /\ d \in Tables
  BY <1>2 DEF Sound
<1>4. PICK J : J = [b.jobs EXCEPT ![s] = NoJob]
  OBVIOUS
<1>5. J \in [Slots -> Job] /\ \A x \in Slots : J[x] = IF x = s THEN NoJob ELSE b.jobs[x]
  <2>1. NoJob \in Job
    BY DEF NoJob, Job, Refs
  <2> QED
    BY <1>3, <1>4, <2>1, Fields
<1>6. PICK e : e = [b EXCEPT !.jobs = J]
  OBVIOUS
<1>7. /\ e \in Tables /\ e.jobs = J
      /\ e.rev = b.rev /\ e.valid = b.valid /\ e.wizard = b.wizard /\ e.preps = b.preps
      /\ e.batch = b.batch /\ e.items = b.items /\ e.exp = b.exp /\ e.trials = b.trials
  BY <1>3, <1>5, <1>6, JobsEffect
<1>8. d.jobs[s].status \in Ended /\ ~ IsOfExperiment(d, s)
  BY DEF JobDeletable
<1>9. \A t \in Trials : s # Trial(t)
  <2>1. ASSUME NEW t \in Trials, s = Trial(t)
        PROVE  FALSE
    <3>1. d.trials[t].launched
      BY <1>8, <2>1 DEF Sound, LaunchInv, NoJob, Ended
    <3> QED
      BY <1>8, <2>1, <3>1 DEF IsOfExperiment
  <2> QED
    BY <2>1
<1>10. \A t \in Trials : e.jobs[Trial(t)] = b.jobs[Trial(t)]
  BY <1>5, <1>7, <1>9, SlotsAre
<1>11. b.exp.status # "NONE" => e.jobs[Source] = b.jobs[Source]
  BY <1>2, <1>5, <1>7, <1>8, SlotsAre DEF SameExp, IsOfExperiment
<1>12. \A x \in Slots : e.jobs[x] \in {NoJob, b.jobs[x]}
  BY <1>5, <1>7
<1>13. BatchInv(e)
  <2>1. BatchInv(b)
    BY <1>2 DEF Sound
  <2>2. \A i \in Items : e.jobs[Item(i)] \in {NoJob, b.jobs[Item(i)]}
    BY <1>12, SlotsAre
  <2>3. NoJob.status \notin Live
    BY DEF NoJob, Live
  <2> QED
    BY <1>7, <2>1, <2>2, <2>3 DEF BatchInv, JobEnded
<1>14. Sound(e, w, q) /\ SameExp(d, e)
  BY <1>2, <1>7, <1>10, <1>11, <1>12, <1>13, DropStep DEF SameExp
<1>15. DeleteJob(d, s) = Collect(e)
  BY <1>1, <1>4, <1>6 DEF DeleteJob
<1> QED
  BY <1>7, <1>14, <1>15, CollectSound, CollectLeaves

-----------------------------------------------------------------------------
(* The experiment.                                                         *)

ExpTables(d, J, E, T) == [d EXCEPT !.jobs = J, !.exp = E, !.trials = T]

LEMMA ExpTablesEffect ==
  ASSUME NEW d \in Tables, NEW J \in [Slots -> Job], NEW E \in Exp,
         NEW T \in [Trials -> TrialRow]
  PROVE  LET e == ExpTables(d, J, E, T)
         IN  /\ e \in Tables /\ e.jobs = J /\ e.exp = E /\ e.trials = T
             /\ e.rev = d.rev /\ e.valid = d.valid /\ e.wizard = d.wizard
             /\ e.preps = d.preps /\ e.batch = d.batch /\ e.items = d.items
  BY DEF Tables, ExpTables

LEMMA ExpStep ==
  ASSUME NEW w, NEW q, NEW d, Sound(d, w, q), NEW e \in Tables, NEW x,
         e.preps = d.preps, e.rev = d.rev, e.wizard = d.wizard, e.batch = d.batch,
         e.items = d.items,
         \A s \in Slots : e.jobs[s] # d.jobs[s] => s \in TrialJobs /\
            (e.jobs[s].prep # 0 => d.preps[e.jobs[s].prep].status = "COMPLETED"),
         \A t \in Trials : e.trials[t].prep \in {0, d.trials[t].prep},
         LaunchInv(e), GroupInv(e), EndInv(e), RevInv(e), TickInv(e, x)
  PROVE  Sound(e, x, q)
<1> USE DEF Sound
<1>1. RefsInv(e)
  BY DEF RefsInv
<1>2. \A i \in Items : e.jobs[Item(i)] = d.jobs[Item(i)]
  BY SlotsAre, SlotsDiffer
<1>3. BatchInv(e)
  BY <1>2 DEF BatchInv, JobEnded
<1>4. \A u \in UserSlots : e.jobs[User(u)] = d.jobs[User(u)]
  BY SlotsAre, SlotsDiffer
<1>5. PostInv(e, q)
  BY <1>4 DEF PostInv
<1> QED
  BY <1>1, <1>3, <1>5

LEMMA NoTrialsAre ==
  /\ [t \in Trials |-> NoTrial] \in [Trials -> TrialRow]
  /\ \A t \in Trials : [u \in Trials |-> NoTrial][t] = NoTrial
  /\ NoTrial.prep = 0 /\ NoTrial.launched = FALSE
  BY DEF NoTrial, TrialRow, Refs

LEMMA CreateExperimentSound ==
  ASSUME NEW w, NEW q, NEW d, Sound(d, w, q), d.exp.status = "NONE",
         d.jobs[Source].status = "COMPLETED", NEW mode \in ExpModes
  PROVE  Sound(CreateExperiment(d, mode), w, q)
<1>1. d \in Tables /\ d.jobs \in [Slots -> Job]
  BY Fields DEF Sound
<1>2. PICK E : E = [NoExp EXCEPT !.status = "ACTIVE", !.mode = mode, !.phase = "PREPARING_TRAIN"]
  OBVIOUS
<1>3. /\ E \in Exp /\ E.status = "ACTIVE" /\ E.mode = mode /\ E.phase = "PREPARING_TRAIN"
      /\ E.fold = 0
  BY <1>2 DEF NoExp, Exp, RowStatus, ExpPhases
<1>4. PICK T : T = [t \in Trials |-> NoTrial]
  OBVIOUS
<1>5. T \in [Trials -> TrialRow] /\ \A t \in Trials : T[t].prep = 0 /\ T[t].launched = FALSE
  BY <1>4, NoTrialsAre
<1>6. PICK e : e = ExpTables(d, d.jobs, E, T)
  OBVIOUS
<1>7. /\ e \in Tables /\ e.jobs = d.jobs /\ e.exp = E /\ e.trials = T
      /\ e.rev = d.rev /\ e.valid = d.valid /\ e.wizard = d.wizard
      /\ e.preps = d.preps /\ e.batch = d.batch /\ e.items = d.items
  BY <1>1, <1>3, <1>5, <1>6, ExpTablesEffect
<1>8. CreateExperiment(d, mode) = e
  BY <1>1, <1>2, <1>4, <1>6, Fields DEF CreateExperiment, ExpTables
<1>9. \A t \in Trials : d.jobs[Trial(t)] = NoJob
  BY DEF Sound, GroupInv, LaunchInv
<1>10. LaunchInv(e)
  BY <1>5, <1>7, <1>9 DEF LaunchInv
<1>11. GroupInv(e)
  <2>1. Past(e) = {}
    BY <1>3, <1>7, FoldsAre DEF Past, TrialsOf
  <2> QED
    BY <1>3, <1>5, <1>7, <2>1 DEF GroupInv
<1>12. EndInv(e)
  BY <1>3, <1>7 DEF EndInv, Ended
<1>13. RevInv(e)
  BY <1>5, <1>7 DEF RevInv, Group, TrialsOf
<1>14. TickInv(e, w)
  BY <1>3, <1>7 DEF TickInv, Sound
<1> QED
  BY <1>5, <1>7, <1>8, <1>10, <1>11, <1>12, <1>13, <1>14, ExpStep

LEMMA DeleteExperimentSound ==
  ASSUME NEW w, NEW q, NEW d, Sound(d, w, q)
  PROVE  Sound(DeleteExperiment(d), w, q) /\ DeleteExperiment(d).exp.status = "NONE"
<1>1. d \in Tables /\ d.jobs \in [Slots -> Job]
  BY Fields DEF Sound
<1>2. NoExp \in Exp /\ NoExp.status = "NONE" /\ NoExp.phase = "NONE"
  BY DEF NoExp, Exp, RowStatus, ExpModes, ExpPhases
<1>3. PICK T : T = [t \in Trials |-> NoTrial]
  OBVIOUS
<1>4. T \in [Trials -> TrialRow] /\ \A t \in Trials : T[t].prep = 0 /\ T[t].launched = FALSE
  BY <1>3, NoTrialsAre
<1>5. PICK J : J = [s \in Slots |-> IF s \in TrialJobs THEN NoJob ELSE d.jobs[s]]
  OBVIOUS
<1>6. J \in [Slots -> Job]
      /\ \A s \in Slots : J[s] = IF s \in TrialJobs THEN NoJob ELSE d.jobs[s]
  <2>1. NoJob \in Job
    BY DEF NoJob, Job, Refs
  <2> QED
    BY <1>1, <1>5, <2>1
<1>7. PICK e : e = ExpTables(d, J, NoExp, T)
  OBVIOUS
<1>8. /\ e \in Tables /\ e.jobs = J /\ e.exp = NoExp /\ e.trials = T
      /\ e.rev = d.rev /\ e.valid = d.valid /\ e.wizard = d.wizard
      /\ e.preps = d.preps /\ e.batch = d.batch /\ e.items = d.items
  BY <1>1, <1>2, <1>4, <1>6, <1>7, ExpTablesEffect
<1>9. DeleteExperiment(d) = Collect(e)
  <2>1. [d EXCEPT !.exp = NoExp, !.trials = T, !.jobs = J]
          = [d EXCEPT !.jobs = J, !.exp = NoExp, !.trials = T]
    BY <1>1, Fields
  <2> QED
    BY <1>3, <1>5, <1>7, <2>1 DEF DeleteExperiment, ExpTables
<1>10. LaunchInv(e)
  BY <1>4, <1>6, <1>8, SlotsAre DEF LaunchInv
<1>11. GroupInv(e) /\ EndInv(e)
  BY <1>2, <1>4, <1>8 DEF GroupInv, EndInv, Ended
<1>12. RevInv(e)
  BY <1>4, <1>8 DEF RevInv, Group, TrialsOf
<1>13. TickInv(e, w)
  BY <1>2, <1>8 DEF TickInv, Sound
<1>14. \A s \in Slots : e.jobs[s] # d.jobs[s] => s \in TrialJobs /\
            (e.jobs[s].prep # 0 => d.preps[e.jobs[s].prep].status = "COMPLETED")
  BY <1>6, <1>8 DEF NoJob
<1>15. Sound(e, w, q)
  BY <1>4, <1>8, <1>10, <1>11, <1>12, <1>13, <1>14, ExpStep
<1> QED
  BY <1>2, <1>8, <1>9, <1>15, CollectSound, CollectEffect

\* The experiment is stopped, fails, is cancelled or has been decided.
ExpStatus(d, status, error) ==
    [d EXCEPT !.exp = [d.exp EXCEPT !.status = status, !.error = error]]

LEMMA ExpStatusEffect ==
  ASSUME NEW d \in Tables, NEW status \in RowStatus, NEW error \in BOOLEAN
  PROVE  LET e == ExpStatus(d, status, error)
         IN  /\ e \in Tables /\ e.jobs = d.jobs /\ e.trials = d.trials
             /\ e.rev = d.rev /\ e.valid = d.valid /\ e.wizard = d.wizard
             /\ e.preps = d.preps /\ e.batch = d.batch /\ e.items = d.items
             /\ e.exp.status = status /\ e.exp.error = error
             /\ e.exp.mode = d.exp.mode /\ e.exp.phase = d.exp.phase
             /\ e.exp.fold = d.exp.fold /\ e.exp.rev = d.exp.rev
<1>1. PICK E : E = [d.exp EXCEPT !.status = status, !.error = error]
  OBVIOUS
<1>2. d.exp \in Exp /\ d.jobs \in [Slots -> Job] /\ d.trials \in [Trials -> TrialRow]
  BY Fields
<1>3. /\ E \in Exp /\ E.status = status /\ E.error = error /\ E.mode = d.exp.mode
      /\ E.phase = d.exp.phase /\ E.fold = d.exp.fold /\ E.rev = d.exp.rev
  BY <1>1, <1>2 DEF Exp
<1>4. PICK e : e = ExpTables(d, d.jobs, E, d.trials)
  OBVIOUS
<1>5. /\ e \in Tables /\ e.jobs = d.jobs /\ e.exp = E /\ e.trials = d.trials
      /\ e.rev = d.rev /\ e.valid = d.valid /\ e.wizard = d.wizard
      /\ e.preps = d.preps /\ e.batch = d.batch /\ e.items = d.items
  BY <1>2, <1>3, <1>4, ExpTablesEffect
<1>6. ExpStatus(d, status, error) = e
  BY <1>1, <1>4, Fields DEF ExpStatus, ExpTables
<1> QED
  BY <1>3, <1>5, <1>6

LEMMA ExpStatusSound ==
  ASSUME NEW w, NEW q, NEW d, Sound(d, w, q), d.exp.status # "NONE",
         NEW status \in RowStatus \ {"NONE"}, NEW error \in BOOLEAN,
         status \in Ended => \A s \in TrialJobs : JobEnded(d, s),
         status = "COMPLETED" =>
            \A t \in TrialsOf(d.exp.mode) :
               d.trials[t].launched /\ d.jobs[Trial(t)].status = "COMPLETED"
  PROVE  Sound(ExpStatus(d, status, error), w, q)
<1>1. d \in Tables
  BY DEF Sound
<1>2. PICK e : e = ExpStatus(d, status, error)
  OBVIOUS
<1>3. /\ e \in Tables /\ e.jobs = d.jobs /\ e.trials = d.trials
      /\ e.rev = d.rev /\ e.valid = d.valid /\ e.wizard = d.wizard
      /\ e.preps = d.preps /\ e.batch = d.batch /\ e.items = d.items
      /\ e.exp.status = status /\ e.exp.error = error
      /\ e.exp.mode = d.exp.mode /\ e.exp.phase = d.exp.phase
      /\ e.exp.fold = d.exp.fold /\ e.exp.rev = d.exp.rev
  BY <1>1, <1>2, ExpStatusEffect
<1>4. LaunchInv(e)
  BY <1>3 DEF LaunchInv, Sound
<1>5. GroupInv(e)
  BY <1>3 DEF GroupInv, Sound, Past, Group, Preparing
<1>6. EndInv(e)
  BY <1>3 DEF EndInv, JobEnded
<1>7. RevInv(e)
  BY <1>3 DEF RevInv, Sound, Group
<1>8. TickInv(e, w)
  BY <1>3 DEF TickInv, Sound, Group
<1> QED
  BY <1>2, <1>3, <1>4, <1>5, <1>6, <1>7, <1>8, ExpStep

-----------------------------------------------------------------------------
(* The tick. Every outcome of it is sound, and moves the experiment only   *)
(* where it may.                                                           *)

\* The runs of the group at hand can be compared: all ended, on one revision.
Comparable(d) ==
    \A t, u \in Group(d) : /\ d.jobs[Trial(t)].status = "COMPLETED"
                           /\ d.jobs[Trial(t)].rev = d.jobs[Trial(u)].rev

ExpMove(d, e) ==
    /\ d.exp.status # "ACTIVE" => e.trials = d.trials
    /\ d.exp.status = "CANCELLING" => e.exp.status \in {"CANCELLING", "FAILED", "CANCELLED"}
    /\ /\ d.exp.status = "ACTIVE" /\ d.exp.phase \in {"TRAIN", "OOS"}
       /\ e.exp.status \in {"ACTIVE", "COMPLETED"} /\ e.exp # d.exp
       => Comparable(d)

Outcome(d, q, o) == o.tick \in Wait /\ Sound(o.db, o.tick, q) /\ ExpMove(d, o.db)

LEMMA SoundWhenIdle ==
  ASSUME NEW w, NEW q, NEW d, Sound(d, w, q)
  PROVE  Sound(d, Idle, q)
  BY DEF Sound, TickInv, Idle

LEMMA DoneOutcome ==
  ASSUME NEW w, NEW q, NEW d, NEW e, Sound(e, w, q), ExpMove(d, e), NEW o \in Done(e)
  PROVE  Outcome(d, q, o)
<1>1. o.db = e /\ o.tick = Idle
  BY DEF Done
<1>2. Idle \in Wait
  BY DEF Wait
<1> QED
  BY <1>1, <1>2, SoundWhenIdle DEF Outcome

LEMMA FinishCancellationSound ==
  ASSUME NEW w, NEW q, NEW d, Sound(d, w, q), d.exp.status = "CANCELLING"
  PROVE  LET e == FinishCancellation(d)
         IN  /\ Sound(e, w, q) /\ e.trials = d.trials
             /\ e.exp.status \in {"CANCELLING", "FAILED", "CANCELLED"}
<1> DEFINE L == LiveTrials(d)
           c == IF L = {} THEN d ELSE OnJobStatusChanged(CancelJobs(d, L))
           P == [p \in PrepIds |-> IF IsUnfinished(d, p)
                   THEN [c.preps[p] EXCEPT !.status = "CANCELLING"] ELSE c.preps[p]]
           b == [c EXCEPT !.preps = P]
<1>1. d \in Tables
  BY DEF Sound
<1>2. /\ Sound(c, w, q) /\ SameExp(d, c)
      /\ \A p \in PrepIds : d.preps[p].status \notin Ended => c.preps[p] = d.preps[p]
  <2>1. CASE L = {}
    BY <2>1 DEF SameExp
  <2>2. CASE L # {}
    <3>1. PICK j : j = CancelJobs(d, L)
      OBVIOUS
    <3>2. Sound(j, w, q)
      BY <3>1, CancelJobsSound
    <3>3. j.exp = d.exp /\ j.trials = d.trials /\ j.preps = d.preps
      BY <1>1, <3>1, CancelJobsEffect
    <3>4. Sound(OnJobStatusChanged(j), w, q) /\ SameButBatch(j, OnJobStatusChanged(j))
      BY <3>2, OnJobStatusChangedSound
    <3>5. c = OnJobStatusChanged(j)
      BY <2>2, <3>1
    <3> HIDE DEF c
    <3> QED
      BY <3>3, <3>4, <3>5 DEF SameExp, SameButBatch
  <2> QED
    BY <2>1, <2>2
<1>3. FinishCancellation(d) =
        IF L # {} \/ \E p \in PrepIds : IsUnfinished(d, p) THEN b
        ELSE [b EXCEPT !.exp.status = IF d.exp.error THEN "FAILED" ELSE "CANCELLED"]
  BY DEF FinishCancellation
<1>4. L = {} => c = d
  OBVIOUS
<1>5. \A p \in PrepIds : P[p] = IF IsUnfinished(d, p)
                   THEN [c.preps[p] EXCEPT !.status = "CANCELLING"] ELSE c.preps[p]
  OBVIOUS
<1>6. P = [p \in PrepIds |-> P[p]]
  OBVIOUS
<1> HIDE DEF c, P
<1>7. c \in Tables /\ c.preps \in [PrepIds -> Prep] /\ c.wizard \in Refs
  BY <1>2, Fields DEF Sound
<1>8. ASSUME NEW p \in PrepIds
      PROVE  P[p] \in Prep /\ GoesOn(c.preps[p], P[p])
  <2>1. c.preps[p] \in Prep
    BY <1>7
  <2>2. CASE IsUnfinished(d, p)
    <3>1. c.preps[p].status \in {"ACTIVE", "CANCELLING"}
      BY <1>2, <2>2 DEF IsUnfinished, Ended
    <3>2. PICK x \in Prep : x = c.preps[p]
      BY <2>1
    <3>3. P[p] = [x EXCEPT !.status = "CANCELLING"]
      BY <1>5, <2>2, <3>2
    <3>4. P[p] \in Prep /\ P[p].status = "CANCELLING"
      BY <3>3 DEF Prep, RowStatus
    <3> QED
      BY <3>1, <3>4 DEF GoesOn
  <2>3. CASE ~ IsUnfinished(d, p)
    BY <1>5, <2>1, <2>3 DEF GoesOn
  <2> QED
    BY <2>2, <2>3
<1>9. P \in [PrepIds -> Prep]
  BY <1>6, <1>8
<1>10. b = Prepared(c, P, c.wizard)
  BY <1>7, Fields DEF Prepared
<1>11. Sound(b, w, q) /\ SameExp(c, b)
  BY <1>2, <1>7, <1>8, <1>9, <1>10, PreparedSound
<1>12. b.jobs = c.jobs
  BY <1>7, <1>9, <1>10, PreparedEffect
<1> HIDE DEF b
<1>13. b \in Tables /\ b.exp = d.exp /\ b.trials = d.trials
  BY <1>2, <1>11 DEF Sound, SameExp
<1>14. CASE L # {} \/ \E p \in PrepIds : IsUnfinished(d, p)
  BY <1>3, <1>11, <1>13, <1>14
<1>15. CASE L = {} /\ ~ \E p \in PrepIds : IsUnfinished(d, p)
  <2> DEFINE status == IF d.exp.error THEN "FAILED" ELSE "CANCELLED"
  <2>1. status \in {"FAILED", "CANCELLED"}
    OBVIOUS
  <2>2. FinishCancellation(d) = [b EXCEPT !.exp.status = status]
    BY <1>3, <1>15
  <2> HIDE DEF status, L
  <2>3. PICK x \in Exp : x = b.exp
    BY <1>13, Fields
  <2>4. [x EXCEPT !.status = status] = [x EXCEPT !.status = status, !.error = x.error]
    BY DEF Exp
  <2>5. FinishCancellation(d) = ExpStatus(b, status, b.exp.error)
    BY <2>2, <2>3, <2>4 DEF ExpStatus
  <2>6. status \in RowStatus \ {"NONE"} /\ status # "COMPLETED" /\ b.exp.error \in BOOLEAN
    BY <2>1, <2>3 DEF RowStatus, Ended, Exp
  <2>7. \A s \in TrialJobs : JobEnded(b, s)
    <3>1. b.jobs = d.jobs
      BY <1>4, <1>12, <1>15
    <3>2. ASSUME NEW t \in Trials
          PROVE  d.jobs[Trial(t)].status \notin Live
      <4>1. CASE d.trials[t].launched
        <5>1. Trial(t) \in TrialJobsOf(d)
          BY <4>1 DEF TrialJobsOf
        <5> QED
          BY <1>15, <5>1 DEF L, LiveTrials
      <4>2. CASE ~ d.trials[t].launched
        BY <4>2 DEF Sound, LaunchInv, NoJob, Live
      <4> QED
        BY <4>1, <4>2
    <3> QED
      BY <3>1, <3>2, SlotsAre DEF JobEnded
  <2>8. Sound(ExpStatus(b, status, b.exp.error), w, q)
    BY <1>11, <1>13, <2>6, <2>7, ExpStatusSound
  <2>9. ExpStatus(b, status, b.exp.error).trials = b.trials
        /\ ExpStatus(b, status, b.exp.error).exp.status = status
    BY <1>13, <2>6, ExpStatusEffect
  <2> QED
    BY <1>13, <2>1, <2>5, <2>8, <2>9
<1> QED
  BY <1>14, <1>15

\* The catch of tick.
LEMMA FailOutcome ==
  ASSUME NEW w, NEW q, NEW d, Sound(d, w, q), d.exp.status = "ACTIVE", NEW o \in Fail(d)
  PROVE  Outcome(d, q, o)
<1>1. d \in Tables /\ d.exp \in Exp
  BY Fields DEF Sound
<1>2. PICK c : c = ExpStatus(d, "CANCELLING", TRUE)
  OBVIOUS
<1>3. "CANCELLING" \in RowStatus \ {"NONE"} /\ "CANCELLING" \notin Ended /\ TRUE \in BOOLEAN
  BY DEF RowStatus, Ended
<1>4. Sound(c, w, q)
  BY <1>2, <1>3, ExpStatusSound DEF Ended
<1>5. c.exp.status = "CANCELLING"
  BY <1>1, <1>2, <1>3, ExpStatusEffect
<1>6. Fail(d) = Done(FinishCancellation(c))
  BY <1>1, <1>2, Fields DEF Fail, ExpStatus
<1>7. PICK e : e = FinishCancellation(c)
  OBVIOUS
<1>8. Sound(e, w, q) /\ e.exp.status \in {"CANCELLING", "FAILED", "CANCELLED"}
  BY <1>4, <1>5, <1>7, FinishCancellationSound
<1>9. ExpMove(d, e)
  BY <1>8 DEF ExpMove
<1> QED
  BY <1>6, <1>7, <1>8, <1>9, DoneOutcome

\* A trial is given a preview.
LEMMA AttachSound ==
  ASSUME NEW w, NEW q, NEW d, Sound(d, w, q), NEW t \in Trials, NEW p \in PrepIds,
         d.preps[p].status # "NONE"
  PROVE  Sound(Attach(d, t, p), Idle, q) /\ Attach(d, t, p).exp = d.exp
<1>1. /\ d \in Tables /\ d.jobs \in [Slots -> Job] /\ d.exp \in Exp
      /\ d.trials \in [Trials -> TrialRow] /\ d.preps \in [PrepIds -> Prep] /\ d.wizard \in Refs
  BY Fields DEF Sound
<1>2. PICK T : T = [d.trials EXCEPT ![t] = [d.trials[t] EXCEPT !.prep = p]]
  OBVIOUS
<1>3. /\ T \in [Trials -> TrialRow] /\ T[t].prep = p
      /\ \A u \in Trials : T[u].launched = d.trials[u].launched
      /\ \A u \in Trials \ {t} : T[u] = d.trials[u]
  <2>1. PICK x \in TrialRow : x = d.trials[t]
    BY <1>1
  <2>2. PICK y : y = [x EXCEPT !.prep = p]
    OBVIOUS
  <2>3. y \in TrialRow /\ y.prep = p /\ y.launched = x.launched
    BY <2>2 DEF TrialRow, Refs
  <2>4. T = [d.trials EXCEPT ![t] = y]
    BY <1>2, <2>1, <2>2
  <2> QED
    BY <1>1, <2>1, <2>3, <2>4
<1>4. PICK e : e = ExpTables(d, d.jobs, d.exp, T)
  OBVIOUS
<1>5. /\ e \in Tables /\ e.jobs = d.jobs /\ e.exp = d.exp /\ e.trials = T
      /\ e.rev = d.rev /\ e.valid = d.valid /\ e.wizard = d.wizard
      /\ e.preps = d.preps /\ e.batch = d.batch /\ e.items = d.items
  BY <1>1, <1>3, <1>4, ExpTablesEffect
<1>6. Sound(e, Idle, q)
  <2> USE DEF Sound
  <2>1. RefsInv(e)
    <3>1. \A u \in Trials : e.trials[u].prep # 0 => e.preps[e.trials[u].prep].status # "NONE"
      BY <1>3, <1>5 DEF RefsInv
    <3> QED
      BY <1>5, <3>1 DEF RefsInv
  <2>2. BatchInv(e)
    BY <1>5 DEF BatchInv, JobEnded
  <2>3. LaunchInv(e)
    BY <1>3, <1>5 DEF LaunchInv
  <2>4. Past(e) = Past(d) /\ Group(e) = Group(d) /\ Preparing(e) = Preparing(d)
        /\ Past(d) \subseteq Trials /\ Group(d) \subseteq Trials
    BY <1>5 DEF Past, Group, Preparing, TrialsOf
  <2>5. GroupInv(e)
    BY <1>3, <1>5, <2>4 DEF GroupInv
  <2>6. \A u \in TrialsOf(d.exp.mode) : u \in Trials
    BY DEF TrialsOf
  <2>7. EndInv(e)
    BY <1>3, <1>5, <2>6 DEF EndInv, JobEnded
  <2>8. RevInv(e)
    BY <1>3, <1>5, <2>4 DEF RevInv
  <2>9. TickInv(e, Idle)
    BY DEF TickInv, Idle
  <2>10. PostInv(e, q)
    BY <1>5 DEF PostInv
  <2> QED
    BY <1>5, <2>1, <2>2, <2>3, <2>5, <2>7, <2>8, <2>9, <2>10
<1>7. PICK P : P = [d.preps EXCEPT ![p] = [d.preps[p] EXCEPT !.managed = TRUE]]
  OBVIOUS
<1>8. P \in [PrepIds -> Prep] /\ \A x \in PrepIds : P[x].status = d.preps[x].status
  <2>1. PICK x \in Prep : x = d.preps[p]
    BY <1>1
  <2>2. PICK y : y = [x EXCEPT !.managed = TRUE]
    OBVIOUS
  <2>3. y \in Prep /\ y.status = x.status
    BY <2>2 DEF Prep
  <2>4. P = [d.preps EXCEPT ![p] = y]
    BY <1>7, <2>1, <2>2
  <2> QED
    BY <1>1, <2>1, <2>3, <2>4
<1>9. PICK f : f = Prepared(e, P, e.wizard)
  OBVIOUS
<1>10. Sound(f, Idle, q) /\ SameExp(e, f)
  BY <1>1, <1>5, <1>6, <1>8, <1>9, PreparedSound DEF GoesOn
<1>11. Attach(d, t, p) = Collect(f)
  <2>1. [d EXCEPT !.trials[t].prep = p, !.preps[p].managed = TRUE]
          = [d EXCEPT !.trials = T, !.preps = P]
    BY <1>1, <1>2, <1>7, Fields
  <2>2. [d EXCEPT !.trials = T, !.preps = P] = f
    BY <1>1, <1>4, <1>5, <1>9, Fields DEF ExpTables, Prepared
  <2> QED
    BY <2>1, <2>2 DEF Attach
<1>12. f \in Tables /\ f.exp = d.exp
  BY <1>5, <1>10 DEF Sound, SameExp
<1> QED
  BY <1>10, <1>11, <1>12, CollectSound, CollectEffect

LEMMA WaitIsTyped ==
  ASSUME NEW d \in Tables, NEW at \in {"ready", "build"}, NEW t \in Trials
  PROVE  WaitAt(d, at, t) \in Wait
  BY Fields DEF WaitAt, Wait, TrialRow, Exp

\* prepareGroup
LEMMA PrepareTrialOutcome ==
  ASSUME NEW w, NEW q, NEW d, Sound(d, w, q), d.exp.status = "ACTIVE", NEW t \in Trials,
         NEW o \in PrepareTrial(d, t)
  PROVE  Outcome(d, q, o)
<1>1. d \in Tables
  BY DEF Sound
<1>2. ExpMove(d, d)
  BY DEF ExpMove
<1>3. CASE o \in Fail(d)
  BY <1>3, FailOutcome
<1>4. CASE o \in Done(d)
  BY <1>2, <1>4, DoneOutcome
<1>5. CASE \E x \in FreshFor(d, InputOf(d, t)) : o \in Done(Attach(d, t, x))
  <2>1. PICK x \in FreshFor(d, InputOf(d, t)) : o \in Done(Attach(d, t, x))
    BY <1>5
  <2>2. x \in PrepIds /\ d.preps[x].status = "COMPLETED"
    BY DEF FreshFor, Fresh
  <2>3. Sound(Attach(d, t, x), Idle, q) /\ Attach(d, t, x).exp = d.exp
    BY <2>2, AttachSound
  <2>4. ExpMove(d, Attach(d, t, x))
    BY <2>3 DEF ExpMove
  <2> QED
    BY <2>1, <2>3, <2>4, DoneOutcome
<1>6. CASE o = [db |-> d, tick |-> WaitAt(d, "ready", t)]
  <2>1. o.db = d /\ o.tick = WaitAt(d, "ready", t)
    BY <1>6
  <2>2. TickInv(d, WaitAt(d, "ready", t))
    BY DEF TickInv, WaitAt
  <2> QED
    BY <1>1, <1>2, <2>1, <2>2, WaitIsTyped DEF Outcome, Sound
<1>7. \/ o \in Fail(d) \/ o \in Done(d)
      \/ \E x \in FreshFor(d, InputOf(d, t)) : o \in Done(Attach(d, t, x))
      \/ o = [db |-> d, tick |-> WaitAt(d, "ready", t)]
  <2>1. PICK P : P = d.trials[t].prep
    OBVIOUS
  <2>2. \/ PrepareTrial(d, t) = Fail(d) \/ PrepareTrial(d, t) = Done(d)
        \/ PrepareTrial(d, t) = UNION {Done(Attach(d, t, x)) : x \in FreshFor(d, InputOf(d, t))}
        \/ PrepareTrial(d, t) = {[db |-> d, tick |-> WaitAt(d, "ready", t)]}
    BY DEF PrepareTrial
  <2> QED
    BY <2>2
<1> QED
  BY <1>3, <1>4, <1>5, <1>6, <1>7

\* The group at hand is apart from the groups before it.
LEMMA PastIsPast ==
  ASSUME NEW d \in Tables, NEW t \in Group(d)
  PROVE  t \in Trials /\ t \notin Past(d)
<1>1. t \in Trials /\ d.exp.fold \in Nat
  BY Fields DEF Group, TrialsOf, Exp
<1>2. FoldOf(t) = d.exp.fold
  BY DEF Group
<1>3. ~ (FoldOf(t) < d.exp.fold)
  BY <1>1, <1>2
<1> QED
  BY <1>1, <1>3 DEF Past, Group

LEMMA PrepareGroupOutcome ==
  ASSUME NEW w, NEW q, NEW d, Sound(d, w, q), d.exp.status = "ACTIVE", Preparing(d),
         NEW o \in PrepareGroup(d)
  PROVE  Outcome(d, q, o)
<1>1. /\ d \in Tables /\ d.jobs \in [Slots -> Job] /\ d.exp \in Exp /\ d.rev \in Nat
      /\ d.trials \in [Trials -> TrialRow]
  BY Fields DEF Sound
<1> DEFINE todo == {t \in Group(d) : ~ Fresh(d, d.trials[t].prep)}
           phase == IF d.exp.phase = "PREPARING_TRAIN" THEN "TRAIN" ELSE "OOS"
<1>2. CASE todo # {}
  <2>1. PICK t \in Group(d) : o \in PrepareTrial(d, t)
    BY <1>2 DEF PrepareGroup
  <2>2. t \in Trials
    BY <1>1, PastIsPast
  <2> QED
    BY <2>1, <2>2, PrepareTrialOutcome
<1>3. CASE todo = {}
  <2>1. PrepareGroup(d) = Done([d EXCEPT !.exp.phase = phase, !.exp.rev = d.rev])
    BY <1>3 DEF PrepareGroup
  <2>2. /\ phase \in {"TRAIN", "OOS"}
        /\ phase = "TRAIN" <=> d.exp.phase = "PREPARING_TRAIN"
        /\ phase = "OOS" <=> d.exp.phase = "PREPARING_OOS"
    BY DEF Preparing
  <2> HIDE DEF phase
  <2>3. PICK E : E = [[d.exp EXCEPT !.phase = phase] EXCEPT !.rev = d.rev]
    OBVIOUS
  <2>4. /\ E \in Exp /\ E.status = "ACTIVE" /\ E.mode = d.exp.mode
        /\ E.phase = phase /\ E.fold = d.exp.fold /\ E.rev = d.rev
    <3>1. [d.exp EXCEPT !.phase = phase] \in Exp
      BY <1>1, <2>2 DEF Exp, ExpPhases
    <3> QED
      BY <1>1, <2>2, <2>3, <3>1 DEF Exp
  <2>5. PICK e : e = ExpTables(d, d.jobs, E, d.trials)
    OBVIOUS
  <2>6. /\ e \in Tables /\ e.jobs = d.jobs /\ e.exp = E /\ e.trials = d.trials
        /\ e.rev = d.rev /\ e.valid = d.valid /\ e.wizard = d.wizard
        /\ e.preps = d.preps /\ e.batch = d.batch /\ e.items = d.items
    BY <1>1, <2>4, <2>5, ExpTablesEffect
  <2>7. [d EXCEPT !.exp.phase = phase, !.exp.rev = d.rev] = e
    BY <1>1, <2>3, <2>5, Fields DEF ExpTables
  <2>8. \A t \in Trials : d.trials[t].launched => t \in Past(d)
    BY DEF Sound, GroupInv
  <2>9. Past(e) = Past(d) /\ Group(e) = Group(d)
    BY <2>2, <2>4, <2>6 DEF Past, Group
  <2>10. LaunchInv(e)
    BY <2>6 DEF LaunchInv, Sound
  <2>11. GroupInv(e)
    <3>1. e.exp.status # "NONE" /\ e.exp.phase # "NONE"
      BY <2>2, <2>4, <2>6
    <3> QED
      BY <2>6, <2>8, <2>9, <3>1 DEF GroupInv, Sound
  <2>12. EndInv(e)
    BY <2>4, <2>6 DEF EndInv, Ended
  <2>13. RevInv(e)
    BY <1>1, <2>6, <2>8, <2>9, PastIsPast DEF RevInv
  <2>14. TickInv(e, Idle)
    BY DEF TickInv, Idle
  <2>15. Sound(e, Idle, q)
    BY <2>6, <2>10, <2>11, <2>12, <2>13, <2>14, ExpStep
  <2>16. ExpMove(d, e)
    BY DEF ExpMove, Preparing
  <2> QED
    BY <2>1, <2>7, <2>15, <2>16, DoneOutcome
<1> QED
  BY <1>2, <1>3

LEMMA ResumeReadyOutcome ==
  ASSUME NEW w \in Wait, w.at = "ready", NEW q, NEW d, Sound(d, w, q),
         NEW o \in ResumeReady(d, w)
  PROVE  Outcome(d, q, o)
<1>1. w.trial \in Trials
  BY DEF Wait, Idle
<1>2. CASE o \in Done(d)
  <2>1. ExpMove(d, d)
    BY DEF ExpMove
  <2> QED
    BY <1>2, <2>1, DoneOutcome
<1>3. CASE SamePhase(d, w) /\ \E p \in RowFor(d, InputOf(d, w.trial)) :
                                 o \in Done(Attach(Start(d, p), w.trial, p))
  <2>1. PICK p \in RowFor(d, InputOf(d, w.trial)) : o \in Done(Attach(Start(d, p), w.trial, p))
    BY <1>3
  <2>2. p \in PrepIds
    BY DEF RowFor
  <2>3. PICK s : s = Start(d, p)
    OBVIOUS
  <2>4. Sound(s, w, q) /\ SameExp(d, s) /\ s.preps[p].status # "NONE"
    BY <2>2, <2>3, StartSound
  <2>5. PICK e : e = Attach(s, w.trial, p)
    OBVIOUS
  <2>6. Sound(e, Idle, q) /\ e.exp = s.exp
    BY <1>1, <2>2, <2>4, <2>5, AttachSound
  <2>7. ExpMove(d, e)
    BY <1>3, <2>4, <2>6 DEF ExpMove, SameExp, SamePhase
  <2> QED
    BY <2>1, <2>3, <2>5, <2>6, <2>7, DoneOutcome
<1> QED
  BY <1>2, <1>3 DEF ResumeReady

\* The experiment goes on to the next group, of which nothing was run yet.
LEMMA AdvanceSound ==
  ASSUME NEW q, NEW w, NEW d, Sound(d, w, q), d.exp.status = "ACTIVE", NEW e \in Tables,
         e.jobs = d.jobs, e.preps = d.preps, e.rev = d.rev, e.wizard = d.wizard,
         e.batch = d.batch, e.items = d.items,
         \A t \in Trials : /\ e.trials[t].prep = d.trials[t].prep
                           /\ e.trials[t].launched = d.trials[t].launched,
         e.exp.status = "ACTIVE", e.exp.phase # "NONE",
         \A t \in Group(d) : d.trials[t].launched /\ d.jobs[Trial(t)].status = "COMPLETED",
         Past(e) = Past(d) \cup Group(d), Group(e) \cap Past(e) = {}
  PROVE  Sound(e, Idle, q)
<1>1. \A t \in Trials : d.trials[t].launched => t \in Past(d) \cup Group(d)
  BY DEF Sound, GroupInv
<1>2. Past(d) \subseteq Trials /\ Group(d) \subseteq Trials /\ Group(e) \subseteq Trials
  BY DEF Past, Group, TrialsOf
<1>3. LaunchInv(e)
  BY DEF LaunchInv, Sound
<1>4. GroupInv(e)
  BY <1>1, <1>2 DEF GroupInv, Sound
<1>5. EndInv(e)
  BY DEF EndInv, Ended
<1>6. RevInv(e)
  BY <1>1, <1>2 DEF RevInv
<1>7. TickInv(e, Idle)
  BY DEF TickInv, Idle
<1>8. \A t \in Trials : e.trials[t].prep \in {0, d.trials[t].prep}
  OBVIOUS
<1> QED
  BY <1>3, <1>4, <1>5, <1>6, <1>7, <1>8, ExpStep

\* A candidate is taken: the next group are the runs out of sample.
LEMMA TakeOutcome ==
  ASSUME NEW w, NEW q, NEW d, Sound(d, w, q), d.exp.status = "ACTIVE", d.exp.phase = "TRAIN",
         \A t \in Group(d) : d.trials[t].launched /\ d.jobs[Trial(t)].status = "COMPLETED",
         Comparable(d), NEW c \in Nat,
         NEW o \in Done(Take(d, c))
  PROVE  Outcome(d, q, o)
<1>1. /\ d \in Tables /\ d.jobs \in [Slots -> Job] /\ d.exp \in Exp /\ d.exp.fold \in Nat
      /\ d.trials \in [Trials -> TrialRow]
  BY Fields DEF Sound, Exp
<1>2. PICK T : T = [t \in Trials |-> IF FoldOf(t) = d.exp.fold /\ IsOOS(t)
                          THEN [d.trials[t] EXCEPT !.candidate = c] ELSE d.trials[t]]
  OBVIOUS
<1>3. ASSUME NEW t \in Trials
      PROVE  /\ T[t] \in TrialRow
             /\ T[t].prep = d.trials[t].prep /\ T[t].launched = d.trials[t].launched
  <2>1. PICK x \in TrialRow : x = d.trials[t]
    BY <1>1
  <2>2. PICK y : y = [x EXCEPT !.candidate = c]
    OBVIOUS
  <2>3. y \in TrialRow /\ y.prep = x.prep /\ y.launched = x.launched
    BY <2>2 DEF TrialRow
  <2>4. T[t] \in {x, y}
    BY <1>2, <2>1, <2>2
  <2> QED
    BY <2>1, <2>3, <2>4
<1>4. T \in [Trials -> TrialRow]
  BY <1>2, <1>3
<1>5. PICK E : E = [[d.exp EXCEPT !.phase = "PREPARING_OOS"] EXCEPT !.rev = 0]
  OBVIOUS
<1>6. /\ E \in Exp /\ E.status = "ACTIVE" /\ E.mode = d.exp.mode
      /\ E.phase = "PREPARING_OOS" /\ E.fold = d.exp.fold
  <2>1. [d.exp EXCEPT !.phase = "PREPARING_OOS"] \in Exp
    BY <1>1 DEF Exp, ExpPhases
  <2> QED
    BY <1>1, <1>5, <2>1 DEF Exp
<1>7. PICK e : e = ExpTables(d, d.jobs, E, T)
  OBVIOUS
<1>8. /\ e \in Tables /\ e.jobs = d.jobs /\ e.exp = E /\ e.trials = T
      /\ e.rev = d.rev /\ e.valid = d.valid /\ e.wizard = d.wizard
      /\ e.preps = d.preps /\ e.batch = d.batch /\ e.items = d.items
  BY <1>1, <1>4, <1>6, <1>7, ExpTablesEffect
<1>9. Take(d, c) = e
  <2>1. Take(d, c) = [d EXCEPT !.trials = T, !.exp.phase = "PREPARING_OOS", !.exp.rev = 0]
    BY <1>2 DEF Take
  <2> QED
    BY <1>1, <1>5, <1>7, <2>1, Fields DEF ExpTables
<1>10. Past(e) = Past(d) \cup Group(d)
  BY <1>6, <1>8 DEF Past, Group
<1>11. Group(e) \cap Past(e) = {}
  BY <1>8, PastIsPast
<1>12. Sound(e, Idle, q)
  BY <1>3, <1>6, <1>8, <1>10, <1>11, AdvanceSound
<1>13. ExpMove(d, e)
  BY DEF ExpMove
<1> QED
  BY <1>9, <1>12, <1>13, DoneOutcome

\* The last runs have ended.
LEMMA CompleteOutcome ==
  ASSUME NEW w, NEW q, NEW d, Sound(d, w, q), d.exp.status = "ACTIVE", d.exp.phase = "OOS",
         \A t \in Group(d) : d.trials[t].launched /\ d.jobs[Trial(t)].status = "COMPLETED",
         Comparable(d), d.exp.fold + 1 = Folds(d.exp.mode),
         NEW o \in Done([d EXCEPT !.exp.status = "COMPLETED"])
  PROVE  Outcome(d, q, o)
<1>1. d \in Tables /\ d.exp \in Exp /\ d.exp.fold \in Nat /\ d.exp.error \in BOOLEAN
  BY Fields DEF Sound, Exp
<1>2. \A t \in Trials : d.trials[t].launched => t \in Past(d) \cup Group(d)
  BY DEF Sound, GroupInv
<1>3. \A t \in Past(d) : d.trials[t].launched /\ d.jobs[Trial(t)].status = "COMPLETED"
  BY DEF Sound, GroupInv
<1>4. ASSUME NEW t \in TrialsOf(d.exp.mode)
      PROVE  t \in Past(d) \cup Group(d)
  <2>1. FoldOf(t) \in Nat /\ FoldOf(t) < d.exp.fold + 1
    BY FoldsAre DEF TrialsOf
  <2>2. FoldOf(t) < d.exp.fold \/ FoldOf(t) = d.exp.fold
    BY <1>1, <2>1
  <2> QED
    BY <2>2 DEF Past, Group
<1>5. \A s \in TrialJobs : JobEnded(d, s)
  <2>1. ASSUME NEW t \in Trials
        PROVE  d.jobs[Trial(t)].status \notin Live
    <3>1. CASE d.trials[t].launched
      BY <1>2, <1>3, <3>1 DEF Live
    <3>2. CASE ~ d.trials[t].launched
      BY <3>2 DEF Sound, LaunchInv, NoJob, Live
    <3> QED
      BY <3>1, <3>2
  <2> QED
    BY <2>1, SlotsAre DEF JobEnded
<1>6. [d EXCEPT !.exp.status = "COMPLETED"] = ExpStatus(d, "COMPLETED", d.exp.error)
  <2>1. PICK x \in Exp : x = d.exp
    BY <1>1
  <2>2. [x EXCEPT !.status = "COMPLETED"] = [x EXCEPT !.status = "COMPLETED", !.error = x.error]
    BY DEF Exp
  <2> QED
    BY <2>1, <2>2 DEF ExpStatus
<1>7. "COMPLETED" \in RowStatus \ {"NONE"}
  BY DEF RowStatus, Ended
<1>8. Sound(ExpStatus(d, "COMPLETED", d.exp.error), w, q)
  BY <1>1, <1>3, <1>4, <1>5, <1>7, ExpStatusSound
<1>9. ExpMove(d, ExpStatus(d, "COMPLETED", d.exp.error))
  BY DEF ExpMove
<1> QED
  BY <1>6, <1>8, <1>9, DoneOutcome

\* The next fold.
LEMMA NextFoldOutcome ==
  ASSUME NEW w, NEW q, NEW d, Sound(d, w, q), d.exp.status = "ACTIVE", d.exp.phase = "OOS",
         \A t \in Group(d) : d.trials[t].launched /\ d.jobs[Trial(t)].status = "COMPLETED",
         Comparable(d),
         NEW o \in Done([d EXCEPT !.exp.fold = d.exp.fold + 1, !.exp.phase = "PREPARING_TRAIN",
                                  !.exp.rev = 0])
  PROVE  Outcome(d, q, o)
<1>1. /\ d \in Tables /\ d.jobs \in [Slots -> Job] /\ d.exp \in Exp /\ d.exp.fold \in Nat
      /\ d.trials \in [Trials -> TrialRow]
  BY Fields DEF Sound, Exp
<1>2. PICK n \in Nat : n = d.exp.fold + 1
  BY <1>1
<1>3. PICK E : E = [[[d.exp EXCEPT !.fold = n] EXCEPT !.phase = "PREPARING_TRAIN"] EXCEPT !.rev = 0]
  OBVIOUS
<1>4. /\ E \in Exp /\ E.status = "ACTIVE" /\ E.mode = d.exp.mode
      /\ E.phase = "PREPARING_TRAIN" /\ E.fold = n
  <2>1. PICK x : x = [d.exp EXCEPT !.fold = n]
    OBVIOUS
  <2>2. x \in Exp /\ x.status = "ACTIVE" /\ x.mode = d.exp.mode /\ x.fold = n
    BY <1>1, <2>1 DEF Exp
  <2>3. PICK y : y = [x EXCEPT !.phase = "PREPARING_TRAIN"]
    OBVIOUS
  <2>4. /\ y \in Exp /\ y.status = "ACTIVE" /\ y.mode = d.exp.mode /\ y.fold = n
        /\ y.phase = "PREPARING_TRAIN"
    BY <2>2, <2>3 DEF Exp, ExpPhases
  <2>5. E = [y EXCEPT !.rev = 0]
    BY <1>3, <2>1, <2>3
  <2> QED
    BY <2>4, <2>5 DEF Exp
<1>5. PICK e : e = ExpTables(d, d.jobs, E, d.trials)
  OBVIOUS
<1>6. /\ e \in Tables /\ e.jobs = d.jobs /\ e.exp = E /\ e.trials = d.trials
      /\ e.rev = d.rev /\ e.valid = d.valid /\ e.wizard = d.wizard
      /\ e.preps = d.preps /\ e.batch = d.batch /\ e.items = d.items
  BY <1>1, <1>4, <1>5, ExpTablesEffect
<1>7. [d EXCEPT !.exp.fold = d.exp.fold + 1, !.exp.phase = "PREPARING_TRAIN", !.exp.rev = 0] = e
  BY <1>1, <1>2, <1>3, <1>5, Fields DEF ExpTables
<1>8. Past(e) = Past(d) \cup Group(d)
  <2>1. \A t \in Trials : FoldOf(t) \in Nat
    BY FoldsAre
  <2>2. \A t \in Trials : FoldOf(t) < n <=> FoldOf(t) < d.exp.fold \/ FoldOf(t) = d.exp.fold
    BY <1>1, <1>2, <2>1
  <2> QED
    BY <1>4, <1>6, <2>2 DEF Past, Group, TrialsOf
<1>9. Group(e) \cap Past(e) = {}
  BY <1>6, PastIsPast
<1>10. Sound(e, Idle, q)
  BY <1>4, <1>6, <1>8, <1>9, AdvanceSound
<1>11. ExpMove(d, e)
  BY DEF ExpMove
<1> QED
  BY <1>7, <1>10, <1>11, DoneOutcome

LEMMA DecideOutcome ==
  ASSUME NEW w, NEW q, NEW d, Sound(d, w, q), d.exp.status = "ACTIVE", ~ Preparing(d),
         \A t \in Group(d) : d.trials[t].launched /\ d.jobs[Trial(t)].status = "COMPLETED",
         SameRevision(d), NEW o \in Decide(d)
  PROVE  Outcome(d, q, o)
<1>1. d \in Tables /\ d.exp \in Exp /\ d.rev \in Nat /\ d.jobs \in [Slots -> Job]
  BY Fields DEF Sound
<1>2. d.exp.phase \in {"TRAIN", "OOS"}
  BY <1>1 DEF Sound, GroupInv, Preparing, Exp, ExpPhases
<1>3. Comparable(d)
  <2>1. \A t \in Group(d) : d.jobs[Trial(t)].rev \in Nat
    BY <1>1, PastIsPast, SlotsAre DEF Job
  <2>2. \A t \in Group(d) : d.rev <= d.jobs[Trial(t)].rev /\ d.jobs[Trial(t)].rev <= d.rev
    BY DEF Sound, RevInv, SameRevision
  <2>3. \A t \in Group(d) : d.jobs[Trial(t)].rev = d.rev
    BY <1>1, <2>1, <2>2
  <2> QED
    BY <2>3 DEF Comparable
<1>4. CASE d.exp.phase = "TRAIN"
  <2>1. o \in Fail(d) \/ \E c \in Candidates(d.exp.mode) : o \in Done(Take(d, c))
    <3>1. CASE d.exp.mode = "HOLDOUT"
      BY <1>4, <3>1 DEF Decide
    <3>2. CASE d.exp.mode # "HOLDOUT"
      BY <1>4, <3>2 DEF Decide
    <3> QED
      BY <3>1, <3>2
  <2>2. Candidates(d.exp.mode) \subseteq Nat
    BY DEF Candidates
  <2> QED
    BY <1>3, <1>4, <2>1, <2>2, FailOutcome, TakeOutcome
<1>5. CASE d.exp.phase = "OOS" /\ d.exp.fold + 1 = Folds(d.exp.mode)
  <2>1. o \in Done([d EXCEPT !.exp.status = "COMPLETED"])
    BY <1>5 DEF Decide
  <2> QED
    BY <1>3, <1>5, <2>1, CompleteOutcome
<1>6. CASE d.exp.phase = "OOS" /\ d.exp.fold + 1 # Folds(d.exp.mode)
  <2>1. o \in Done([d EXCEPT !.exp.fold = d.exp.fold + 1, !.exp.phase = "PREPARING_TRAIN",
                             !.exp.rev = 0])
    BY <1>6 DEF Decide
  <2> QED
    BY <1>3, <1>6, <2>1, NextFoldOutcome
<1> QED
  BY <1>2, <1>4, <1>5, <1>6

LEMMA RunGroupOutcome ==
  ASSUME NEW w, NEW q, NEW d, Sound(d, w, q), d.exp.status = "ACTIVE", ~ Preparing(d),
         NEW o \in RunGroup(d)
  PROVE  Outcome(d, q, o)
<1>1. d \in Tables /\ d.exp \in Exp
  BY Fields DEF Sound
<1>2. ExpMove(d, d)
  BY DEF ExpMove
<1> DEFINE failed  == {t \in Group(d) : RunIsLost(d, t)}
           waiting == {t \in Group(d) : ~ d.trials[t].launched}
<1>3. CASE ~ SameRevision(d) \/ failed # {}
  <2>1. RunGroup(d) = Fail(d)
    BY <1>3 DEF RunGroup
  <2> QED
    BY <2>1, FailOutcome
<1>4. CASE SameRevision(d) /\ failed = {} /\ waiting # {}
  <2>1. RunGroup(d) = UNION {IF ~ Fresh(d, d.trials[t].prep) THEN Fail(d)
                      ELSE IF QueueIsFull(d) THEN Done(d)
                      ELSE {[db |-> d, tick |-> WaitAt(d, "build", t)]} : t \in waiting}
    BY <1>4 DEF RunGroup
  <2>2. PICK t \in waiting : o \in IF ~ Fresh(d, d.trials[t].prep) THEN Fail(d)
                      ELSE IF QueueIsFull(d) THEN Done(d)
                      ELSE {[db |-> d, tick |-> WaitAt(d, "build", t)]}
    BY <2>1
  <2>3. CASE o \in Fail(d)
    BY <2>3, FailOutcome
  <2>4. CASE o \in Done(d)
    BY <1>2, <2>4, DoneOutcome
  <2>5. CASE Fresh(d, d.trials[t].prep) /\ o = [db |-> d, tick |-> WaitAt(d, "build", t)]
    <3>1. o.db = d /\ o.tick = WaitAt(d, "build", t)
      BY <2>5
    <3>2. t \in Group(d) /\ t \in Trials
      BY <1>1, PastIsPast
    <3>3. d.exp.phase \in {"TRAIN", "OOS"}
      BY <1>1 DEF Sound, GroupInv, Preparing, Exp, ExpPhases
    <3>4. TickInv(d, WaitAt(d, "build", t))
      BY <2>5, <3>2, <3>3 DEF TickInv, WaitAt, Fresh
    <3> QED
      BY <1>1, <1>2, <3>1, <3>2, <3>4, WaitIsTyped DEF Outcome, Sound
  <2> QED
    BY <2>2, <2>3, <2>4, <2>5
<1>5. CASE SameRevision(d) /\ failed = {} /\ waiting = {}
  <2>1. RunGroup(d) = IF \A t \in Group(d) : d.jobs[Trial(t)].status = "COMPLETED"
                      THEN Decide(d) ELSE Done(d)
    BY <1>5 DEF RunGroup
  <2>2. CASE \A t \in Group(d) : d.jobs[Trial(t)].status = "COMPLETED"
    <3>1. o \in Decide(d)
      BY <2>1, <2>2
    <3>2. \A t \in Group(d) : d.trials[t].launched /\ d.jobs[Trial(t)].status = "COMPLETED"
      BY <1>5, <2>2
    <3> QED
      BY <1>5, <3>1, <3>2, DecideOutcome
  <2>3. CASE ~ \A t \in Group(d) : d.jobs[Trial(t)].status = "COMPLETED"
    BY <1>2, <2>1, <2>3, DoneOutcome
  <2> QED
    BY <2>2, <2>3
<1> QED
  BY <1>3, <1>4, <1>5

Launched(d, t, p) ==
    [Enqueue(d, Trial(t), p, FALSE) EXCEPT !.trials[t].launched = TRUE]

\* A trial is launched: its job is queued, and nothing that is referred to goes.
LEMMA LaunchSound ==
  ASSUME NEW w, NEW q, NEW d, Sound(d, w, q), d.exp.status = "ACTIVE", NEW t \in Group(d),
         d.exp.phase \in {"TRAIN", "OOS"}, SameRevision(d), NEW p \in PrepIds,
         d.preps[p].status = "COMPLETED"
  PROVE  Sound(Launched(d, t, p), Idle, q) /\ Launched(d, t, p).exp = d.exp
<1>1. /\ d \in Tables /\ d.jobs \in [Slots -> Job] /\ d.exp \in Exp /\ d.rev \in Nat
      /\ d.trials \in [Trials -> TrialRow] /\ d.wizard \in Refs
  BY Fields DEF Sound
<1>2. t \in Trials /\ t \notin Past(d) /\ Trial(t) \in Slots
  BY <1>1, PastIsPast, SlotsAre
<1>3. PICK z : z = Queue(d, Trial(t), p, d.wizard)
  OBVIOUS
<1>4. /\ z \in Tables /\ z.wizard = d.wizard /\ z.rev = d.rev /\ z.preps = d.preps
      /\ z.batch = d.batch /\ z.items = d.items /\ z.exp = d.exp /\ z.trials = d.trials
      /\ \A y \in Slots : z.jobs[y] = IF y = Trial(t)
            THEN [status |-> "QUEUED", prep |-> p, rev |-> d.rev] ELSE d.jobs[y]
  BY <1>1, <1>2, <1>3, QueueEffect
<1>5. Enqueue(d, Trial(t), p, FALSE) = Collect(z)
  <2>1. [d EXCEPT !.jobs[Trial(t)] = [status |-> "QUEUED", prep |-> p, rev |-> d.rev],
                  !.wizard = d.wizard] = z
    BY <1>1, <1>3, Fields DEF Queue
  <2> QED
    BY <2>1 DEF Enqueue
<1>6. PICK T : T = [d.trials EXCEPT ![t] = [d.trials[t] EXCEPT !.launched = TRUE]]
  OBVIOUS
<1>7. /\ T \in [Trials -> TrialRow] /\ T[t].launched
      /\ \A u \in Trials : T[u].prep = d.trials[u].prep
      /\ \A u \in Trials \ {t} : T[u] = d.trials[u]
  <2>1. PICK x \in TrialRow : x = d.trials[t]
    BY <1>1, <1>2
  <2>2. PICK y : y = [x EXCEPT !.launched = TRUE]
    OBVIOUS
  <2>3. y \in TrialRow /\ y.prep = x.prep /\ y.launched
    BY <2>2 DEF TrialRow
  <2>4. T = [d.trials EXCEPT ![t] = y]
    BY <1>6, <2>1, <2>2
  <2> QED
    BY <1>1, <1>2, <2>1, <2>3, <2>4
<1>8. PICK y : y = ExpTables(d, z.jobs, d.exp, T)
  OBVIOUS
<1>9. /\ y \in Tables /\ y.jobs = z.jobs /\ y.exp = d.exp /\ y.trials = T
      /\ y.rev = d.rev /\ y.wizard = d.wizard /\ y.preps = d.preps /\ y.batch = d.batch
      /\ y.items = d.items
  <2>1. z.jobs \in [Slots -> Job]
    BY <1>4, Fields
  <2> QED
    BY <1>1, <1>7, <1>8, <2>1, ExpTablesEffect
<1>10. Sound(y, Idle, q)
  <2>1. \A s \in Slots : y.jobs[s] # d.jobs[s] =>
           s = Trial(t) /\ y.jobs[s].prep = p
    BY <1>4, <1>9
  <2>2. \A u \in Trials \ {t} : y.jobs[Trial(u)] = d.jobs[Trial(u)] /\ y.trials[u] = d.trials[u]
    BY <1>4, <1>7, <1>9, SlotsAre, SlotsDiffer
  <2>3. y.jobs[Trial(t)] = [status |-> "QUEUED", prep |-> p, rev |-> d.rev]
        /\ y.trials[t].launched
    BY <1>2, <1>4, <1>7, <1>9
  <2>4. y.jobs[Source] = d.jobs[Source]
    BY <1>4, <1>9, SlotsAre, SlotsDiffer
  <2>5. Past(y) = Past(d) /\ Group(y) = Group(d) /\ Preparing(y) = Preparing(d)
        /\ Past(d) \subseteq Trials /\ Group(d) \subseteq Trials
    BY <1>9 DEF Past, Group, Preparing, TrialsOf
  <2>6. LaunchInv(y)
    BY <2>2, <2>3 DEF LaunchInv, Sound
  <2>7. GroupInv(y)
    <3>1. ~ Preparing(d)
      BY DEF Preparing
    <3>2. \A u \in Past(d) : y.trials[u].launched /\ y.jobs[Trial(u)].status = "COMPLETED"
      BY <1>2, <2>2, <2>5 DEF Sound, GroupInv
    <3>3. \A u \in Trials : y.trials[u].launched => u \in Past(d) \/ u \in Group(d)
      BY <2>2 DEF Sound, GroupInv
    <3> QED
      BY <1>9, <2>4, <2>5, <3>1, <3>2, <3>3 DEF Sound, GroupInv
  <2>8. EndInv(y)
    BY <1>9 DEF EndInv, Ended
  <2>9. RevInv(y)
    <3>1. d.exp.rev <= y.jobs[Trial(t)].rev /\ y.jobs[Trial(t)].rev <= d.rev
      BY <1>1, <2>3 DEF SameRevision
    <3> QED
      BY <1>9, <2>2, <2>5, <3>1 DEF Sound, RevInv
  <2>10. TickInv(y, Idle)
    BY DEF TickInv, Idle
  <2>11. \A s \in Slots : y.jobs[s] # d.jobs[s] => s \in TrialJobs /\
            (y.jobs[s].prep # 0 => d.preps[y.jobs[s].prep].status = "COMPLETED")
    BY <1>2, <2>1, SlotsAre
  <2>12. \A u \in Trials : y.trials[u].prep \in {0, d.trials[u].prep}
    BY <1>7, <1>9
  <2> QED
    BY <1>9, <2>6, <2>7, <2>8, <2>9, <2>10, <2>11, <2>12, ExpStep
<1>11. PICK k : k = Collect(z)
  OBVIOUS
<1>12. /\ k \in Tables /\ k.rev = d.rev /\ k.wizard = d.wizard /\ k.jobs = y.jobs
       /\ k.batch = d.batch /\ k.items = d.items /\ k.exp = d.exp /\ k.trials = d.trials
       /\ \A x \in PrepIds : IsReferenced(z, x) => k.preps[x] = d.preps[x]
  BY <1>4, <1>9, <1>11, CollectEffect
<1>13. PICK e : e = ExpTables(k, k.jobs, k.exp, T)
  OBVIOUS
<1>14. /\ e \in Tables /\ e.jobs = y.jobs /\ e.exp = d.exp /\ e.trials = T
       /\ e.rev = d.rev /\ e.wizard = d.wizard /\ e.preps = k.preps /\ e.batch = d.batch
       /\ e.items = d.items
  <2>1. k.jobs \in [Slots -> Job] /\ k.exp \in Exp
    BY <1>12, Fields
  <2> QED
    BY <1>7, <1>12, <1>13, <2>1, ExpTablesEffect
<1>15. Launched(d, t, p) = e
  <2>1. [k EXCEPT !.trials[t].launched = TRUE] = [k EXCEPT !.trials = T]
    BY <1>6, <1>12, Fields
  <2>2. [k EXCEPT !.trials = T] = e
    BY <1>12, <1>13, Fields DEF ExpTables
  <2> QED
    BY <1>5, <1>11, <2>1, <2>2 DEF Launched
<1>16. \A x \in PrepIds : IsReferenced(y, x) => IsReferenced(z, x)
  BY <1>4, <1>7, <1>9 DEF IsReferenced
<1>17. \A x \in PrepIds : IsReferenced(y, x) => e.preps[x] = y.preps[x]
  BY <1>9, <1>12, <1>14, <1>16
<1>18. Sound(e, Idle, q)
  BY <1>9, <1>10, <1>14, <1>17, PrepsStep
<1> QED
  BY <1>14, <1>15, <1>18

LEMMA ResumeBuildOutcome ==
  ASSUME NEW w \in Wait, w.at = "build", NEW q, NEW d, Sound(d, w, q),
         NEW o \in ResumeBuild(d, w)
  PROVE  Outcome(d, q, o)
<1>1. ExpMove(d, d)
  BY DEF ExpMove
<1>2. CASE o \in Done(d)
  BY <1>1, <1>2, DoneOutcome
<1>3. CASE SamePhase(d, w) /\ o \in Fail(d)
  BY <1>3, FailOutcome DEF SamePhase
<1>4. CASE /\ SamePhase(d, w) /\ SameRevision(d)
           /\ o \in Done(Launched(d, w.trial, w.prep))
  <2>1. d \in Tables /\ d.trials \in [Trials -> TrialRow] /\ w.trial \in Trials
    BY Fields DEF Sound, Wait, Idle
  <2>2. /\ d.exp.status = "ACTIVE" /\ d.exp.phase \in {"TRAIN", "OOS"}
        /\ w.trial \in Group(d) /\ w.prep # 0 /\ d.trials[w.trial].prep = w.prep
        /\ d.preps[w.prep].status = "COMPLETED"
    BY <1>4 DEF SamePhase, Sound, TickInv
  <2>3. w.prep \in PrepIds
    BY <2>1, <2>2 DEF TrialRow, Refs
  <2>4. PICK e : e = Launched(d, w.trial, w.prep)
    OBVIOUS
  <2>5. Sound(e, Idle, q) /\ e.exp = d.exp
    BY <1>4, <2>2, <2>3, <2>4, LaunchSound
  <2>6. ExpMove(d, e)
    BY <2>2, <2>5 DEF ExpMove
  <2> QED
    BY <1>4, <2>4, <2>5, <2>6, DoneOutcome
<1> QED
  BY <1>2, <1>3, <1>4 DEF ResumeBuild, Launched

\* The tick, up to its first await.
LEMMA TickOutcome ==
  ASSUME NEW w, NEW q, NEW d, Sound(d, w, q), NEW o \in Tick(d)
  PROVE  Outcome(d, q, o)
<1>1. CASE d.exp.status = "CANCELLING"
  <2>1. PICK e : e = FinishCancellation(d)
    OBVIOUS
  <2>2. /\ Sound(e, w, q) /\ e.trials = d.trials
        /\ e.exp.status \in {"CANCELLING", "FAILED", "CANCELLED"}
    BY <1>1, <2>1, FinishCancellationSound
  <2>3. ExpMove(d, e)
    BY <1>1, <2>2 DEF ExpMove
  <2>4. o \in Done(e)
    BY <1>1, <2>1 DEF Tick
  <2> QED
    BY <2>2, <2>3, <2>4, DoneOutcome
<1>2. CASE d.exp.status = "ACTIVE" /\ Preparing(d)
  BY <1>2, PrepareGroupOutcome DEF Tick
<1>3. CASE d.exp.status = "ACTIVE" /\ ~ Preparing(d)
  BY <1>3, RunGroupOutcome DEF Tick
<1>4. CASE d.exp.status \notin {"CANCELLING", "ACTIVE"}
  <2>1. ExpMove(d, d)
    BY <1>4 DEF ExpMove
  <2>2. o \in Done(d)
    BY <1>4 DEF Tick
  <2> QED
    BY <2>1, <2>2, DoneOutcome
<1> QED
  BY <1>1, <1>2, <1>3, <1>4


-----------------------------------------------------------------------------
(* The actions. Each keeps the invariant, and is lawful to the experiment. *)

Lawful(d, e) ==
    /\ d.exp.status \in {"CANCELLING"} \cup Ended /\ e.exp.status # "NONE"
       => e.trials = d.trials
    /\ /\ d.exp.status = "ACTIVE" /\ d.exp.phase \in {"TRAIN", "OOS"}
       /\ e.exp.status \in {"ACTIVE", "COMPLETED"} /\ e.exp # d.exp
       => Comparable(d)

Step == ExpInv' /\ Lawful(db, db')

LEMMA SameExpIsLawful ==
  ASSUME NEW d, NEW e, SameExp(d, e)
  PROVE  Lawful(d, e)
  BY DEF SameExp, Lawful

LEMMA ExpMoveIsLawful ==
  ASSUME NEW d, NEW e, ExpMove(d, e)
  PROVE  Lawful(d, e)
  BY DEF ExpMove, Lawful, Ended

LEMMA BatchMoveIsOfBatches ==
  ASSUME NEW d, NEW e, NEW f, SameExp(d, e), SameButBatch(e, f)
  PROVE  SameExp(d, f)
  BY DEF SameExp, SameButBatch

\* A server that died remembers nothing.
LEMMA SoundAfterDeath ==
  ASSUME NEW w, NEW q, NEW d, Sound(d, w, q)
  PROVE  Sound(d, Idle, NoPost)
  BY DEF Sound, TickInv, PostInv, Idle, NoPost

LEMMA ServeStep ==
  ASSUME ExpInv, NEW d, Serve(d), Sound(d, tick, post), Lawful(db, d)
  PROVE  Step
  BY DEF ExpInv, Serve, Step

LEMMA DiesStep ==
  ASSUME ExpInv, NEW d, Dies, db' = d, Sound(d, tick, post), Lawful(db, d)
  PROVE  Step
<1>1. Idle \in Wait /\ NoPost \in Submission
  BY DEF Wait, Submission
<1> QED
  BY <1>1, SoundAfterDeath DEF ExpInv, Dies, Step

LEMMA EventStep ==
  ASSUME ExpInv, NEW d, ThenEvent(d), Sound(d, tick, post), SameExp(db, d)
  PROVE  Step
<1>1. CASE Serve(OnJobStatusChanged(d))
  <2>1. PICK e : e = OnJobStatusChanged(d)
    OBVIOUS
  <2>2. Sound(e, tick, post) /\ Lawful(db, e)
    BY <2>1, OnJobStatusChangedSound, BatchMoveIsOfBatches, SameExpIsLawful
  <2> QED
    BY <1>1, <2>1, <2>2, ServeStep
<1>2. CASE Dies /\ \E n \in 0..Cardinality(Items) : db' = PumpUpTo(d, n)
  <2>1. PICK n \in 0..Cardinality(Items) : db' = PumpUpTo(d, n)
    BY <1>2
  <2>2. PICK e : e = PumpUpTo(d, n)
    OBVIOUS
  <2>3. Sound(e, tick, post) /\ Lawful(db, e)
    BY <2>2, PumpSound, BatchMoveIsOfBatches, SameExpIsLawful
  <2> QED
    BY <1>2, <2>1, <2>2, <2>3, DiesStep
<1> QED
  BY <1>1, <1>2 DEF ThenEvent

LEMMA TickStep ==
  ASSUME ExpInv, NEW d, ThenTick(d), Sound(d, tick, post), Lawful(db, d),
         \A e : ExpMove(d, e) => Lawful(db, e)
  PROVE  Step
<1>1. CASE tick = Idle
  <2>1. PICK o \in Tick(d) : db' = o.db /\ tick' = o.tick
    BY <1>1 DEF ThenTick
  <2>2. Outcome(d, post, o)
    BY TickOutcome
  <2> QED
    BY <2>1, <2>2 DEF ThenTick, Outcome, ExpInv, Step
<1>2. CASE tick # Idle
  BY <1>2 DEF ThenTick, ExpInv, Step
<1> QED
  BY <1>1, <1>2

LEMMA DataStep ==
  ASSUME ExpInv, ChangeData \/ SnapshotDrifts
  PROVE  Step
<1>1. Sound(db, tick, post) /\ db \in Tables
  BY DEF ExpInv, Sound
<1>2. CASE ChangeData
  <2>1. PICK e : e = [db EXCEPT !.rev = db.rev + 1]
    OBVIOUS
  <2>2. Sound(e, tick, post)
    BY <1>1, <2>1, RevStep
  <2>3. SameExp(db, e)
    BY <1>1, <2>1, Fields DEF SameExp
  <2>4. Serve(e)
    BY <1>2, <2>1 DEF ChangeData
  <2> QED
    BY <2>2, <2>3, <2>4, SameExpIsLawful, ServeStep
<1>3. CASE SnapshotDrifts
  <2>1. PICK e : e = [db EXCEPT !.valid = FALSE]
    OBVIOUS
  <2>2. /\ e \in Tables /\ e.jobs = db.jobs /\ e.preps = db.preps /\ e.trials = db.trials
        /\ e.exp = db.exp /\ e.rev = db.rev /\ e.wizard = db.wizard /\ e.batch = db.batch
        /\ e.items = db.items
    BY <1>1, <2>1 DEF Tables
  <2>3. \A s \in Slots : JobStep(db, e, s)
    BY <2>2 DEF JobStep
  <2>4. Sound(e, tick, post) /\ SameExp(db, e)
    BY <1>1, <2>2, <2>3, JobsStep DEF SameExp
  <2>5. Serve(e)
    BY <1>3, <2>1 DEF SnapshotDrifts
  <2> QED
    BY <2>4, <2>5, SameExpIsLawful, ServeStep
<1> QED
  BY <1>2, <1>3

LEMMA PreparationMoves ==
  ASSUME ExpInv, NEW p \in PrepIds, EndPreparation(p) \/ CancelPreparation(p)
  PROVE  Step
<1>1. Sound(db, tick, post) /\ db \in Tables /\ db.rev \in Nat /\ db.preps[p].rev \in Nat
  BY Fields DEF ExpInv, Sound, Prep
<1>2. ASSUME NEW status \in RowStatus \ {"NONE"}, NEW r \in Nat,
             db.preps[p].status \in {"ACTIVE", "CANCELLING"},
             Serve(PrepMoved(db, p, status, r))
      PROVE  Step
  <2>1. PICK e : e = PrepMoved(db, p, status, r)
    OBVIOUS
  <2>2. Sound(e, tick, post) /\ SameExp(db, e)
    BY <1>1, <1>2, <2>1, PreparationStep
  <2> QED
    BY <1>2, <2>1, <2>2, SameExpIsLawful, ServeStep
<1>3. ASSUME NEW status \in RowStatus \ {"NONE"},
             db.preps[p].status \in {"ACTIVE", "CANCELLING"},
             Serve([db EXCEPT !.preps[p].status = status])
      PROVE  Step
  <2>1. Serve(PrepMoved(db, p, status, db.preps[p].rev))
    BY <1>1, <1>3, PrepStatusIs
  <2> QED
    BY <1>1, <1>2, <1>3, <2>1
<1>4. CASE db.preps[p].status = "ACTIVE" /\ Serve(PrepEnded(db, p))
  <2>1. PrepEnded(db, p) = PrepMoved(db, p, "COMPLETED", db.rev)
    BY <1>1, PrepEndIs
  <2>2. Serve(PrepMoved(db, p, "COMPLETED", db.rev))
    BY <1>4, <2>1, Zenon
  <2> QED
    BY <1>1, <1>2, <1>4, <2>2 DEF RowStatus, Ended
<1>5. {"FAILED", "CANCELLED", "CANCELLING"} \subseteq RowStatus \ {"NONE"}
  BY DEF RowStatus, Ended
<1>6. \/ db.preps[p].status = "ACTIVE" /\ Serve(PrepEnded(db, p))
      \/ db.preps[p].status = "ACTIVE" /\ Serve([db EXCEPT !.preps[p].status = "FAILED"])
      \/ db.preps[p].status = "CANCELLING" /\ Serve([db EXCEPT !.preps[p].status = "CANCELLED"])
      \/ db.preps[p].status = "ACTIVE" /\ Serve([db EXCEPT !.preps[p].status = "CANCELLING"])
  BY DEF EndPreparation, CancelPreparation, PrepEnded
<1>7. CASE db.preps[p].status = "ACTIVE" /\ Serve([db EXCEPT !.preps[p].status = "FAILED"])
  BY <1>3, <1>5, <1>7
<1>8. CASE /\ db.preps[p].status = "CANCELLING"
           /\ Serve([db EXCEPT !.preps[p].status = "CANCELLED"])
  BY <1>3, <1>5, <1>8
<1>9. CASE db.preps[p].status = "ACTIVE" /\ Serve([db EXCEPT !.preps[p].status = "CANCELLING"])
  BY <1>3, <1>5, <1>9
<1> QED
  BY <1>4, <1>6, <1>7, <1>8, <1>9

\* The moves of a job that its event follows.
LEMMA JobMoves ==
  ASSUME ExpInv, NEW s \in Slots, ClaimJob(s) \/ HandBackJob(s) \/ EndJob(s) \/ CancelJob(s)
  PROVE  Step
<1>1. /\ Sound(db, tick, post) /\ db \in Tables /\ db.jobs[s].rev \in Nat
      /\ db.rev \in Nat
  BY Fields DEF ExpInv, Sound, Job
<1>2. ASSUME NEW status \in Live \cup Ended, NEW r \in Nat, db.jobs[s].status \in Live,
             r = db.jobs[s].rev \/ (db.jobs[s].rev <= r /\ r <= db.rev),
             ThenEvent(Moved(db, s, status, r))
      PROVE  Step
  <2>1. PICK e : e = Moved(db, s, status, r)
    OBVIOUS
  <2>2. Sound(e, tick, post)
    BY <1>1, <1>2, <2>1, MovedSound
  <2>3. e.exp = db.exp /\ e.trials = db.trials
    BY <1>1, <2>1 DEF Moved, Tables
  <2>4. SameExp(db, e)
    BY <2>3 DEF SameExp
  <2> QED
    BY <1>2, <2>1, <2>2, <2>4, EventStep
<1>3. ASSUME NEW status \in Live \cup Ended, db.jobs[s].status \in Live,
             ThenEvent(SetStatus(db, s, status))
      PROVE  Step
  <2>1. ThenEvent(Moved(db, s, status, db.jobs[s].rev))
    BY <1>1, <1>3, SetStatusMoves
  <2> QED
    BY <1>1, <1>2, <1>3, <2>1
<1>4. CASE ClaimJob(s)
  <2>1. PICK r \in db.jobs[s].rev..db.rev : ThenEvent(Claimed(db, s, r))
    BY <1>4 DEF ClaimJob, Claimed
  <2>2. r \in Nat /\ db.jobs[s].rev <= r /\ r <= db.rev
    BY <1>1, <2>1
  <2>3. Claimed(db, s, r) = Moved(db, s, "RUNNING", r)
    BY <1>1, ClaimMoves
  <2>4. ThenEvent(Moved(db, s, "RUNNING", r))
    BY <2>1, <2>3, Zenon
  <2> QED
    BY <1>2, <1>4, <2>2, <2>4 DEF ClaimJob, Live
<1>5. CASE HandBackJob(s)
  BY <1>3, <1>5 DEF HandBackJob, Live
<1>6. CASE EndJob(s)
  BY <1>3, <1>6 DEF EndJob, Live, Ended
<1>7. CASE CancelJob(s)
  <2>1. PICK e : e = CancelJobs(db, {s})
    OBVIOUS
  <2>2. Sound(e, tick, post)
    BY <1>1, <2>1, CancelJobsSound
  <2>3. SameExp(db, e)
    BY <1>1, <2>1, CancelJobsEffect DEF SameExp
  <2>4. ThenEvent(e)
    BY <1>7, <2>1 DEF CancelJob
  <2> QED
    BY <2>2, <2>3, <2>4, EventStep
<1> QED
  BY <1>4, <1>5, <1>6, <1>7

\* What users do without the queue: previews, drafts, deletions.
LEMMA UserMoves ==
  ASSUME ExpInv,
         \/ \E s \in Slots : RemoveJob(s)
         \/ \E input \in PreviewInputs : Preview(input)
         \/ SaveDraft \/ RemoveDraft \/ RemoveSeeds \/ RemoveExperiment
  PROVE  Step
<1>1. /\ Sound(db, tick, post) /\ db \in Tables /\ db.jobs \in [Slots -> Job]
  BY Fields DEF ExpInv, Sound
<1>2. ASSUME NEW e, Serve(e), Sound(e, tick, post), SameExp(db, e)
      PROVE  Step
  BY <1>2, SameExpIsLawful, ServeStep
<1>3. ASSUME NEW s \in Slots, RemoveJob(s)
      PROVE  Step
  <2>1. JobDeletable(db, s) /\ Serve(DeleteJob(db, s))
    BY <1>3 DEF RemoveJob
  <2>2. Sound(DeleteJob(db, s), tick, post) /\ SameExp(db, DeleteJob(db, s))
    BY <1>1, <2>1, DeleteJobSound
  <2> QED
    BY <1>2, <2>1, <2>2
<1>4. ASSUME NEW input \in PreviewInputs, Preview(input)
      PROVE  Step
  <2>1. PICK p \in RowFor(db, input) : Serve(BindWizard(Start(db, p), p))
    BY <1>4 DEF Preview
  <2>2. p \in PrepIds
    BY DEF RowFor
  <2>3. PICK x : x = Start(db, p)
    OBVIOUS
  <2>4. Sound(x, tick, post) /\ SameExp(db, x) /\ x.preps[p].status # "NONE"
    BY <1>1, <2>2, <2>3, StartSound
  <2>5. PICK e : e = BindWizard(x, p)
    OBVIOUS
  <2>6. Sound(e, tick, post) /\ SameExp(x, e)
    BY <2>2, <2>4, <2>5, BindSound
  <2>7. SameExp(db, e)
    BY <2>4, <2>6 DEF SameExp
  <2> QED
    BY <1>2, <2>1, <2>3, <2>5, <2>6, <2>7
<1>5. CASE SaveDraft
  <2>1. PICK p : p = db.jobs[Source].prep
    OBVIOUS
  <2>2. p # 0 /\ Serve(BindWizard(db, p))
    BY <1>5, <2>1 DEF SaveDraft
  <2>3. p \in PrepIds
    BY <1>1, <2>1, <2>2, SlotsAre DEF Job, Refs
  <2>4. db.preps[p].status # "NONE"
    BY <1>1, <2>1, <2>2, SlotsAre DEF Sound, RefsInv
  <2>5. Sound(BindWizard(db, p), tick, post) /\ SameExp(db, BindWizard(db, p))
    BY <1>1, <2>3, <2>4, BindSound
  <2> QED
    BY <1>2, <2>2, <2>5
<1>6. CASE RemoveDraft
  BY <1>1, <1>2, <1>6, ReleaseSound DEF RemoveDraft
<1>7. CASE RemoveSeeds
  BY <1>1, <1>2, <1>7, DeleteBatchSound DEF RemoveSeeds
<1>8. CASE RemoveExperiment
  <2>1. Sound(DeleteExperiment(db), tick, post) /\ DeleteExperiment(db).exp.status = "NONE"
    BY <1>1, DeleteExperimentSound
  <2>2. db.exp.status # "ACTIVE"
    BY <1>8 DEF RemoveExperiment, ExperimentDeletable, Ended
  <2>3. Lawful(db, DeleteExperiment(db))
    BY <2>1, <2>2 DEF Lawful
  <2> QED
    BY <1>8, <2>1, <2>3, ServeStep DEF RemoveExperiment
<1> QED
  BY <1>3, <1>4, <1>5, <1>6, <1>7, <1>8

LEMMA PostStep ==
  ASSUME ExpInv, CommitPost \/ \E kind \in Posts : BeginPost(kind)
  PROVE  Step
<1>1. /\ Sound(db, tick, post) /\ db \in Tables /\ db.jobs \in [Slots -> Job] /\ db.rev \in Nat
      /\ db.preps \in [PrepIds -> Prep] /\ db.wizard \in Refs /\ post \in Submission
  BY Fields DEF ExpInv, Sound
<1>2. Lawful(db, db)
  BY SameExpIsLawful DEF SameExp
<1>3. Sound(db, tick, NoPost) /\ NoPost \in Submission /\ NoPost.kind = "NONE"
  BY <1>1 DEF Sound, PostInv, NoPost, Submission
<1>4. ASSUME NEW kind \in Posts, BeginPost(kind)
      PROVE  Step
  <2>1. PICK p : p = IF kind = "wizard" THEN db.wizard ELSE db.jobs[Source].prep
    OBVIOUS
  <2>2. /\ Fresh(db, p) /\ db' = db /\ tick' = tick /\ up' = up
        /\ post' = [kind |-> kind, prep |-> p, rev |-> db.rev]
        /\ IF kind = "seeds" THEN db.batch.status = "NONE"
           ELSE ~ QueueIsFull(db) /\ \E u \in UserSlots : db.jobs[User(u)] = NoJob
    BY <1>4, <2>1 DEF BeginPost
  <2>3. p \in PrepIds
    BY <1>1, <2>1, <2>2, SlotsAre DEF Job, Refs, Fresh
  <2>4. kind \in Kinds
    BY ExperimentsAssumption DEF Kinds
  <2>5. post' \in Submission
    BY <1>1, <2>2, <2>3, <2>4 DEF Submission
  <2>6. PostInv(db, post')
    BY <2>2 DEF PostInv
  <2>7. Sound(db, tick, post')
    BY <1>1, <2>6 DEF Sound
  <2> QED
    BY <1>2, <2>2, <2>5, <2>7 DEF ExpInv, Step
<1>5. ASSUME CommitPost, NEW e, db' = e, Sound(e, tick, NoPost), SameExp(db, e)
      PROVE  Step
  <2>1. Lawful(db, db')
    BY <1>5, SameExpIsLawful
  <2> QED
    BY <1>3, <1>5, <2>1 DEF CommitPost, ExpInv, Step
<1>6. CASE CommitPost
  <2>1. /\ post.kind \in Kinds /\ post.prep \in PrepIds
    BY <1>1, <1>6 DEF CommitPost, Submission
  <2>2. CASE ~ StillValid(db, post)
    BY <1>3, <1>5, <1>6, <2>2 DEF CommitPost, SameExp
  <2>3. CASE StillValid(db, post) /\ post.kind = "seeds"
    <3>1. db.batch.status = "NONE" /\ db.preps[post.prep].status = "COMPLETED"
      BY <1>1, <2>3 DEF Sound, PostInv, StillValid
    <3>2. PICK e : e = CreateBatch(db, post.prep)
      OBVIOUS
    <3>3. Sound(e, tick, NoPost) /\ SameButBatch(db, e)
      BY <1>3, <2>1, <3>1, <3>2, CreateBatchSound
    <3>4. SameExp(db, e)
      BY <3>3 DEF SameExp, SameButBatch
    <3>5. db' = e
      BY <1>6, <2>3, <3>2 DEF CommitPost
    <3> QED
      BY <1>5, <1>6, <3>3, <3>4, <3>5
  <2>4. CASE StillValid(db, post) /\ post.kind # "seeds"
    <3>1. db.preps[post.prep].status = "COMPLETED"
      BY <2>4 DEF StillValid
    <3>2. \E u \in UserSlots : db.jobs[User(u)] = NoJob
      BY <1>1, <2>1, <2>4 DEF Sound, PostInv, Kinds
    <3>3. PICK u : u = CHOOSE v \in UserSlots : db.jobs[User(v)] = NoJob
      OBVIOUS
    <3>4. u \in UserSlots
      BY <3>2, <3>3
    <3>5. PICK ofWizard : db' = Enqueue(db, User(u), post.prep, ofWizard)
      BY <1>6, <2>4, <3>3 DEF CommitPost
    <3>6. PICK e : e = Enqueue(db, User(u), post.prep, ofWizard)
      OBVIOUS
    <3>7. Sound(e, tick, NoPost) /\ SameExp(db, e)
      BY <1>3, <2>1, <3>1, <3>4, <3>6, EnqueueSound
    <3> QED
      BY <1>5, <1>6, <3>5, <3>6, <3>7
  <2> QED
    BY <2>2, <2>3, <2>4
<1> QED
  BY <1>4, <1>6

LEMMA SeedsStep ==
  ASSUME ExpInv, StopSeeds
  PROVE  Step
<1>1. Sound(db, tick, post)
  BY DEF ExpInv
<1>2. CASE Serve(CancelBatch(db))
  <2>1. PICK e : e = CancelBatch(db)
    OBVIOUS
  <2>2. Sound(e, tick, post) /\ SameButBatch(db, e)
    BY <1>1, <2>1, CancelBatchSound
  <2>3. SameExp(db, e)
    BY <2>2 DEF SameExp, SameButBatch
  <2> QED
    BY <1>2, <2>1, <2>2, <2>3, SameExpIsLawful, ServeStep
<1>3. CASE Dies /\ db' = StopBatch(db)
  <2>1. PICK e : e = StopBatch(db)
    OBVIOUS
  <2>2. Sound(e, tick, post) /\ SameButBatch(db, e)
    BY <1>1, <2>1, StopBatchSound
  <2>3. SameExp(db, e)
    BY <2>2 DEF SameExp, SameButBatch
  <2> QED
    BY <1>3, <2>1, <2>2, <2>3, SameExpIsLawful, DiesStep
<1> QED
  BY <1>2, <1>3 DEF StopSeeds

LEMMA ExperimentStep ==
  ASSUME ExpInv, CancelExperiment \/ TimerTick \/ \E mode \in Modes : BeginExperiment(mode)
  PROVE  Step
<1>1. Sound(db, tick, post) /\ db \in Tables /\ db.exp \in Exp
  BY Fields DEF ExpInv, Sound
<1>2. ASSUME NEW mode \in Modes, BeginExperiment(mode)
      PROVE  Step
  <2>1. PICK e : e = CreateExperiment(db, mode)
    OBVIOUS
  <2>2. /\ db.exp.status = "NONE" /\ db.jobs[Source].status = "COMPLETED"
        /\ ThenTick(e)
    BY <1>2, <2>1 DEF BeginExperiment
  <2>3. mode \in ExpModes
    BY ExperimentsAssumption DEF ExpModes
  <2>4. Sound(e, tick, post)
    BY <1>1, <2>1, <2>2, <2>3, CreateExperimentSound
  <2>5. \A f : Lawful(db, f)
    BY <2>2 DEF Lawful, Ended
  <2> QED
    BY <2>2, <2>4, <2>5, TickStep
<1>3. CASE CancelExperiment
  <2>1. PICK e : e = ExpStatus(db, "CANCELLING", db.exp.error)
    OBVIOUS
  <2>2. PICK x \in Exp : x = db.exp
    BY <1>1
  <2>3. [x EXCEPT !.status = "CANCELLING"] = [x EXCEPT !.status = "CANCELLING", !.error = x.error]
    BY DEF Exp
  <2>4. [db EXCEPT !.exp.status = "CANCELLING"] = e
    BY <1>1, <2>1, <2>2, <2>3, Fields DEF ExpStatus
  <2>5. db.exp.status = "ACTIVE" /\ ThenTick(e)
    BY <1>3, <2>4, Zenon DEF CancelExperiment
  <2>6. "CANCELLING" \in RowStatus \ {"NONE"} /\ db.exp.error \in BOOLEAN
    BY <1>1 DEF RowStatus, Exp
  <2>7. Sound(e, tick, post)
    BY <1>1, <2>1, <2>5, <2>6, ExpStatusSound DEF Ended
  <2>8. e.exp.status = "CANCELLING"
    BY <1>1, <2>1, <2>6, ExpStatusEffect
  <2>9. Lawful(db, e) /\ \A f : ExpMove(e, f) => Lawful(db, f)
    BY <2>5, <2>8 DEF Lawful, ExpMove, Ended
  <2> QED
    BY <2>5, <2>7, <2>9, TickStep
<1>4. CASE TimerTick
  <2>1. ThenTick(db)
    BY <1>4 DEF TimerTick
  <2> QED
    BY <1>1, <2>1, SameExpIsLawful, ExpMoveIsLawful, TickStep DEF SameExp
<1> QED
  BY <1>2, <1>3, <1>4

LEMMA ServerStep ==
  ASSUME ExpInv, ResumeTick \/ Crash \/ Boot
  PROVE  Step
<1>1. Sound(db, tick, post) /\ db \in Tables
  BY DEF ExpInv, Sound
<1>2. CASE ResumeTick
  <2>1. PICK o : /\ o \in IF tick.at = "ready" THEN ResumeReady(db, tick)
                          ELSE ResumeBuild(db, tick)
                 /\ db' = o.db /\ tick' = o.tick
    BY <1>2 DEF ResumeTick
  <2>2. tick \in Wait /\ tick.at \in {"ready", "build"}
    BY <1>2 DEF ResumeTick, ExpInv, Wait
  <2>3. Outcome(db, post, o)
    <3>1. CASE tick.at = "ready"
      BY <1>1, <2>1, <2>2, <3>1, ResumeReadyOutcome
    <3>2. CASE tick.at = "build"
      BY <1>1, <2>1, <2>2, <3>2, ResumeBuildOutcome
    <3> QED
      BY <2>2, <3>1, <3>2
  <2> QED
    BY <1>2, <2>1, <2>3, ExpMoveIsLawful DEF ResumeTick, Outcome, ExpInv, Step
<1>3. CASE Crash
  BY <1>1, <1>3, SameExpIsLawful, DiesStep DEF Crash, SameExp
<1>4. CASE Boot
  <2>1. PICK c : c = Collect(db)
    OBVIOUS
  <2>2. Sound(c, tick, post) /\ SameExp(db, c)
    BY <1>1, <2>1, CollectSound, CollectEffect DEF SameExp
  <2>3. PICK e : e = OnJobStatusChanged(c)
    OBVIOUS
  <2>4. Sound(e, tick, post) /\ Lawful(db, e)
    BY <2>2, <2>3, OnJobStatusChangedSound, BatchMoveIsOfBatches, SameExpIsLawful
  <2>5. db' = e
    BY <1>4, <2>1, <2>3 DEF Boot
  <2> QED
    BY <1>4, <2>4, <2>5 DEF Boot, ExpInv, Step
<1> QED
  BY <1>2, <1>3, <1>4

LEMMA NextIsStep ==
  ASSUME ExpInv, Next
  PROVE  Step
  BY DataStep, PreparationMoves, JobMoves, UserMoves, PostStep, SeedsStep, ExperimentStep,
     ServerStep
  DEF Next

LEMMA InitIsSound == Init => ExpInv
<1> SUFFICES ASSUME Init PROVE ExpInv
  OBVIOUS
<1>1. /\ db.rev = 1 /\ db.valid = TRUE /\ db.wizard = 0
      /\ db.jobs = [s \in Slots |-> IF s = Source
                         THEN [status |-> "COMPLETED", prep |-> 1, rev |-> 1] ELSE NoJob]
      /\ db.preps = [p \in PrepIds |-> IF p = 1
                         THEN [status |-> "COMPLETED", rev |-> 1, managed |-> TRUE]
                         ELSE NoPrep]
      /\ db.batch = NoBatch /\ db.items = [i \in Items |-> "NONE"]
      /\ db.exp = NoExp /\ db.trials = [t \in Trials |-> NoTrial]
  BY DEF Init
<1>2. /\ \A s \in Slots \ {Source} : db.jobs[s] = NoJob
      /\ db.jobs[Source] = [status |-> "COMPLETED", prep |-> 1, rev |-> 1]
      /\ db.preps[1] = [status |-> "COMPLETED", rev |-> 1, managed |-> TRUE]
      /\ \A i \in Items : db.items[i] = "NONE" /\ db.jobs[Item(i)] = NoJob
      /\ \A t \in Trials : db.trials[t] = NoTrial /\ db.jobs[Trial(t)] = NoJob
  BY <1>1, SlotsAre, SlotsDiffer, PrepIdsAre
<1>3. db \in Tables
  <2>1. db.jobs \in [Slots -> Job]
    BY <1>1, PrepIdsAre DEF Job, NoJob, Ended, Live, Refs
  <2>2. db.preps \in [PrepIds -> Prep]
    BY <1>1 DEF Prep, NoPrep, RowStatus, Ended
  <2>3. db.exp \in Exp
    BY <1>1 DEF Exp, NoExp, RowStatus, ExpModes, ExpPhases
  <2>4. db.trials \in [Trials -> TrialRow]
    BY <1>1 DEF NoTrial, TrialRow, Refs
  <2>5. db.batch \in Batch /\ db.wizard \in Refs
    BY <1>1 DEF NoBatch, Batch, RowStatus, Refs
  <2>6. db = [rev |-> db.rev, valid |-> db.valid, wizard |-> db.wizard, jobs |-> db.jobs,
              preps |-> db.preps, batch |-> db.batch, items |-> db.items,
              exp |-> db.exp, trials |-> db.trials]
    BY DEF Init
  <2>7. /\ db.items \in [Items -> {"NONE", "PENDING", "DISPATCHED", "CANCELLED"}]
        /\ db.rev \in Nat
    BY <1>1
  <2>8. db.valid \in BOOLEAN
    BY <1>1, Zenon
  <2> HIDE <1>1, <1>2
  <2> QED
    BY <2>1, <2>2, <2>3, <2>4, <2>5, <2>6, <2>7, <2>8 DEF Tables
<1>4. RefsInv(db)
  BY <1>1, <1>2 DEF RefsInv, NoJob, NoBatch, NoTrial
<1>5. BatchInv(db)
  BY <1>1, <1>2 DEF BatchInv, NoBatch
<1>6. LaunchInv(db) /\ GroupInv(db) /\ EndInv(db)
  BY <1>1, <1>2 DEF LaunchInv, GroupInv, EndInv, NoTrial, NoExp, Ended
<1>7. RevInv(db)
  BY <1>2 DEF RevInv, Group, TrialsOf, NoTrial
<1>8. TickInv(db, tick) /\ PostInv(db, post)
  BY DEF TickInv, PostInv, Init, Idle, NoPost
<1>9. tick \in Wait /\ post \in Submission /\ up \in BOOLEAN
  BY DEF Init, Wait, Submission
<1> QED
  BY <1>3, <1>4, <1>5, <1>6, <1>7, <1>8, <1>9 DEF ExpInv, Sound

\* Nothing changes in a step that stutters.
LEMMA StutterIsStep ==
  ASSUME ExpInv, UNCHANGED vars
  PROVE  Step
  BY SameExpIsLawful DEF vars, ExpInv, Step, SameExp

-----------------------------------------------------------------------------

\* The tables are sound, wherever the tick and a submission are waiting.
THEOREM TablesAreSound == Spec => []ExpInv
<1>1. ExpInv /\ [Next]_vars => ExpInv'
  BY NextIsStep, StutterIsStep DEF Step
<1> QED
  BY <1>1, InitIsSound, PTL DEF Spec

\* What a row refers to is kept by every collection (PreparationReferenceService.collect).
THEOREM ReferencesHold == Spec => []ReferencedPreparationsStay
<1>1. ExpInv => ReferencedPreparationsStay
  BY DEF ExpInv, Sound, RefsInv, ReferencedPreparationsStay
<1> QED
  BY <1>1, TablesAreSound, PTL

\* A batch that has ended leaves no job under way and no item that could become one.
THEOREM BatchesEndQuietly == Spec => []BatchEndsQuietly
<1>1. ExpInv => BatchEndsQuietly
  BY DEF ExpInv, Sound, BatchInv, BatchEndsQuietly
<1> QED
  BY <1>1, TablesAreSound, PTL

\* The same for an experiment, however it ended.
THEOREM ExperimentsEndQuietly == Spec => []ExperimentEndsQuietly
<1>1. ExpInv => ExperimentEndsQuietly
  BY DEF ExpInv, Sound, EndInv, ExperimentEndsQuietly
<1> QED
  BY <1>1, TablesAreSound, PTL

\* The source of an experiment and the runs it was decided on stay with it.
THEOREM RunsStayWithTheirExperiment == Spec => []ExperimentsKeepTheirRuns
<1>1. ExpInv => ExperimentsKeepTheirRuns
  BY DEF ExpInv, Sound, GroupInv, LaunchInv, EndInv, ExperimentsKeepTheirRuns
<1> QED
  BY <1>1, TablesAreSound, PTL

\* Runs are compared, and a fold is decided, on one revision of the data.
THEOREM DecisionsCompareLikeWithLike == Spec => ComparedOnSameData
<1>1. ExpInv /\ [Next]_vars =>
        [ /\ db.exp.status = "ACTIVE" /\ db.exp.phase \in {"TRAIN", "OOS"}
          /\ db'.exp.status \in {"ACTIVE", "COMPLETED"}
          /\ db'.exp # db.exp
          => \A t, u \in Group(db) : /\ db.jobs[Trial(t)].status = "COMPLETED"
                                     /\ db.jobs[Trial(t)].rev = db.jobs[Trial(u)].rev ]_vars
  BY NextIsStep DEF Step, Lawful, Comparable
<1> QED
  BY <1>1, TablesAreSound, PTL DEF Spec, ComparedOnSameData

\* Once a cancellation was accepted no run is submitted and no preview asked for.
THEOREM CancellationsAreFinal == Spec => CancelledExperimentsLaunchNothing
<1>1. ExpInv /\ [Next]_vars =>
        [ db.exp.status \in {"CANCELLING"} \cup Ended /\ db'.exp.status # "NONE" =>
            \A t \in Trials : /\ db'.trials[t].launched = db.trials[t].launched
                              /\ db'.trials[t].prep = db.trials[t].prep ]_vars
  BY NextIsStep DEF Step, Lawful
<1> QED
  BY <1>1, TablesAreSound, PTL DEF Spec, CancelledExperimentsLaunchNothing

-----------------------------------------------------------------------------
(* The limit of the queue.                                                 *)

PlaceIn(W, i) == Cardinality({k \in W : k <= i})

LEMMA LeastNumber ==
  ASSUME NEW T, T \subseteq Nat, T # {}
  PROVE  \E x \in T : \A y \in T : x <= y
<1>1. \E R : IsWellFoundedOn(R, Nat) /\ \A x, y \in Nat : x < y => <<x, y>> \in R
  <2>1. \A x, y \in Nat : x < y => <<x, y>> \in OpToRel(<, Nat)
    BY DEF OpToRel
  <2> QED
    BY <2>1, NatLessThanWellFounded
<1>2. PICK R : IsWellFoundedOn(R, Nat) /\ \A x, y \in Nat : x < y => <<x, y>> \in R
  BY <1>1
<1>3. PICK least \in T : \A y \in T : ~ (<<y, least>> \in R)
  <2>1. IsWellFoundedOn(R, Nat)
    BY <1>2
  <2> HIDE <1>2
  <2>2. \E x \in T : \A y \in T : ~ (<<y, x>> \in R)
    BY <2>1, WFMin
  <2> QED
    BY <2>2
<1>4. ASSUME NEW y \in T
      PROVE  least <= y
  <2>1. least \in Nat /\ y \in Nat
    OBVIOUS
  <2>2. ~ (y < least)
    BY <1>2, <1>3, <2>1, Zenon
  <2> QED
    BY <2>1, <2>2
<1> QED
  BY <1>4

\* Of a finite set of numbers, no more than `room` are among the first `room`.
LEMMA FewAreFirst ==
  ASSUME NEW W \in SUBSET Nat, IsFiniteSet(W), NEW room \in Int, NEW N \in SUBSET W, N # {},
         \A i \in N : PlaceIn(W, i) <= room
  PROVE  IsFiniteSet(N) /\ Cardinality(N) <= room
<1>1. ASSUME NEW i \in W
      PROVE  IsFiniteSet({k \in W : k <= i}) /\ PlaceIn(W, i) \in Nat
  <2>1. {k \in W : k <= i} \in SUBSET W
    OBVIOUS
  <2>2. IsFiniteSet({k \in W : k <= i})
    BY <2>1, FS_Subset
  <2> QED
    BY <2>2, FS_CardinalityType DEF PlaceIn
<1> DEFINE T == {room - PlaceIn(W, i) : i \in N}
<1>2. ASSUME NEW i \in N
      PROVE  PlaceIn(W, i) \in Nat /\ room - PlaceIn(W, i) \in Nat
  <2>1. PICK n : n = PlaceIn(W, i)
    OBVIOUS
  <2>2. n \in Nat /\ n <= room
    BY <1>1, <2>1
  <2>3. room - n \in Nat
    BY <2>2
  <2> QED
    BY <2>1, <2>2, <2>3
<1>3. T \subseteq Nat /\ T # {}
  BY <1>2
<1>4. PICK x \in T : \A y \in T : x <= y
  BY <1>3, LeastNumber
<1>10. PICK m \in N : x = room - PlaceIn(W, m)
  OBVIOUS
<1>5. \A i \in N : PlaceIn(W, i) <= PlaceIn(W, m)
  <2>1. \A i \in N : room - PlaceIn(W, m) <= room - PlaceIn(W, i)
    BY <1>4, <1>10
  <2> QED
    BY <1>2, <2>1
<1>6. ASSUME NEW i \in N, ~ (i <= m)
      PROVE  FALSE
  <2>1. i \in Nat /\ m \in Nat
    OBVIOUS
  <2> DEFINE A == {k \in W : k <= m}
             B == {k \in W : k <= i}
  <2>2. A \in SUBSET B /\ i \in B /\ i \notin A
    <3>1. m < i
      BY <1>6, <2>1
    <3>2. \A k \in W : k <= m => k <= i
      BY <2>1, <3>1
    <3>3. A \in SUBSET B
      BY <3>2
    <3>4. i \in B
      BY <2>1
    <3>5. i \notin A
      BY <1>6
    <3> QED
      BY <3>3, <3>4, <3>5
  <2>3. IsFiniteSet(B) /\ Cardinality(B) \in Nat /\ Cardinality(A) \in Nat
    BY <1>1 DEF PlaceIn
  <2>4. Cardinality(B) <= Cardinality(A)
    BY <1>5 DEF PlaceIn
  <2> HIDE DEF A, B
  <2>5. Cardinality(A) <= Cardinality(B) /\ (Cardinality(A) = Cardinality(B) => A = B)
    BY <2>2, <2>3, FS_Subset
  <2> QED
    BY <2>2, <2>3, <2>4, <2>5
<1>7. N \in SUBSET {k \in W : k <= m}
  BY <1>6
<1>8. IsFiniteSet(N) /\ Cardinality(N) <= PlaceIn(W, m)
  BY <1>1, <1>7, FS_Subset DEF PlaceIn
<1>9. Cardinality(N) \in Nat /\ PlaceIn(W, m) \in Nat /\ PlaceIn(W, m) <= room
  BY <1>1, <1>8, FS_CardinalityType
<1> QED
  BY <1>8, <1>9

QueuedJobs(d) == {s \in Slots : d.jobs[s].status = "QUEUED"}

LEMMA SlotsAreFinite == IsFiniteSet(Slots)
<1>1. ASSUME NEW S, IsFiniteSet(S), NEW f, f = [x \in S |-> f[x]]
      PROVE  IsFiniteSet({f[x] : x \in S})
  <2> DEFINE T == {f[x] : x \in S}
  <2>1. f \in Surjection(S, T)
    BY <1>1 DEF Surjection
  <2> QED
    BY <1>1, <2>1, FS_Surjection
<1>2. IsFiniteSet(UserJobs)
  <2>1. PICK f : f = [u \in UserSlots |-> User(u)]
    OBVIOUS
  <2>2. UserJobs = {f[u] : u \in UserSlots}
    BY <2>1 DEF UserJobs
  <2> QED
    BY <1>1, <2>1, <2>2, SubmissionsAssumption
<1>3. IsFiniteSet(ItemJobs)
  <2>1. PICK f : f = [u \in Items |-> Item(u)]
    OBVIOUS
  <2>2. ItemJobs = {f[u] : u \in Items}
    BY <2>1 DEF ItemJobs
  <2> QED
    BY <1>1, <2>1, <2>2, SubmissionsAssumption
<1>4. IsFiniteSet(TrialJobs)
  <2>1. PICK f : f = [u \in Trials |-> Trial(u)]
    OBVIOUS
  <2>2. TrialJobs = {f[u] : u \in Trials}
    BY <2>1 DEF TrialJobs
  <2> QED
    BY <1>1, <2>1, <2>2, SubmissionsAssumption
<1>5. IsFiniteSet({Source})
  BY FS_Singleton
<1>6. IsFiniteSet({Source} \cup UserJobs)
  BY <1>2, <1>5, FS_Union
<1>7. IsFiniteSet({Source} \cup UserJobs \cup ItemJobs)
  BY <1>3, <1>6, FS_Union
<1> QED
  BY <1>4, <1>7, FS_Union DEF Slots

LEMMA QueuedIsNat ==
  ASSUME NEW d
  PROVE  Queued(d) \in Nat /\ IsFiniteSet(QueuedJobs(d)) /\ Queued(d) = Cardinality(QueuedJobs(d))
<1>1. QueuedJobs(d) \in SUBSET Slots
  BY DEF QueuedJobs
<1>2. IsFiniteSet(QueuedJobs(d))
  BY <1>1, SlotsAreFinite, FS_Subset
<1>3. Queued(d) = Cardinality(QueuedJobs(d))
  BY DEF Queued, QueuedJobs
<1> QED
  BY <1>2, <1>3, FS_CardinalityType

\* The queue of `e` has, beside that of `d`, only jobs of the set M.
LEMMA QueueGrows ==
  ASSUME NEW d, NEW e, NEW M, IsFiniteSet(M),
         \A s \in Slots : e.jobs[s].status = "QUEUED" => d.jobs[s].status = "QUEUED" \/ s \in M
  PROVE  Queued(e) <= Queued(d) + Cardinality(M)
<1>1. PICK A : A = QueuedJobs(d)
  OBVIOUS
<1>2. PICK B : B = QueuedJobs(e)
  OBVIOUS
<1>3. B \in SUBSET (A \cup M)
  BY <1>1, <1>2 DEF QueuedJobs
<1>4. IsFiniteSet(A) /\ Cardinality(A) = Queued(d) /\ Cardinality(B) = Queued(e)
  BY <1>1, <1>2, QueuedIsNat
<1>5. /\ IsFiniteSet(A \cup M)
      /\ Cardinality(A \cup M) = Cardinality(A) + Cardinality(M) - Cardinality(A \cap M)
  BY <1>4, FS_Union
<1>6. IsFiniteSet(A \cap M)
  <2>1. A \cap M \in SUBSET A
    OBVIOUS
  <2> QED
    BY <1>4, <2>1, FS_Subset
<1>7. Cardinality(B) <= Cardinality(A \cup M)
  BY <1>3, <1>5, FS_Subset
<1>8. /\ Cardinality(A) \in Nat /\ Cardinality(M) \in Nat /\ Cardinality(A \cap M) \in Nat
      /\ Cardinality(B) \in Nat
  BY <1>4, <1>6, FS_CardinalityType, QueuedIsNat
<1> QED
  BY <1>4, <1>5, <1>7, <1>8

\* What the server submits by itself is within the limit: from d to e either
\* no background job appeared and the queue did not grow, or it is not overfull.
Bounded(d, e) ==
    \/ /\ \A s \in ItemJobs \cup TrialJobs :
             d.jobs[s].status = "NONE" => e.jobs[s].status = "NONE"
       /\ Queued(e) <= Queued(d)
    \/ Queued(e) <= MaxQueued

LEMMA BoundedTwice ==
  ASSUME NEW d, NEW e, NEW f, Bounded(d, e), Bounded(e, f)
  PROVE  Bounded(d, f)
<1>1. Queued(d) \in Nat /\ Queued(e) \in Nat /\ Queued(f) \in Nat /\ MaxQueued \in Nat
  BY QueuedIsNat, SubmissionsAssumption
<1> QED
  BY <1>1 DEF Bounded

LEMMA FewerJobs ==
  ASSUME NEW d, NEW e,
         \A s \in Slots : \/ e.jobs[s] = d.jobs[s]
                          \/ e.jobs[s].status \notin {"QUEUED"} /\ d.jobs[s].status # "NONE"
                          \/ e.jobs[s].status = "NONE"
  PROVE  Bounded(d, e)
<1>1. QueuedJobs(e) \in SUBSET QueuedJobs(d)
  BY DEF QueuedJobs
<1>2. Queued(e) <= Queued(d)
  BY <1>1, QueuedIsNat, FS_Subset
<1>3. ItemJobs \cup TrialJobs \subseteq Slots
  BY DEF Slots
<1> QED
  BY <1>2, <1>3 DEF Bounded

LEMMA SameJobs ==
  ASSUME NEW d, NEW e, e.jobs = d.jobs
  PROVE  Bounded(d, e)
  BY FewerJobs

LEMMA CancelJobsBounded ==
  ASSUME NEW d \in Tables, NEW S
  PROVE  Bounded(d, CancelJobs(d, S))
<1>1. PICK e : e = CancelJobs(d, S)
  OBVIOUS
<1>2. ASSUME NEW s \in Slots
      PROVE  \/ e.jobs[s] = d.jobs[s]
             \/ e.jobs[s].status \notin {"QUEUED"} /\ d.jobs[s].status # "NONE"
  BY <1>1, CancelJobsEffect
<1> QED
  BY <1>1, <1>2, FewerJobs

\* pump: as many as there is room for.
LEMMA PumpBounded ==
  ASSUME NEW d \in Tables, NEW n
  PROVE  PumpUpTo(d, n) \in Tables /\ Bounded(d, PumpUpTo(d, n))
<1> DEFINE W == {i \in Items : d.items[i] = "PENDING"}
           N == Promoted(d, n)
           room == MaxQueued - Queued(d)
<1>1. CASE PumpUpTo(d, n) = d
  BY <1>1, SameJobs
<1>2. CASE d.batch.status = "ACTIVE" /\ PumpUpTo(d, n) = BatchStatus(d, "FAILED")
  <2>1. "FAILED" \in RowStatus
    BY DEF RowStatus, Ended
  <2>2. PICK e : e = BatchStatus(d, "FAILED")
    OBVIOUS
  <2>3. e \in Tables /\ e.jobs = d.jobs
    BY <2>1, <2>2, BatchStatusEffect
  <2> QED
    BY <1>2, <2>2, <2>3, SameJobs
<1>3. CASE PumpUpTo(d, n) = Collect(Promote(d, N)) /\ N # {}
  <2>1. W \in SUBSET Nat /\ IsFiniteSet(W) /\ N \in SUBSET W
    <3>1. W \in SUBSET Items
      OBVIOUS
    <3> QED
      BY <3>1, SubmissionsAssumption, FS_Subset DEF Promoted
  <2>2. \A i \in N : PlaceIn(W, i) <= room
    BY DEF Promoted, PlaceIn
  <2>3. Queued(d) \in Nat /\ MaxQueued \in Nat /\ room \in Int
    BY QueuedIsNat, SubmissionsAssumption
  <2> HIDE DEF W, room, N
  <2>4. IsFiniteSet(N) /\ Cardinality(N) <= room
    BY <1>3, <2>1, <2>2, <2>3, FewAreFirst
  <2>5. PICK f : f = [i \in N |-> Item(i)]
    OBVIOUS
  <2>6. PICK M : M = {Item(i) : i \in N}
    OBVIOUS
  <2>7. f \in Surjection(N, M)
    BY <2>5, <2>6 DEF Surjection
  <2>8. IsFiniteSet(M) /\ Cardinality(M) <= Cardinality(N)
    BY <2>4, <2>7, FS_Surjection
  <2>9. PICK c : c = Promote(d, N)
    OBVIOUS
  <2>10. /\ c \in Tables
         /\ \A s \in Slots : c.jobs[s].status = "QUEUED" => d.jobs[s].status = "QUEUED" \/ s \in M
    <3>1. c \in Tables
      BY <2>9, PromoteEffect
    <3>4. \A s \in Slots : c.jobs[s] = IF \E i \in N : s = Item(i)
                 THEN [status |-> "QUEUED", prep |-> d.batch.prep, rev |-> d.rev]
                 ELSE d.jobs[s]
      BY <2>9, PromoteEffect
    <3>2. \A s \in Slots : (~ \E i \in N : s = Item(i)) => c.jobs[s] = d.jobs[s]
      BY <3>4
    <3>3. \A s \in Slots : (\E i \in N : s = Item(i)) => s \in M
      BY <2>6
    <3> QED
      BY <3>1, <3>2, <3>3
  <2>11. Queued(c) <= Queued(d) + Cardinality(M)
    BY <2>8, <2>10, QueueGrows
  <2>12. Queued(c) <= MaxQueued
    <3>1. Cardinality(N) \in Nat /\ Cardinality(M) \in Nat /\ Queued(c) \in Nat
      BY <2>4, <2>8, FS_CardinalityType, QueuedIsNat
    <3> QED
      BY <2>3, <2>4, <2>8, <2>11, <3>1 DEF room
  <2>13. Collect(c) \in Tables /\ Collect(c).jobs = c.jobs
    BY <2>10, CollectEffect
  <2>14. Bounded(d, c) /\ Bounded(c, Collect(c))
    BY <2>12, <2>13, SameJobs DEF Bounded
  <2> QED
    BY <1>3, <2>9, <2>13, <2>14, BoundedTwice
<1>4. CASE PumpUpTo(d, n) # d
  <2>1. N # {}
    BY <1>4 DEF PumpUpTo
  <2> QED
    BY <1>1, <1>2, <1>3, <2>1, PumpCases
<1> QED
  BY <1>1, <1>4

LEMMA OnJobStatusChangedBounded ==
  ASSUME NEW d \in Tables
  PROVE  OnJobStatusChanged(d) \in Tables /\ Bounded(d, OnJobStatusChanged(d))
<1>1. PICK p : p = Pump(d)
  OBVIOUS
<1>2. p \in Tables /\ Bounded(d, p)
  BY <1>1, PumpBounded DEF Pump
<1>3. \/ OnJobStatusChanged(d) = BatchStatus(p, "COMPLETED")
      \/ OnJobStatusChanged(d) = BatchStatus(p, "CANCELLED")
      \/ OnJobStatusChanged(d) = p
  BY <1>1 DEF OnJobStatusChanged, BatchStatus
<1>4. ASSUME NEW status \in {"COMPLETED", "CANCELLED"}
      PROVE  BatchStatus(p, status) \in Tables /\ Bounded(d, BatchStatus(p, status))
  <2>1. BatchStatus(p, status) \in Tables /\ BatchStatus(p, status).jobs = p.jobs
    BY <1>2, BatchStatusEffect DEF RowStatus, Ended
  <2> QED
    BY <1>2, <2>1, SameJobs, BoundedTwice
<1> QED
  BY <1>2, <1>3, <1>4

\* What a tick does keeps the limit, too.
LEMMA StartKeepsJobs ==
  ASSUME NEW d \in Tables, NEW p \in PrepIds
  PROVE  Start(d, p) \in Tables /\ Start(d, p).jobs = d.jobs
<1> DEFINE status == IF d.preps[p].status = "NONE" THEN "ACTIVE" ELSE d.preps[p].status
<1>1. d.preps \in [PrepIds -> Prep] /\ d.preps[p] \in Prep
  BY Fields
<1>2. status \in RowStatus
  BY <1>1 DEF Prep, RowStatus
<1>3. Start(d, p) = [d EXCEPT !.preps[p].status = status]
  BY DEF Start
<1> HIDE DEF status
<1>4. PICK P : P = [d.preps EXCEPT ![p] = [d.preps[p] EXCEPT !.status = status]]
  OBVIOUS
<1>5. [d.preps[p] EXCEPT !.status = status] \in Prep
  BY <1>1, <1>2 DEF Prep
<1>6. P \in [PrepIds -> Prep]
  BY <1>1, <1>4, <1>5
<1>7. Start(d, p) = [d EXCEPT !.preps = P]
  BY <1>1, <1>3, <1>4, Fields
<1> QED
  BY <1>6, <1>7 DEF Tables

LEMMA AttachKeepsJobs ==
  ASSUME NEW d \in Tables, NEW t \in Trials, NEW p \in PrepIds
  PROVE  Attach(d, t, p).jobs = d.jobs
  BY DEF Attach, Collect, Tables

LEMMA FinishCancellationBounded ==
  ASSUME NEW d \in Tables
  PROVE  Bounded(d, FinishCancellation(d))
<1>1. PICK L : L = LiveTrials(d)
  OBVIOUS
<1>2. PICK c : c = IF L = {} THEN d ELSE OnJobStatusChanged(CancelJobs(d, L))
  OBVIOUS
<1>3. c \in Tables /\ Bounded(d, c)
  <2>1. CASE L = {}
    BY <1>2, <2>1, SameJobs
  <2>2. CASE L # {}
    <3>1. PICK j : j = CancelJobs(d, L)
      OBVIOUS
    <3>2. j \in Tables /\ Bounded(d, j)
      BY <3>1, CancelJobsEffect, CancelJobsBounded
    <3> QED
      BY <1>2, <2>2, <3>1, <3>2, OnJobStatusChangedBounded, BoundedTwice
  <2> QED
    BY <2>1, <2>2
<1>4. PICK P : P = [p \in PrepIds |-> IF IsUnfinished(d, p)
                   THEN [c.preps[p] EXCEPT !.status = "CANCELLING"] ELSE c.preps[p]]
  OBVIOUS
<1>5. PICK b : b = [c EXCEPT !.preps = P]
  OBVIOUS
<1>6. \/ FinishCancellation(d) = b
      \/ \E status : FinishCancellation(d) = [b EXCEPT !.exp.status = status]
  BY <1>1, <1>2, <1>4, <1>5 DEF FinishCancellation
<1>7. b.jobs = c.jobs /\ \A status : [b EXCEPT !.exp.status = status].jobs = c.jobs
  BY <1>3, <1>5 DEF Tables
<1>8. FinishCancellation(d).jobs = c.jobs
  BY <1>6, <1>7
<1> QED
  BY <1>3, <1>8, SameJobs, BoundedTwice

LEMMA FailBounded ==
  ASSUME NEW d \in Tables, NEW o \in Fail(d)
  PROVE  Bounded(d, o.db)
<1>1. PICK c : c = ExpStatus(d, "CANCELLING", TRUE)
  OBVIOUS
<1>5. "CANCELLING" \in RowStatus /\ TRUE \in BOOLEAN
  BY DEF RowStatus
<1>2. c \in Tables /\ c.jobs = d.jobs
  BY <1>1, <1>5, ExpStatusEffect
<1>3. Fail(d) = Done(FinishCancellation(c))
  BY <1>1, Fields DEF Fail, ExpStatus
<1>4. o.db = FinishCancellation(c)
  BY <1>3 DEF Done
<1> QED
  BY <1>2, <1>4, FinishCancellationBounded, SameJobs, BoundedTwice

\* Outcomes that leave the jobs alone.
LEMMA DoneBounded ==
  ASSUME NEW d, NEW e, e.jobs = d.jobs, NEW o \in Done(e)
  PROVE  Bounded(d, o.db)
  BY SameJobs DEF Done

LEMMA PrepareTrialBounded ==
  ASSUME NEW d \in Tables, NEW t \in Trials, NEW o \in PrepareTrial(d, t)
  PROVE  Bounded(d, o.db)
<1>1. CASE o \in Fail(d)
  BY <1>1, FailBounded
<1>2. CASE o \in Done(d)
  BY <1>2, DoneBounded
<1>3. CASE \E x \in FreshFor(d, InputOf(d, t)) : o \in Done(Attach(d, t, x))
  <2>1. PICK x \in FreshFor(d, InputOf(d, t)) : o \in Done(Attach(d, t, x))
    BY <1>3
  <2>2. x \in PrepIds
    BY DEF FreshFor
  <2> QED
    BY <2>1, <2>2, AttachKeepsJobs, DoneBounded
<1>4. CASE o = [db |-> d, tick |-> WaitAt(d, "ready", t)]
  <2>1. o.db = d
    BY <1>4
  <2> QED
    BY <2>1, SameJobs
<1>5. \/ PrepareTrial(d, t) = Fail(d) \/ PrepareTrial(d, t) = Done(d)
      \/ PrepareTrial(d, t) = UNION {Done(Attach(d, t, x)) : x \in FreshFor(d, InputOf(d, t))}
      \/ PrepareTrial(d, t) = {[db |-> d, tick |-> WaitAt(d, "ready", t)]}
  BY DEF PrepareTrial
<1>6. CASE PrepareTrial(d, t)
             = UNION {Done(Attach(d, t, x)) : x \in FreshFor(d, InputOf(d, t))}
  BY <1>3, <1>6
<1> QED
  BY <1>1, <1>2, <1>4, <1>5, <1>6

LEMMA PrepareGroupBounded ==
  ASSUME NEW d \in Tables, NEW o \in PrepareGroup(d)
  PROVE  Bounded(d, o.db)
<1> DEFINE todo == {t \in Group(d) : ~ Fresh(d, d.trials[t].prep)}
           phase == IF d.exp.phase = "PREPARING_TRAIN" THEN "TRAIN" ELSE "OOS"
<1>1. CASE todo # {}
  <2>1. PICK t \in Group(d) : o \in PrepareTrial(d, t)
    BY <1>1 DEF PrepareGroup
  <2>2. t \in Trials
    BY PastIsPast
  <2> QED
    BY <2>1, <2>2, PrepareTrialBounded
<1>2. CASE todo = {}
  <2>1. PrepareGroup(d) = Done([d EXCEPT !.exp.phase = phase, !.exp.rev = d.rev])
    BY <1>2 DEF PrepareGroup
  <2> HIDE DEF phase
  <2>2. [d EXCEPT !.exp.phase = phase, !.exp.rev = d.rev].jobs = d.jobs
    BY DEF Tables
  <2> QED
    BY <2>1, <2>2, DoneBounded
<1> QED
  BY <1>1, <1>2

LEMMA DecideBounded ==
  ASSUME NEW d \in Tables, NEW o \in Decide(d)
  PROVE  Bounded(d, o.db)
<1>1. CASE d.exp.phase = "TRAIN"
  <2>1. o \in Fail(d) \/ \E c \in Candidates(d.exp.mode) : o \in Done(Take(d, c))
    <3>1. CASE d.exp.mode = "HOLDOUT"
      BY <1>1, <3>1 DEF Decide
    <3>2. CASE d.exp.mode # "HOLDOUT"
      BY <1>1, <3>2 DEF Decide
    <3> QED
      BY <3>1, <3>2
  <2>2. \A c : Take(d, c).jobs = d.jobs
    BY DEF Take, Tables
  <2> QED
    BY <2>1, <2>2, FailBounded, DoneBounded
<1>2. CASE d.exp.phase # "TRAIN" /\ d.exp.fold + 1 = Folds(d.exp.mode)
  <2>1. o \in Done([d EXCEPT !.exp.status = "COMPLETED"])
    BY <1>2 DEF Decide
  <2>2. [d EXCEPT !.exp.status = "COMPLETED"].jobs = d.jobs
    BY DEF Tables
  <2> QED
    BY <2>1, <2>2, DoneBounded
<1>3. CASE d.exp.phase # "TRAIN" /\ d.exp.fold + 1 # Folds(d.exp.mode)
  <2>1. o \in Done([d EXCEPT !.exp.fold = d.exp.fold + 1, !.exp.phase = "PREPARING_TRAIN",
                             !.exp.rev = 0])
    BY <1>3 DEF Decide
  <2>2. [d EXCEPT !.exp.fold = d.exp.fold + 1, !.exp.phase = "PREPARING_TRAIN",
                  !.exp.rev = 0].jobs = d.jobs
    BY DEF Tables
  <2> QED
    BY <2>1, <2>2, DoneBounded
<1> QED
  BY <1>1, <1>2, <1>3

LEMMA RunGroupBounded ==
  ASSUME NEW d \in Tables, NEW o \in RunGroup(d)
  PROVE  Bounded(d, o.db)
<1> DEFINE failed  == {t \in Group(d) : RunIsLost(d, t)}
           waiting == {t \in Group(d) : ~ d.trials[t].launched}
<1>1. CASE ~ SameRevision(d) \/ failed # {}
  BY <1>1, FailBounded DEF RunGroup
<1>2. CASE SameRevision(d) /\ failed = {} /\ waiting # {}
  <2>1. RunGroup(d) = UNION {IF ~ Fresh(d, d.trials[t].prep) THEN Fail(d)
                      ELSE IF QueueIsFull(d) THEN Done(d)
                      ELSE {[db |-> d, tick |-> WaitAt(d, "build", t)]} : t \in waiting}
    BY <1>2 DEF RunGroup
  <2>2. PICK t \in waiting : o \in IF ~ Fresh(d, d.trials[t].prep) THEN Fail(d)
                      ELSE IF QueueIsFull(d) THEN Done(d)
                      ELSE {[db |-> d, tick |-> WaitAt(d, "build", t)]}
    BY <2>1
  <2>3. CASE o = [db |-> d, tick |-> WaitAt(d, "build", t)]
    <3>1. o.db = d
      BY <2>3
    <3> QED
      BY <3>1, SameJobs
  <2> QED
    BY <2>2, <2>3, FailBounded, DoneBounded
<1>3. CASE SameRevision(d) /\ failed = {} /\ waiting = {}
  <2>1. RunGroup(d) = IF \A t \in Group(d) : d.jobs[Trial(t)].status = "COMPLETED"
                      THEN Decide(d) ELSE Done(d)
    BY <1>3 DEF RunGroup
  <2> QED
    BY <2>1, DecideBounded, DoneBounded
<1> QED
  BY <1>1, <1>2, <1>3

LEMMA TickBounded ==
  ASSUME NEW d \in Tables, NEW o \in Tick(d)
  PROVE  Bounded(d, o.db)
<1>1. CASE d.exp.status = "CANCELLING"
  <2>1. o.db = FinishCancellation(d)
    BY <1>1 DEF Tick, Done
  <2> QED
    BY <2>1, FinishCancellationBounded
<1>2. CASE d.exp.status = "ACTIVE" /\ Preparing(d)
  BY <1>2, PrepareGroupBounded DEF Tick
<1>3. CASE d.exp.status = "ACTIVE" /\ ~ Preparing(d)
  BY <1>3, RunGroupBounded DEF Tick
<1>4. CASE d.exp.status \notin {"ACTIVE", "CANCELLING"}
  BY <1>4, DoneBounded DEF Tick
<1> QED
  BY <1>1, <1>2, <1>3, <1>4

LEMMA ResumeReadyBounded ==
  ASSUME NEW d \in Tables, NEW w \in Wait, w.at = "ready", NEW o \in ResumeReady(d, w)
  PROVE  Bounded(d, o.db)
<1>1. w.trial \in Trials
  BY DEF Wait, Idle
<1>2. CASE o \in Done(d)
  BY <1>2, DoneBounded
<1>3. CASE \E p \in RowFor(d, InputOf(d, w.trial)) : o \in Done(Attach(Start(d, p), w.trial, p))
  <2>1. PICK p \in RowFor(d, InputOf(d, w.trial)) : o \in Done(Attach(Start(d, p), w.trial, p))
    BY <1>3
  <2>2. p \in PrepIds
    BY DEF RowFor
  <2>3. PICK s : s = Start(d, p)
    OBVIOUS
  <2>4. s \in Tables /\ s.jobs = d.jobs
    BY <2>2, <2>3, StartKeepsJobs
  <2>5. Attach(s, w.trial, p).jobs = d.jobs
    BY <1>1, <2>2, <2>4, AttachKeepsJobs
  <2> QED
    BY <2>1, <2>3, <2>5, DoneBounded
<1> QED
  BY <1>2, <1>3 DEF ResumeReady

\* A run of an experiment is inserted where the queue was found to have room.
LEMMA ResumeBuildBounded ==
  ASSUME NEW d \in Tables, NEW w \in Wait, w.at = "build",
         SamePhase(d, w) => w.prep \in PrepIds, NEW o \in ResumeBuild(d, w)
  PROVE  Bounded(d, o.db)
<1>1. CASE o \in Done(d)
  BY <1>1, DoneBounded
<1>2. CASE o \in Fail(d)
  BY <1>2, FailBounded
<1>3. CASE /\ SamePhase(d, w) /\ ~ QueueIsFull(d)
           /\ o \in Done(Launched(d, w.trial, w.prep))
  <2>1. w.trial \in Trials /\ w.prep \in PrepIds
    BY <1>3 DEF Wait, Idle
  <2>2. PICK s : s = Trial(w.trial)
    OBVIOUS
  <2>3. s \in Slots
    BY <2>1, <2>2, SlotsAre
  <2>16. PICK p \in PrepIds : p = w.prep
    BY <2>1
  <2>4. PICK x \in {0, d.wizard} : Enqueue(d, s, p, FALSE) = Collect(Queue(d, s, p, x))
    BY <2>3, EnqueueIs
  <2>5. PICK e : e = Queue(d, s, p, x)
    OBVIOUS
  <2>6. x \in Refs
    BY <2>4, Fields DEF Refs
  <2>7. e \in Tables /\ \A y \in Slots \ {s} : e.jobs[y] = d.jobs[y]
    <3>1. \A y \in Slots : e.jobs[y] = IF y = s
             THEN [status |-> "QUEUED", prep |-> p, rev |-> d.rev] ELSE d.jobs[y]
      BY <2>3, <2>5, <2>6, QueueEffect
    <3> QED
      BY <2>3, <2>5, <2>6, <3>1, QueueEffect
  <2>8. PICK c : c = Collect(e)
    OBVIOUS
  <2>9. c \in Tables /\ c.jobs = e.jobs
    BY <2>7, <2>8, CollectEffect
  <2>10. o.db = [c EXCEPT !.trials[w.trial].launched = TRUE]
    <3>1. o.db = Launched(d, w.trial, w.prep)
      BY <1>3 DEF Done
    <3>2. Launched(d, w.trial, w.prep)
            = [Enqueue(d, s, p, FALSE) EXCEPT !.trials[w.trial].launched = TRUE]
      BY <2>2, <2>16 DEF Launched
    <3>3. Enqueue(d, s, p, FALSE) = c
      BY <2>4, <2>5, <2>8
    <3> QED
      BY <3>1, <3>2, <3>3
  <2>11. o.db.jobs = e.jobs
    BY <2>9, <2>10 DEF Tables
  <2>12. \A y \in Slots : o.db.jobs[y].status = "QUEUED"
                             => d.jobs[y].status = "QUEUED" \/ y \in {s}
    BY <2>7, <2>11
  <2>13. IsFiniteSet({s}) /\ Cardinality({s}) = 1
    BY FS_Singleton
  <2>14. Queued(o.db) <= Queued(d) + Cardinality({s})
    BY <2>12, <2>13, QueueGrows
  <2>15. Queued(d) \in Nat /\ Queued(o.db) \in Nat /\ MaxQueued \in Nat
    BY QueuedIsNat, SubmissionsAssumption
  <2> QED
    BY <1>3, <2>13, <2>14, <2>15 DEF Bounded, QueueIsFull
<1> QED
  BY <1>1, <1>2, <1>3 DEF ResumeBuild, Launched

\* What BackgroundRespectsLimit says of a step from d to e.
Within(d, e) ==
    (\E s \in ItemJobs \cup TrialJobs :
        d.jobs[s].status = "NONE" /\ e.jobs[s].status = "QUEUED")
    => Queued(e) <= MaxQueued

NoneStays(d, e) ==
    \A s \in ItemJobs \cup TrialJobs : d.jobs[s].status = "NONE" => e.jobs[s].status = "NONE"

LEMMA ServeWithin ==
  ASSUME NEW d, Serve(d), NoneStays(db, d)
  PROVE  Within(db, db')
  BY DEF Serve, NoneStays, Within

LEMMA EventWithin ==
  ASSUME NEW d \in Tables, ThenEvent(d), NoneStays(db, d)
  PROVE  Within(db, db')
<1>1. PICK e : e = db'
  OBVIOUS
<1>2. Bounded(d, e)
  BY <1>1, OnJobStatusChangedBounded, PumpBounded DEF ThenEvent, Serve
<1>3. Within(db, e)
  BY <1>2 DEF NoneStays, Within, Bounded
<1> QED
  BY <1>1, <1>3

LEMMA TickWithin ==
  ASSUME NEW d \in Tables, ThenTick(d), d.jobs = db.jobs
  PROVE  Within(db, db')
<1>1. CASE db' = d
  BY <1>1 DEF Within
<1>2. ASSUME NEW o \in Tick(d), db' = o.db
      PROVE  Within(db, db')
  <2>1. Bounded(d, o.db)
    BY TickBounded
  <2> QED
    BY <1>2, <2>1 DEF Within, Bounded
<1> QED
  BY <1>1, <1>2 DEF ThenTick

LEMMA JobsWithin ==
  ASSUME ExpInv, NEW s \in Slots, ClaimJob(s) \/ HandBackJob(s) \/ EndJob(s) \/ CancelJob(s)
  PROVE  Within(db, db')
<1>1. /\ db \in Tables /\ db.jobs[s].rev \in Nat /\ db.rev \in Nat
      /\ ItemJobs \cup TrialJobs \subseteq Slots
  BY Fields DEF ExpInv, Sound, Job, Slots
<1>2. ASSUME NEW status \in Live \cup Ended, NEW r \in Nat, db.jobs[s].status \in Live,
             ThenEvent(Moved(db, s, status, r))
      PROVE  Within(db, db')
  <2>1. PICK e : e = Moved(db, s, status, r)
    OBVIOUS
  <2>2. /\ e \in Tables
        /\ \A x \in Slots : e.jobs[x] = IF x = s
              THEN [status |-> status, prep |-> db.jobs[s].prep, rev |-> r] ELSE db.jobs[x]
    BY <1>1, <2>1, MovedEffect
  <2>3. db.jobs[s].status # "NONE"
    BY <1>2 DEF Live
  <2>4. NoneStays(db, e)
    BY <1>1, <2>2, <2>3 DEF NoneStays
  <2> QED
    BY <1>2, <2>1, <2>2, <2>4, EventWithin
<1>3. ASSUME NEW status \in Live \cup Ended, db.jobs[s].status \in Live,
             ThenEvent(SetStatus(db, s, status))
      PROVE  Within(db, db')
  <2>1. ThenEvent(Moved(db, s, status, db.jobs[s].rev))
    BY <1>1, <1>3, SetStatusMoves
  <2> QED
    BY <1>1, <1>2, <1>3, <2>1
<1>4. CASE ClaimJob(s)
  <2>1. PICK r \in db.jobs[s].rev..db.rev : ThenEvent(Claimed(db, s, r))
    BY <1>4 DEF ClaimJob, Claimed
  <2>2. r \in Nat
    BY <1>1, <2>1
  <2>3. Claimed(db, s, r) = Moved(db, s, "RUNNING", r)
    BY <1>1, ClaimMoves
  <2>4. ThenEvent(Moved(db, s, "RUNNING", r))
    BY <2>1, <2>3, Zenon
  <2> QED
    BY <1>2, <1>4, <2>2, <2>4 DEF ClaimJob, Live
<1>5. CASE HandBackJob(s)
  BY <1>3, <1>5 DEF HandBackJob, Live
<1>6. CASE EndJob(s)
  BY <1>3, <1>6 DEF EndJob, Live, Ended
<1>7. CASE CancelJob(s)
  <2>1. PICK e : e = CancelJobs(db, {s})
    OBVIOUS
  <2>2. /\ e \in Tables
        /\ \A x \in Slots : \/ e.jobs[x] = db.jobs[x]
                            \/ db.jobs[x].status \in {"QUEUED", "RUNNING"}
    BY <1>1, <2>1, CancelJobsEffect
  <2>3. NoneStays(db, e)
    BY <1>1, <2>2 DEF NoneStays
  <2> QED
    BY <1>7, <2>1, <2>2, <2>3, EventWithin DEF CancelJob
<1> QED
  BY <1>4, <1>5, <1>6, <1>7

\* Whatever only takes jobs away, or leaves them.
LEMMA ServedWithin ==
  ASSUME ExpInv,
         \/ ChangeData \/ SnapshotDrifts \/ SaveDraft \/ RemoveDraft
         \/ RemoveSeeds \/ RemoveExperiment
         \/ \E p \in PrepIds : EndPreparation(p) \/ CancelPreparation(p)
         \/ \E s \in Slots : RemoveJob(s)
         \/ \E input \in PreviewInputs : Preview(input)
  PROVE  Within(db, db')
<1>1. db \in Tables /\ db.jobs \in [Slots -> Job] /\ ItemJobs \cup TrialJobs \subseteq Slots
  BY Fields DEF ExpInv, Sound, Slots
<1>2. ASSUME NEW e, e.jobs = db.jobs, Serve(e)
      PROVE  Within(db, db')
  BY <1>2, ServeWithin DEF NoneStays
<1>3. CASE ChangeData
  <2>1. [db EXCEPT !.rev = db.rev + 1].jobs = db.jobs
    BY <1>1 DEF Tables
  <2> QED
    BY <1>2, <1>3, <2>1 DEF ChangeData
<1>4. CASE SnapshotDrifts
  <2>1. [db EXCEPT !.valid = FALSE].jobs = db.jobs
    BY <1>1 DEF Tables
  <2> QED
    BY <1>2, <1>4, <2>1 DEF SnapshotDrifts
<1>5. \A d \in Tables : \A p : BindWizard(d, p).jobs = d.jobs
  BY DEF BindWizard, Collect, Tables
<1>6. CASE SaveDraft
  BY <1>1, <1>2, <1>5, <1>6 DEF SaveDraft
<1>7. CASE RemoveDraft
  <2>1. ReleaseWizard(db).jobs = db.jobs
    BY <1>1 DEF ReleaseWizard, Collect, Tables
  <2> QED
    BY <1>2, <1>7, <2>1 DEF RemoveDraft
<1>8. CASE RemoveSeeds
  <2>1. PICK e : e = WithoutBatch(db)
    OBVIOUS
  <2>2. e \in Tables
        /\ \A s \in Slots : e.jobs[s] = IF s \in ItemJobs THEN NoJob ELSE db.jobs[s]
    BY <1>1, <2>1, WithoutBatchEffect
  <2>3. DeleteBatch(db).jobs = e.jobs
    BY <2>1, <2>2, CollectEffect DEF DeleteBatch
  <2>4. NoneStays(db, DeleteBatch(db))
    BY <1>1, <2>2, <2>3 DEF NoneStays, NoJob
  <2> QED
    BY <1>8, <2>4, ServeWithin DEF RemoveSeeds
<1>9. CASE RemoveExperiment
  <2>1. \A s \in Slots : DeleteExperiment(db).jobs[s]
                           = IF s \in TrialJobs THEN NoJob ELSE db.jobs[s]
    BY <1>1 DEF DeleteExperiment, Collect, Tables
  <2>2. NoneStays(db, DeleteExperiment(db))
    BY <1>1, <2>1 DEF NoneStays, NoJob
  <2> QED
    BY <1>9, <2>2, ServeWithin DEF RemoveExperiment
<1>10. ASSUME NEW p \in PrepIds, EndPreparation(p) \/ CancelPreparation(p)
       PROVE  Within(db, db')
  <2>1. \A status : [db EXCEPT !.preps[p].status = status].jobs = db.jobs
    BY <1>1 DEF Tables
  <2>2. [db EXCEPT !.preps[p].status = "COMPLETED", !.preps[p].rev = db.rev].jobs = db.jobs
    BY <1>1 DEF Tables
  <2> QED
    BY <1>2, <1>10, <2>1, <2>2 DEF EndPreparation, CancelPreparation
<1>11. ASSUME NEW s \in Slots, RemoveJob(s)
       PROVE  Within(db, db')
  <2>1. PICK b : b = IF s = Source THEN WithoutBatch(db) ELSE db
    OBVIOUS
  <2>2. b \in Tables /\ NoneStays(db, b)
    <3>1. CASE s = Source
      BY <1>1, <2>1, <3>1, WithoutBatchEffect DEF NoneStays, NoJob
    <3>2. CASE s # Source
      BY <1>1, <2>1, <3>2 DEF NoneStays
    <3> QED
      BY <3>1, <3>2
  <2>3. DeleteJob(db, s) = Collect([b EXCEPT !.jobs[s] = NoJob])
    BY <2>1 DEF DeleteJob
  <2>4. \A x \in Slots : DeleteJob(db, s).jobs[x] = IF x = s THEN NoJob ELSE b.jobs[x]
    BY <2>2, <2>3 DEF Collect, Tables
  <2>5. NoneStays(db, DeleteJob(db, s))
    BY <1>1, <2>2, <2>4 DEF NoneStays, NoJob
  <2> QED
    BY <1>11, <2>5, ServeWithin DEF RemoveJob
<1>12. ASSUME NEW input \in PreviewInputs, Preview(input)
       PROVE  Within(db, db')
  <2>1. PICK p \in RowFor(db, input) : Serve(BindWizard(Start(db, p), p))
    BY <1>12 DEF Preview
  <2>2. p \in PrepIds
    BY DEF RowFor
  <2>3. Start(db, p) \in Tables /\ Start(db, p).jobs = db.jobs
    BY <1>1, <2>2, StartKeepsJobs
  <2> QED
    BY <1>2, <1>5, <2>1, <2>3
<1> QED
  BY <1>3, <1>4, <1>6, <1>7, <1>8, <1>9, <1>10, <1>11, <1>12

LEMMA PostWithin ==
  ASSUME ExpInv, CommitPost
  PROVE  Within(db, db')
<1>1. /\ db \in Tables /\ db.jobs \in [Slots -> Job] /\ ItemJobs \cup TrialJobs \subseteq Slots
      /\ post.kind \in Kinds /\ post.prep \in PrepIds
  BY Fields DEF ExpInv, Sound, CommitPost, Submission, Slots
<1>2. CASE ~ StillValid(db, post)
  BY <1>2 DEF CommitPost, Within
<1>3. CASE StillValid(db, post) /\ post.kind = "seeds"
  <2>1. PICK I : I = [i \in Items |-> "PENDING"]
    OBVIOUS
  <2>2. PICK B : B = [status |-> "ACTIVE", prep |-> post.prep]
    OBVIOUS
  <2>3. I \in [Items -> {"NONE", "PENDING", "DISPATCHED", "CANCELLED"}]
    BY <2>1
  <2>4. B \in Batch
    BY <1>1, <2>2 DEF Batch, RowStatus, Refs
  <2>5. PICK e : e = Batched(db, B, I)
    OBVIOUS
  <2>6. e \in Tables /\ e.jobs = db.jobs
    BY <1>1, <2>3, <2>4, <2>5, BatchedEffect
  <2>7. db' = Pump(e)
    BY <1>3, <2>1, <2>2, <2>5 DEF CommitPost, CreateBatch, Batched
  <2>8. PICK f : f = Pump(e)
    OBVIOUS
  <2>9. Bounded(e, f)
    BY <2>6, <2>8, PumpBounded DEF Pump
  <2>10. Within(db, f)
    BY <2>6, <2>9 DEF Within, Bounded
  <2> QED
    BY <2>7, <2>8, <2>10
<1>4. CASE StillValid(db, post) /\ post.kind # "seeds"
  <2>1. \E u \in UserSlots : db.jobs[User(u)] = NoJob
    BY <1>1, <1>4 DEF ExpInv, Sound, PostInv, Kinds, CommitPost
  <2>2. PICK u : u = CHOOSE v \in UserSlots : db.jobs[User(v)] = NoJob
    OBVIOUS
  <2>3. u \in UserSlots
    BY <2>1, <2>2
  <2>4. PICK s : s = User(u)
    OBVIOUS
  <2>5. s \in Slots /\ s \notin ItemJobs \cup TrialJobs
    BY <2>3, <2>4, SlotsAre, SlotsDiffer
  <2>6. PICK p \in PrepIds : p = post.prep
    BY <1>1
  <2>7. PICK ofWizard : db' = Enqueue(db, s, p, ofWizard)
    BY <1>4, <2>2, <2>4, <2>6 DEF CommitPost
  <2>8. PICK x \in {0, db.wizard} : Enqueue(db, s, p, ofWizard) = Collect(Queue(db, s, p, x))
    BY <1>1, <2>5, EnqueueIs
  <2>9. x \in Refs
    BY <1>1, <2>8, Fields DEF Refs
  <2>10. PICK e : e = Queue(db, s, p, x)
    OBVIOUS
  <2>11. \A y \in Slots : e.jobs[y] = IF y = s
             THEN [status |-> "QUEUED", prep |-> p, rev |-> db.rev] ELSE db.jobs[y]
    BY <1>1, <2>5, <2>9, <2>10, QueueEffect
  <2>12. e \in Tables
    BY <1>1, <2>5, <2>9, <2>10, QueueEffect
  <2>13. PICK f : f = Collect(e)
    OBVIOUS
  <2>14. f.jobs = e.jobs
    BY <2>12, <2>13, CollectEffect
  <2>15. Within(db, f)
    BY <1>1, <2>5, <2>11, <2>14 DEF Within
  <2>16. db' = f
    BY <2>7, <2>8, <2>10, <2>13
  <2> QED
    BY <2>15, <2>16
<1> QED
  BY <1>2, <1>3, <1>4

LEMMA SeedsWithin ==
  ASSUME ExpInv, StopSeeds
  PROVE  Within(db, db')
<1>1. db \in Tables
  BY DEF ExpInv, Sound
<1>2. StopBatch(db) \in Tables /\ StopBatch(db).jobs = db.jobs
  <2>1. StopBatch(db).jobs = db.jobs
    BY <1>1 DEF StopBatch, Tables
  <2>2. StopBatch(db) \in Tables
    BY StopBatchSound DEF ExpInv, Sound
  <2> QED
    BY <2>1, <2>2
<1>3. CASE Serve(CancelBatch(db))
  <2>1. PICK c : c = IF db.batch.status # "ACTIVE" THEN db
                     ELSE OnJobStatusChanged(StopBatch(db))
    OBVIOUS
  <2>2. c \in Tables /\ Bounded(db, c)
    BY <1>1, <1>2, <2>1, OnJobStatusChangedBounded, SameJobs, BoundedTwice
  <2>3. PICK S : S = {s \in ItemJobs : c.jobs[s].status \in Live}
    OBVIOUS
  <2>4. PICK j : j = CancelJobs(c, S)
    OBVIOUS
  <2>5. j \in Tables /\ Bounded(c, j)
    BY <2>2, <2>4, CancelJobsEffect, CancelJobsBounded
  <2>6. CancelBatch(db) = IF S = {} THEN c ELSE OnJobStatusChanged(j)
    BY <2>1, <2>3, <2>4 DEF CancelBatch
  <2>7. PICK e : e = CancelBatch(db)
    OBVIOUS
  <2>8. Bounded(db, e)
    BY <2>2, <2>5, <2>6, <2>7, OnJobStatusChangedBounded, BoundedTwice
  <2>9. Within(db, e)
    BY <2>8 DEF Within, Bounded
  <2> QED
    BY <1>3, <2>7, <2>9 DEF Serve
<1>4. CASE Dies /\ db' = StopBatch(db)
  BY <1>2, <1>4 DEF Within
<1> QED
  BY <1>3, <1>4 DEF StopSeeds

LEMMA ExperimentWithin ==
  ASSUME ExpInv, CancelExperiment \/ TimerTick \/ \E mode \in Modes : BeginExperiment(mode)
  PROVE  Within(db, db')
<1>1. db \in Tables /\ db.jobs \in [Slots -> Job] /\ db.exp \in Exp
  BY Fields DEF ExpInv, Sound
<1>2. ASSUME NEW mode \in Modes, BeginExperiment(mode)
      PROVE  Within(db, db')
  <2>1. PICK e : e = CreateExperiment(db, mode)
    OBVIOUS
  <2>2. e.jobs = db.jobs
    BY <1>1, <2>1 DEF CreateExperiment, Tables
  <2>3. mode \in ExpModes /\ db.jobs[Source].status = "COMPLETED" /\ db.exp.status = "NONE"
    BY <1>2, ExperimentsAssumption DEF ExpModes, BeginExperiment
  <2>4. e \in Tables
    BY <2>1, <2>3, CreateExperimentSound DEF ExpInv, Sound
  <2> QED
    BY <1>2, <2>1, <2>2, <2>4, TickWithin DEF BeginExperiment
<1>3. CASE CancelExperiment
  <2>1. PICK e : e = [db EXCEPT !.exp.status = "CANCELLING"]
    OBVIOUS
  <2>2. e.jobs = db.jobs
    BY <1>1, <2>1 DEF Tables
  <2>3. [db.exp EXCEPT !.status = "CANCELLING"] \in Exp
    BY <1>1 DEF Exp, RowStatus
  <2>4. e \in Tables
    BY <1>1, <2>1, <2>3 DEF Tables
  <2> QED
    BY <1>3, <2>1, <2>2, <2>4, TickWithin DEF CancelExperiment
<1>4. CASE TimerTick
  BY <1>1, <1>4, TickWithin DEF TimerTick
<1> QED
  BY <1>2, <1>3, <1>4

LEMMA ServerWithin ==
  ASSUME ExpInv, ResumeTick \/ Crash \/ Boot
  PROVE  Within(db, db')
<1>1. db \in Tables /\ db.trials \in [Trials -> TrialRow]
  BY Fields DEF ExpInv, Sound
<1>2. CASE ResumeTick
  <2>1. PICK o : /\ o \in IF tick.at = "ready" THEN ResumeReady(db, tick)
                          ELSE ResumeBuild(db, tick)
                 /\ db' = o.db
    BY <1>2 DEF ResumeTick
  <2>2. tick \in Wait /\ tick.at \in {"ready", "build"} /\ tick.trial \in Trials
    BY <1>2 DEF ResumeTick, ExpInv, Wait, Idle
  <2>3. Bounded(db, o.db)
    <3>1. CASE tick.at = "ready"
      BY <1>1, <2>1, <2>2, <3>1, ResumeReadyBounded
    <3>2. CASE tick.at = "build"
      <4>1. SamePhase(db, tick) => tick.prep \in PrepIds
        <5>1. ASSUME SamePhase(db, tick)
              PROVE  tick.prep # 0 /\ db.trials[tick.trial].prep = tick.prep
          BY <3>2, <5>1 DEF ExpInv, Sound, TickInv, SamePhase
        <5> QED
          BY <1>1, <2>2, <5>1 DEF TrialRow, Refs
      <4> QED
        BY <1>1, <2>1, <2>2, <3>2, <4>1, ResumeBuildBounded
    <3> QED
      BY <2>2, <3>1, <3>2
  <2>4. PICK e : e = o.db
    OBVIOUS
  <2>5. Within(db, e)
    BY <2>3, <2>4 DEF Within, Bounded
  <2> QED
    BY <2>1, <2>4, <2>5
<1>3. CASE Crash
  BY <1>3 DEF Crash, Within
<1>4. CASE Boot
  <2>1. PICK c : c = Collect(db)
    OBVIOUS
  <2>2. c \in Tables /\ c.jobs = db.jobs
    BY <1>1, <2>1, CollectEffect
  <2>3. PICK e : e = OnJobStatusChanged(c)
    OBVIOUS
  <2>4. Bounded(c, e)
    BY <2>2, <2>3, OnJobStatusChangedBounded
  <2>5. Within(db, e)
    BY <2>2, <2>4 DEF Within, Bounded
  <2> QED
    BY <1>4, <2>1, <2>3, <2>5 DEF Boot
<1> QED
  BY <1>2, <1>3, <1>4

\* What the server submits by itself, the items of a batch and the runs of an
\* experiment, never goes beyond the limit of the queue, whoever submits meanwhile.
THEOREM BackgroundStaysWithinLimit == Spec => BackgroundRespectsLimit
<1>1. ExpInv /\ [Next]_vars =>
        [ (\E s \in ItemJobs \cup TrialJobs :
              db.jobs[s].status = "NONE" /\ db'.jobs[s].status = "QUEUED")
          => Queued(db') <= MaxQueued ]_vars
  <2>1. ASSUME ExpInv, Next
        PROVE  Within(db, db')
    <3>1. CASE \E kind \in Posts : BeginPost(kind)
      BY <3>1 DEF BeginPost, Within
    <3> QED
      BY <2>1, <3>1, JobsWithin, ServedWithin, PostWithin, SeedsWithin, ExperimentWithin,
         ServerWithin
      DEF Next
  <2> QED
    BY <2>1 DEF Within
<1> QED
  BY <1>1, TablesAreSound, PTL DEF Spec, BackgroundRespectsLimit
=============================================================================
