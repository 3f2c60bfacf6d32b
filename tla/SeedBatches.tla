----------------------------- MODULE SeedBatches ----------------------------
(* SeedCloneBatchService: a batch runs one request under many seeds.  Its  *)
(* items wait in rows of their own and become jobs as the queue has room.  *)
EXTENDS Submissions

NoBatch == [status |-> "NONE", prep |-> 0]

JobEnded(d, s) == d.jobs[s].status \notin Live      \* a deleted job is one, too

\* pump: as many items as the queue has room for, in the order of their seeds;
\* `n` of them, when the server dies in the middle.
Promoted(d, n) ==
    LET waiting == {i \in Items : d.items[i] = "PENDING"}
        room    == MaxQueued - Queued(d)
        Place(i) == Cardinality({k \in waiting : k <= i})
    IN  {i \in waiting : Place(i) <= room /\ Place(i) <= n}

\* A snapshot that the data no longer bear out fails the batch instead.
PumpUpTo(d, n) ==
    LET next == Promoted(d, n)
    IN  IF d.batch.status # "ACTIVE" \/ next = {} THEN d
        ELSE IF ~ d.valid THEN [d EXCEPT !.batch.status = "FAILED"]
        ELSE Collect([d EXCEPT
               !.jobs = [s \in Slots |->
                   IF \E i \in next : s = Item(i)
                   THEN [status |-> "QUEUED", prep |-> d.batch.prep, rev |-> d.rev]
                   ELSE d.jobs[s]],
               !.items = [i \in Items |-> IF i \in next THEN "DISPATCHED" ELSE @[i]]])

Pump(d) == PumpUpTo(d, Cardinality(Items))

\* Mutant: an item that waits has no job, and what has no job has ended.
ItemHasNoJob(d, i) == JobEnded(d, Item(i))

ItemEnded(d, i) == d.items[i] = "DISPATCHED" /\ JobEnded(d, Item(i))

\* onJobStatusChanged: after every event of a job, and at start.
OnJobStatusChanged(d) ==
    LET p == Pump(d)
    IN  CASE p.batch.status = "ACTIVE" /\ \A i \in Items : ItemEnded(p, i)
               -> [p EXCEPT !.batch.status = "COMPLETED"]
          [] /\ p.batch.status = "CANCELLING"
             /\ \A i \in Items : p.items[i] = "CANCELLED" \/ ItemEnded(p, i)
               -> [p EXCEPT !.batch.status = "CANCELLED"]
          [] OTHER -> p

\* create, after its checks.
CreateBatch(d, p) ==
    Pump([d EXCEPT !.batch = [status |-> "ACTIVE", prep |-> p],
                   !.items = [i \in Items |-> "PENDING"]])

\* cancel: one transaction, then a look at all batches ...
StopBatch(d) ==
    IF d.batch.status # "ACTIVE" THEN d
    ELSE [d EXCEPT !.batch.status = "CANCELLING",
                   !.items = [i \in Items |-> IF @[i] = "PENDING" THEN "CANCELLED" ELSE @[i]]]

\* ... and the route around it, which then cancels the jobs there are.  The
\* events of these jobs find the batch cancelling: one look after all is enough.
CancelBatch(d) ==
    LET c == IF d.batch.status # "ACTIVE" THEN d ELSE OnJobStatusChanged(StopBatch(d))
        live == {s \in ItemJobs : c.jobs[s].status \in Live}
    IN  IF live = {} THEN c ELSE OnJobStatusChanged(CancelJobs(c, live))

\* isDeletable, collectDeletionPlan: the batch and its jobs have ended, and no
\* experiment refers to them.
BatchDeletable(d) ==
    /\ d.batch.status \in Ended
    /\ \A i \in Items : JobEnded(d, Item(i)) /\ ~ IsOfExperiment(d, Item(i))

WithoutBatch(d) ==
    [d EXCEPT !.batch = NoBatch, !.valid = TRUE,
              !.items = [i \in Items |-> "NONE"],
              !.jobs = [s \in Slots |-> IF s \in ItemJobs THEN NoJob ELSE d.jobs[s]]]

DeleteBatch(d) == Collect(WithoutBatch(d))

\* deleteSourceJob: a job, and with it the batches made from it.
JobDeletable(d, s) ==
    /\ d.jobs[s].status \in Ended
    /\ ~ IsOfExperiment(d, s)
    /\ s = Source /\ d.batch.status # "NONE" => BatchDeletable(d)

DeleteJob(d, s) ==
    LET b == IF s = Source THEN WithoutBatch(d) ELSE d
    IN  Collect([b EXCEPT !.jobs[s] = NoJob])
=============================================================================
