---------------------------- MODULE AgentClient -----------------------------
(***************************************************************************)
(* What a device keeps (AgentClient in src/agent/client.ts), and how its   *)
(* handlers change it.  A device d is a record:                            *)
(*   on        the process runs                                            *)
(*   version   the agentVersion of the image it runs                       *)
(*   link      its connection: down, open (HELLO sent), ready (WELCOME)    *)
(*   updating  UPDATE_REQUIRED was received; it ends with the process      *)
(*   runs      the map "running" and the completions in "finishing"        *)
(*   outbox    the map of that name: what the server has not confirmed     *)
(*   disk      the outbox.json files, which a new process reads            *)
(* Both maps are keyed by job and attempt, that is by lease.               *)
(*                                                                         *)
(* A run r has the lease, "until" (lease.leaseExpiresAtMs - now as far as  *)
(* the device knows, in ticks), "stop" (why it was cancelled) and "phase": *)
(* computing, or hashing the result after the child has exited.            *)
(***************************************************************************)
EXTENDS Integers, SequencesExt

Reason == {"none", "expired", "server"}
Reports == {"ARTIFACT", "FAILED", "CANCELLED"}

NoDevice == [on |-> FALSE, version |-> 0, link |-> "down", updating |-> FALSE,
             runs |-> {}, outbox |-> {}, disk |-> {}]

LeasesOf(records) == {x.lease : x \in records}

Without(records, l) == {x \in records : x.lease # l}

\* Map.set of the entries e: an older entry of the same key is replaced.
Overwrite(records, entries) ==
    {x \in records : x.lease \notin LeasesOf(entries)} \cup entries

-----------------------------------------------------------------------------
(* The process.                                                            *)

\* restoreOutbox: what was not saved is gone, and so is every computation.
Start(d, version) ==
    [NoDevice EXCEPT !.on = TRUE, !.version = version, !.outbox = d.disk, !.disk = d.disk]

\* stop() lets the hashes in progress end and be saved; a kill does not.
End(d, hashed) ==
    [NoDevice EXCEPT !.version = d.version,
       !.disk = Overwrite(d.disk, {[lease |-> r.lease, report |-> "ARTIFACT"] : r \in hashed})]

-----------------------------------------------------------------------------
(* The outbox.                                                             *)

\* queueOutbox, as far as memory goes; Saved is persistOutbox.
Queue(d, l, report) ==
    [d EXCEPT !.runs = Without(@, l),
              !.outbox = Overwrite(@, {[lease |-> l, report |-> report]})]

Saved(d, entries) == [d EXCEPT !.disk = Overwrite(@, entries)]

Acknowledge(d, l) ==
    IF l \in LeasesOf(d.outbox)
    THEN [d EXCEPT !.outbox = Without(@, l), !.disk = Without(@, l)]
    ELSE d

-----------------------------------------------------------------------------
(* Messages from the server.                                               *)

NewRun(l, until) == [lease |-> l, until |-> until, stop |-> "none", phase |-> "computing"]

Knows(d, l) == l \in LeasesOf(d.runs) \cup LeasesOf(d.outbox)

\* JOB: a lease it works on or reports already is not taken twice.
TakeJob(d, l, until) ==
    IF Knows(d, l) THEN d ELSE [d EXCEPT !.runs = @ \cup {NewRun(l, until)}]

\* cancel() once only: the first reason stays.
Stopped(r, reason) == [r EXCEPT !.stop = IF @ = "none" THEN reason ELSE @]

\* An expiry that has passed, and that of a message without one.
Gone == -1

\* Mutant: only a refusal stops the child.
RenewedUncancelled(r, m) ==
    [(IF m.accepted THEN r ELSE Stopped(r, "server"))
        EXCEPT !.until = IF m.until = Gone THEN @ ELSE m.until]

\* LEASE, for a run: the server's expiry is taken over, and a refusal or a
\* cancellation stops the child.
Renewed(r, m) ==
    [(IF m.accepted /\ ~ m.cancel THEN r ELSE Stopped(r, "server"))
        EXCEPT !.until = IF m.until = Gone THEN @ ELSE m.until]

RenewRuns(d, m) ==
    [d EXCEPT !.runs = {IF r.lease = m.lease /\ r.phase = "computing" THEN Renewed(r, m) ELSE r
                          : r \in @}]

\* Mutant: every answer to a heartbeat ends what the outbox holds.
HearLeaseAsAck(d, m) == Acknowledge(RenewRuns(d, m), m.lease)

\* LEASE, also for the outbox: a refusal ends the report.
HearLease(d, m) ==
    IF m.accepted THEN RenewRuns(d, m) ELSE Acknowledge(RenewRuns(d, m), m.lease)

\* UPDATE_REQUIRED: every child is cancelled, nothing is reported any more.
BeginUpdate(d) ==
    [d EXCEPT !.link = "open", !.updating = TRUE,
              !.runs = {IF r.phase = "computing" THEN Stopped(r, "server") ELSE r : r \in @}]

\* update(), once the children and uploads have ended.
ForgetReports(d) == [d EXCEPT !.outbox = {}, !.disk = {e \in @ : e.lease \notin LeasesOf(d.outbox)}]

-----------------------------------------------------------------------------
(* What it sends.                                                          *)

Beat(l) == [type |-> "HEARTBEAT", lease |-> l]
Final(e) == [type |-> "FINISH", lease |-> e.lease, outcome |-> e.report]

\* heartbeat(): the runs, then the outbox; a result's lease is kept alive
\* until it is uploaded.
Beats(d) ==
    IF d.link # "ready" THEN <<>>
    ELSE SetToSeq({Beat(r.lease) : r \in {x \in d.runs : x.phase = "computing"}})
         \o SetToSeq({IF e.report = "ARTIFACT" THEN Beat(e.lease) ELSE Final(e) : e \in d.outbox})

\* The results heartbeat() uploads, one request per result at a time.
ToUpload(d) ==
    IF d.link = "ready" THEN LeasesOf({e \in d.outbox : e.report = "ARTIFACT"}) ELSE {}

\* classifyWorker, as far as the server learns of it: a child that was told
\* to stop is reported as CANCELLED, whoever wanted it to stop (or as FAILED,
\* when it had outgrown its memory); another one as what it came to.
ReportsOf(r) ==
    IF r.stop = "none" THEN {"ARTIFACT", "FAILED"} ELSE {"CANCELLED", "FAILED"}
=============================================================================
