------------------------ MODULE BacktestLeaseProofs -------------------------
(***************************************************************************)
(* Proofs about BacktestLease, for every number of jobs, agents, attempts, *)
(* uploads and retries and every length of the leases.                     *)
(*                                                                         *)
(* Every action writes rows only through the statements of JobQueue, so    *)
(* the proof goes through one relation, RowMove(j): what a step may do to  *)
(* one row.  RowMoves shows that every step makes only such moves; what is *)
(* said of single rows (most of IInv, the action properties, the           *)
(* refinement) then follows without looking at the actions again.          *)
(***************************************************************************)
EXTENDS BacktestLease, TLAPS

-----------------------------------------------------------------------------
(* What one step may do to the row of j.                                   *)

Becomes(j, r) == rows'[j] = r /\ issued'[j] = issued[j]

Stays(j)    == Becomes(j, rows[j])
Enqueued(j) == rows[j].status = "NONE" /\ Becomes(j, Enqueue(rows[j]))
Asked(j)    == /\ up
               /\ rows[j].status \in Cancellable
               /\ Becomes(j, [rows[j] EXCEPT !.status = CancelStatus(rows[j].status)])
Removed(j)  == rows[j].status \in Terminal /\ Becomes(j, Delete(rows[j]))

Claimed(j) ==
    /\ Claimable(rows[j])
    /\ issued[j] < MaxAttempts
    /\ issued'[j] = issued[j] + 1
    /\ \E a \in Agents :
         /\ rows'[j] = Claim(rows[j], a, issued'[j], LeaseTicks)
         /\ [job |-> j, attempt |-> rows'[j].attempt, token |-> issued'[j], agent |-> a]
              \in granted'

Extended(j) ==
    \E l \in granted, ttl \in {LeaseTicks, TransferTicks} :
        l.job = j /\ CanHeartbeat(rows[j], l) /\ Becomes(j, Heartbeat(rows[j], ttl))

Reported(j) ==
    \E l \in granted, outcome \in {"FAILED", "CANCELLED"} :
        l.job = j /\ CanFinish(rows[j], l) /\ Becomes(j, Finish(rows[j], outcome))

HandedBack(j) ==
    /\ rows[j].status \in Active
    /\ rows[j].agent # NoAgent
    /\ Becomes(j, HandBack(rows[j]))

Imported(j) ==
    \E l \in granted :
        /\ l.job = j
        /\ CanComplete(rows[j], l, TRUE)
        /\ Becomes(j, Complete(rows[j], l)) \/ Becomes(j, RejectIdentity(rows[j]))

GivenBack(j) ==
    /\ rows[j].status \in Active
    /\ rows[j].ttl = Expired
    /\ rows[j].agent # NoAgent
    /\ Becomes(j, Expire(rows[j], Snapshot(j)))

Disowned(j) == ~ up /\ up' /\ Becomes(j, Interrupt(rows[j]))

Ticked(j) == Tick /\ rows[j].ttl >= 0 /\ Becomes(j, [rows[j] EXCEPT !.ttl = @ - 1])

Written(j) ==
    \/ (up' => up) /\ \/ Stays(j)    \/ Enqueued(j) \/ Asked(j)    \/ Removed(j)
                      \/ Claimed(j)  \/ Extended(j) \/ Reported(j) \/ HandedBack(j)
                      \/ Imported(j) \/ GivenBack(j)
    \/ Disowned(j)

RowMove(j) == Written(j) \/ ((up' => up) /\ Ticked(j))

\* Every step but the clock's.
Work == UserNext \/ AgentNext \/ ServerNext \/ Crash \/ Boot

-----------------------------------------------------------------------------
LEMMA InitIInv == Init => IInv
  <1> SUFFICES ASSUME Init PROVE IInv
    OBVIOUS
  <1> USE BacktestLeaseAssumption, MaxFailuresAssumption
  <1>1. \A j \in Jobs : rows[j] \in Row /\ rows[j].attempt = 0 /\ rows[j].result = 0
           /\ rows[j].token = NoToken /\ rows[j].ttl = Expired /\ rows[j].failures = 0
           /\ rows[j].agent = NoAgent /\ rows[j].status \in {"NONE"} \cup Active
    BY DEF Init, Blank, Legacy, Row, Status, Active, Expired, NoToken, MaxTtl
  <1>2. TypeOK
    <2>1. rows \in [Jobs -> Row]
      BY <1>1 DEF Init
    <2>2. main \in [at : {"idle", "sweep", "cancel"}, seen : SUBSET Seen]
      BY DEF Init, Idle
    <2>3. issued \in [Jobs -> 0..MaxAttempts]
      BY DEF Init
    <2> QED BY <2>1, <2>2, <2>3 DEF Init, TypeOK
  <1>3. ResultOfLastLease /\ QueuedIsClaimable
    BY <1>1 DEF ResultOfLastLease, QueuedIsClaimable, Active
  <1>4. ActiveIsLeased
    BY <1>1 DEF Init, ActiveIsLeased
  <1>5. TokensAreFresh /\ ExpiryBelongsToToken /\ RetriesRemain /\ NewJobIsUnowned
    BY <1>1 DEF Init, TokensAreFresh, ExpiryBelongsToToken, RetriesRemain, NewJobIsUnowned
  <1>6. SeenIsCurrent /\ UploadsAreGranted /\ TransferKeepsLease /\ RenewalOutlivesTick
    BY DEF Init, Idle, SeenIsCurrent, UploadsAreGranted, TransferKeepsLease, RenewalOutlivesTick
  <1> QED BY <1>2, <1>3, <1>4, <1>5, <1>6 DEF IInv

-----------------------------------------------------------------------------
(* The actions that write one row, and those that write many.              *)

LEMMA OneRow ==
    ASSUME TypeOK, NEW k \in Jobs, NEW r, SetRow(k, r), issued' = issued,
           NEW j \in Jobs
    PROVE  IF j = k THEN Becomes(j, r) ELSE Stays(j)
  BY DEF TypeOK, SetRow, Becomes, Stays

LEMMA RowsStay ==
    ASSUME UNCHANGED <<rows, issued>>, NEW j \in Jobs
    PROVE  Stays(j)
  BY DEF Stays, Becomes

\* Each row is written by one statement of JobQueue at most.
LEMMA WorkWrites ==
    ASSUME IInv, Work
    PROVE  granted \subseteq granted' /\ \A j \in Jobs : Written(j)
  <1> USE DEF IInv
  <1>0. \A l \in granted : l.job \in Jobs /\ l.agent \in Agents
    BY DEF TypeOK, Lease
  <1>1. ASSUME NEW k \in Jobs, SubmitJob(k) \/ CancelRead(k) \/ DeleteJob(k)
        PROVE  granted \subseteq granted' /\ \A j \in Jobs : Written(j)
    <2>1. CASE SubmitJob(k)
      BY <2>1, OneRow DEF SubmitJob, Written, Enqueued, Ready
    <2>2. CASE CancelRead(k)
      BY <2>2, RowsStay DEF CancelRead, Written, Ready
    <2>3. CASE DeleteJob(k)
      BY <2>3, OneRow DEF DeleteJob, Written, Removed, Ready
    <2> QED BY <1>1, <2>1, <2>2, <2>3
  <1>2. ASSUME NEW a \in Agents, NEW k \in Jobs, ClaimJob(a, k)
        PROVE  granted \subseteq granted' /\ \A j \in Jobs : Written(j)
    <2>1. granted \subseteq granted' /\ up
      BY <1>2 DEF ClaimJob, Ready
    <2>2. \A j \in Jobs : j # k => Stays(j)
      BY <1>2 DEF ClaimJob, TypeOK, SetRow, Stays, Becomes
    <2>3. Claimed(k)
      BY <1>2 DEF ClaimJob, NewLease, TypeOK, SetRow, Claimed
    <2> QED BY <2>1, <2>2, <2>3 DEF Written
  <1>3. ASSUME NEW l \in granted, HeartbeatLease(l) \/ StartUpload(l)
        PROVE  granted \subseteq granted' /\ \A j \in Jobs : Written(j)
    <2>1. PICK ttl \in {LeaseTicks, TransferTicks} : SetRow(l.job, Heartbeat(rows[l.job], ttl))
      BY <1>3 DEF HeartbeatLease, StartUpload
    <2>2. CanHeartbeat(rows[l.job], l) /\ up /\ UNCHANGED <<issued, granted>>
      BY <1>3 DEF HeartbeatLease, StartUpload, Ready
    <2> QED BY <1>0, <2>1, <2>2, OneRow DEF Written, Extended
  <1>4. ASSUME NEW l \in granted, NEW outcome \in {"FAILED", "CANCELLED"},
               FinishLease(l, outcome)
        PROVE  granted \subseteq granted' /\ \A j \in Jobs : Written(j)
    BY <1>0, <1>4, OneRow DEF FinishLease, Written, Reported, Ready
  <1>5. ASSUME NEW l \in granted, DeferLease(l)
        PROVE  granted \subseteq granted' /\ \A j \in Jobs : Written(j)
    <2>1. rows[l.job].status \in Active /\ rows[l.job].agent # NoAgent
      BY <1>0, <1>5, BacktestLeaseAssumption DEF DeferLease, CanDefer, Owns, Active
    <2> QED BY <1>0, <1>5, <2>1, OneRow DEF DeferLease, Written, HandedBack, Ready
  <1>6. ASSUME NEW a \in Agents, InvalidateClient(a)
        PROVE  granted \subseteq granted' /\ \A j \in Jobs : Written(j)
    BY <1>6, BacktestLeaseAssumption
       DEF InvalidateClient, Written, HandedBack, Stays, Becomes, Ready
  <1>7. ASSUME CancelWrite \/ SweepSelect \/ SweepBusy
        PROVE  granted \subseteq granted' /\ \A j \in Jobs : Written(j)
    <2>1. CASE CancelWrite
      <3>1. PICK s \in main.seen :
              IF rows[s.job].status = s.status
              THEN SetRow(s.job, [rows[s.job] EXCEPT !.status = CancelStatus(s.status)])
              ELSE UNCHANGED rows
        BY <2>1 DEF CancelWrite
      <3>2. s.job \in Jobs /\ s.status \in Cancellable
        BY <2>1 DEF CancelWrite, SeenIsCurrent, TypeOK, Seen
      <3>3. up /\ UNCHANGED <<issued, granted>>
        BY <2>1 DEF CancelWrite
      <3> QED BY <3>1, <3>2, <3>3, OneRow, RowsStay DEF Written, Asked
    <2>2. CASE SweepSelect \/ SweepBusy
      BY <2>2, RowsStay DEF SweepSelect, SweepBusy, Ready, Written
    <2> QED BY <1>7, <2>1, <2>2
  <1>8. ASSUME SweepApply
        PROVE  granted \subseteq granted' /\ \A j \in Jobs : Written(j)
    <2> SUFFICES ASSUME NEW j \in Jobs PROVE Written(j)
      BY <1>8 DEF SweepApply
    <2> DEFINE mine == {s \in main.seen : s.job = j /\ CanExpire(rows[j], s)}
    <2>1. rows'[j] = IF mine # {} THEN Expire(rows[j], CHOOSE s \in mine : TRUE) ELSE rows[j]
      BY <1>8 DEF SweepApply, Swept
    <2>2. up /\ UNCHANGED issued
      BY <1>8 DEF SweepApply
    <2>3. CASE mine = {}
      BY <2>1, <2>2, <2>3 DEF Written, Stays, Becomes
    <2>4. CASE mine # {}
      <3> DEFINE s == CHOOSE x \in mine : TRUE
      <3>1. s \in main.seen /\ s.job = j /\ CanExpire(rows[j], s)
        BY <2>4
      <3>2. Snapshot(j) = s
        BY <1>8, <3>1 DEF SweepApply, SeenIsCurrent, CanExpire
      <3>3. rows[j].agent # NoAgent
        BY <1>0, <2>2, <3>1, BacktestLeaseAssumption DEF ActiveIsLeased, CanExpire
      <3> QED BY <2>1, <2>2, <2>4, <3>1, <3>2, <3>3 DEF Written, GivenBack, CanExpire, Becomes
    <2> QED BY <2>3, <2>4
  <1>9. ASSUME NEW u \in uploads,
               \/ RenewUpload(u) \/ RenewUploadBusy(u)
               \/ StartImport(u) \/ CommitImport(u) \/ AbortUpload(u)
        PROVE  granted \subseteq granted' /\ \A j \in Jobs : Written(j)
    <2>0. u.lease \in granted /\ u.live \in BOOLEAN
      BY DEF UploadsAreGranted, TypeOK, Upload
    <2>1. CASE RenewUpload(u)
      BY <1>0, <2>0, <2>1, OneRow, RowsStay DEF RenewUpload, RenewalDue, Written, Extended, Ready
    <2>2. CASE RenewUploadBusy(u) \/ StartImport(u) \/ AbortUpload(u)
      BY <2>2, RowsStay DEF RenewUploadBusy, StartImport, AbortUpload, Written
    <2>3. CASE CommitImport(u)
      BY <1>0, <2>0, <2>3, OneRow, RowsStay DEF CommitImport, Written, Imported, CanComplete
    <2> QED BY <1>9, <2>1, <2>2, <2>3
  <1>10. ASSUME Crash
         PROVE  granted \subseteq granted' /\ \A j \in Jobs : Written(j)
    BY <1>10, RowsStay DEF Crash, Written
  <1>11. ASSUME Boot
         PROVE  granted \subseteq granted' /\ \A j \in Jobs : Written(j)
    BY <1>11 DEF Boot, Written, Disowned, Becomes
  <1> QED BY <1>1, <1>2, <1>3, <1>4, <1>5, <1>6, <1>7, <1>8, <1>9, <1>10, <1>11
          DEF Work, UserNext, AgentNext, ServerNext

\* Whatever the step, each row is moved as RowMove says.
LEMMA RowMoves ==
    ASSUME IInv, Next
    PROVE  granted \subseteq granted' /\ \A j \in Jobs : RowMove(j)
  <1>1. CASE Work
    BY <1>1, WorkWrites DEF RowMove
  <1>2. CASE Tick
    BY <1>2 DEF Tick, RowMove, Written, Ticked, Stays, Becomes, IInv, TypeOK
  <1> QED BY <1>1, <1>2 DEF Next, Work

-----------------------------------------------------------------------------
(* The conjuncts of IInv that speak of single rows.                        *)

\* What IInv says of the row of j.
RowInv(j) ==
    /\ rows[j] \in Row
    /\ issued[j] \in 0..MaxAttempts
    /\ rows[j].status = "COMPLETED" <=> rows[j].result # 0
    /\ rows[j].result \in {0, rows[j].attempt}
    /\ IF rows[j].status \in Active /\ (up \/ rows[j].agent # NoAgent)
       THEN [job |-> j, attempt |-> rows[j].attempt, token |-> rows[j].token,
             agent |-> rows[j].agent] \in granted
       ELSE rows[j].token = NoToken
    /\ rows[j].status = "QUEUED" => rows[j].failures < MaxFailures /\ rows[j].agent = NoAgent
    /\ rows[j].attempt = issued[j]
    /\ rows[j].token = NoToken => rows[j].ttl = Expired
    /\ rows[j].status \in {"NONE", "QUEUED"} \cup Active => rows[j].failures < MaxFailures
    /\ rows[j].status = "NONE" => rows[j].agent = NoAgent

LEMMA RowInvs == ASSUME IInv PROVE \A j \in Jobs : RowInv(j)
  BY DEF IInv, TypeOK, ResultOfLastLease, ActiveIsLeased, QueuedIsClaimable,
         TokensAreFresh, ExpiryBelongsToToken, RetriesRemain,
         NewJobIsUnowned, RowInv

\* A move of JobQueue keeps what is said of the row.
LEMMA RowMoveKeepsRowInv ==
    ASSUME IInv, Next, NEW j \in Jobs
    PROVE  RowInv(j)'
  <1> DEFINE r == rows[j]
             x == rows'[j]
             SameCounts == x.attempt = r.attempt /\ x.failures = r.failures /\ x.result = r.result
             Freed == x.token = NoToken /\ x.ttl = Expired
  <1>0. RowInv(j) /\ RowMove(j) /\ granted \subseteq granted' /\ up \in BOOLEAN /\ r \in Row
    BY RowInvs, RowMoves DEF IInv, TypeOK
  <1>c. /\ Expired = -1 /\ NoToken = 0
        /\ MaxTtl \in Nat /\ LeaseTicks \in 1..MaxTtl /\ TransferTicks \in 1..MaxTtl
        /\ MaxFailures \in Nat \ {0} /\ MaxAttempts \in Nat /\ NoAgent \notin Agents
    BY BacktestLeaseAssumption, MaxFailuresAssumption DEF Expired, NoToken, MaxTtl
  <1>g. \A l \in granted : l.agent \in Agents /\ l.token = l.attempt /\ l.attempt \in 1..MaxAttempts
    BY DEF IInv, TypeOK, TokensAreFresh, Lease
  <1>t. /\ r.status \in Status /\ r.attempt \in Nat /\ r.attempt <= MaxAttempts
        /\ r.failures \in Nat /\ r.failures <= MaxFailures /\ r.result \in Nat
        /\ r.ttl \in Int /\ r.ttl <= MaxTtl
    BY <1>0, <1>c DEF Row
  <1>s. /\ \A s \in Active \cup Terminal \cup {"QUEUED", "DELETED"} : s \in Status
        /\ 0 \in 0..MaxAttempts /\ 0 \in 0..MaxFailures /\ NoToken \in 0..MaxAttempts
        /\ Expired \in Expired..MaxTtl /\ LeaseTicks \in Expired..MaxTtl
        /\ TransferTicks \in Expired..MaxTtl
    BY <1>c DEF Status
  <1>1. CASE (up' => up) /\ Stays(j)
    BY <1>0, <1>s, <1>1, <1>c, <1>g DEF Stays, Becomes, RowInv
  <1>2. CASE (up' => up) /\ Enqueued(j)
    <2>1. x \in Row /\ x.status = "QUEUED" /\ SameCounts /\ x.token = r.token
          /\ x.ttl = r.ttl /\ x.agent = r.agent
      BY <1>0, <1>s, <1>2 DEF Enqueued, Becomes, Enqueue, Row
    <2>2. r.agent = NoAgent
      BY <1>0, <1>2 DEF RowInv, Enqueued
    <2> QED BY <1>0, <1>2, <2>1, <2>2 DEF RowInv, Enqueued, Becomes, Active
  <1>3. CASE (up' => up) /\ Asked(j)
    <2>1. x \in Row /\ x.status = CancelStatus(r.status) /\ SameCounts /\ x.token = r.token
          /\ x.ttl = r.ttl /\ x.agent = r.agent
      BY <1>0, <1>s, <1>3 DEF Asked, Becomes, CancelStatus, Row, Active, Terminal
    <2> QED BY <1>0, <1>c, <1>g, <1>3, <2>1 DEF RowInv, Asked, Becomes, Active, Cancellable, CancelStatus
  <1>4. CASE (up' => up) /\ Removed(j)
    <2>1. x \in Row /\ x.status = "DELETED" /\ x.attempt = r.attempt /\ x.result = 0
          /\ x.token = r.token /\ x.ttl = r.ttl
      BY <1>0, <1>s, <1>4, <1>c DEF Removed, Becomes, Delete, Row
    <2> QED BY <1>0, <1>4, <2>1 DEF RowInv, Removed, Becomes, Active, Terminal
  <1>5. CASE (up' => up) /\ Claimed(j)
    <2>1. PICK a \in Agents :
            /\ x = Claim(r, a, issued'[j], LeaseTicks)
            /\ [job |-> j, attempt |-> x.attempt, token |-> issued'[j], agent |-> a] \in granted'
      BY <1>5 DEF Claimed
    <2>2. issued[j] = r.attempt /\ issued'[j] = issued[j] + 1 /\ issued'[j] \in 1..MaxAttempts
      BY <1>0, <1>s, <1>5, <1>t, <1>c DEF Claimed, RowInv
    <2>a. "STARTING" \in Status /\ r.attempt + 1 = issued'[j] /\ issued'[j] \in 0..MaxAttempts
      BY <1>c, <1>s, <2>2 DEF Active
    <2>3. x \in Row /\ x.status = "STARTING" /\ x.attempt = issued'[j] /\ x.token = issued'[j]
          /\ x.agent = a /\ x.ttl = LeaseTicks /\ x.failures = r.failures /\ x.result = r.result
      BY <1>0, <1>s, <2>1, <2>2, <2>a DEF Claim, Row
    <2>4. r.status = "QUEUED" /\ r.failures < MaxFailures
      BY <1>5 DEF Claimed, Claimable
    <2>5. x.result = 0
      BY <1>0, <1>s, <2>3, <2>4 DEF RowInv
    <2> QED BY <1>0, <1>c, <2>1, <2>2, <2>3, <2>4, <2>5 DEF RowInv, Active
  <1>6. CASE (up' => up) /\ Extended(j)
    <2>1. PICK l \in granted, ttl \in {LeaseTicks, TransferTicks} :
            CanHeartbeat(r, l) /\ Becomes(j, Heartbeat(r, ttl))
      BY <1>6 DEF Extended
    <2>2. r.status \in Active /\ r.token # NoToken
      BY <2>1, <1>c, <1>g DEF CanHeartbeat, LiveLease, SameLease
    <2> DEFINE s == IF r.status = "STARTING" THEN "RUNNING" ELSE r.status
    <2>a. s \in Active /\ s \in Status /\ s # "NONE" /\ ttl \in Expired..MaxTtl
      BY <1>s, <2>2 DEF Active
    <2>b. x = [r EXCEPT !.status = s, !.ttl = ttl]
      BY <1>0, <2>1 DEF Becomes, Heartbeat, Row
    <2> HIDE DEF s
    <2>3. x \in Row /\ x.status \in Active /\ SameCounts /\ x.token = r.token /\ x.agent = r.agent
      BY <1>0, <2>a, <2>b DEF Row
    <2> QED BY <1>0, <1>c, <1>g, <1>6, <2>1, <2>2, <2>3 DEF RowInv, Becomes, Active
  <1>7. CASE (up' => up) /\ Reported(j)
    <2>1. PICK outcome \in {"FAILED", "CANCELLED"} :
            r.status \in Active /\ Becomes(j, Finish(r, outcome))
      BY <1>7 DEF Reported, CanFinish
    <2>2. x \in Row /\ x.status \in {"FAILED", "CANCELLED"} /\ SameCounts /\ Freed
      BY <1>0, <1>s, <1>c, <2>1 DEF Becomes, Finish, Release, Row, Terminal
    <2> QED BY <1>0, <1>7, <2>1, <2>2 DEF RowInv, Becomes, Active
  <1>8. CASE (up' => up) /\ HandedBack(j)
    <2>1. x \in Row /\ x.status \in {"QUEUED", "CANCELLED"} /\ SameCounts /\ Freed /\ x.agent = NoAgent
      BY <1>0, <1>s, <1>c, <1>8 DEF HandedBack, Becomes, HandBack, ReleaseOwner, Release, Row, Terminal
    <2> QED BY <1>0, <1>8, <2>1 DEF RowInv, HandedBack, Becomes, Active
  <1>9. CASE (up' => up) /\ Imported(j)
    <2>1. PICK l \in granted :
            /\ CanComplete(r, l, TRUE)
            /\ Becomes(j, Complete(r, l)) \/ Becomes(j, RejectIdentity(r))
      BY <1>9 DEF Imported
    <2>2. r.status \in {"STARTING", "RUNNING"} /\ l.attempt = r.attempt /\ r.attempt # 0
      BY <2>1, <1>g DEF CanComplete, SameLease
    <2>3. CASE Becomes(j, Complete(r, l))
      <3>1. x \in Row /\ x.status = "COMPLETED" /\ x.attempt = r.attempt /\ x.result = r.attempt
            /\ Freed
        BY <1>0, <1>s, <1>c, <2>2, <2>3 DEF Becomes, Complete, Release, Row, Terminal
      <3> QED BY <1>0, <1>t, <1>9, <2>2, <2>3, <3>1 DEF RowInv, Becomes, Active
    <2>4. CASE Becomes(j, RejectIdentity(r))
      <3>1. x \in Row /\ x.status = "FAILED" /\ SameCounts /\ Freed
        BY <1>0, <1>s, <1>c, <2>4 DEF Becomes, RejectIdentity, Release, Row, Terminal
      <3> QED BY <1>0, <1>9, <2>2, <2>4, <3>1 DEF RowInv, Becomes, Active
    <2> QED BY <2>1, <2>3, <2>4
  <1>10. CASE (up' => up) /\ GivenBack(j)
    <2>1. r.failures < MaxFailures
      BY <1>0, <1>s, <1>10 DEF GivenBack, RowInv
    <2> DEFINE s == ExpiryStatus(Snapshot(j))
    <2>a. s \in Status /\ r.failures + 1 \in 0..MaxFailures
      BY <1>c, <1>s, <1>t, <2>1 DEF ExpiryStatus, Snapshot, Terminal
    <2>b. x = Expire(r, Snapshot(j))
      BY <1>10 DEF GivenBack, Becomes
    <2> HIDE DEF s
    <2>2. x \in Row /\ x.status = s /\ x.attempt = r.attempt
          /\ x.result = r.result /\ x.failures = r.failures + 1 /\ Freed
          /\ (x.status = "QUEUED" => x.agent = NoAgent)
      <3>1. CASE s = "QUEUED"
        BY <1>0, <1>s, <1>c, <2>a, <2>b, <3>1 DEF Expire, Release, Row, s
      <3>2. CASE s # "QUEUED"
        BY <1>0, <1>s, <1>c, <2>a, <2>b, <3>2 DEF Expire, Release, Row, s
      <3> QED BY <3>1, <3>2
    <2>3. /\ x.status \in {"QUEUED", "CANCELLED", "FAILED"}
          /\ x.status = "QUEUED" => r.failures + 1 < MaxFailures
      BY <1>c, <1>t, <2>2 DEF ExpiryStatus, Snapshot, s
    <2> QED BY <1>0, <1>10, <2>1, <2>2, <2>3 DEF RowInv, GivenBack, Becomes, Active
  <1>11. CASE (up' => up) /\ Ticked(j)
    <2>1. x \in Row /\ x.status = r.status /\ SameCounts /\ x.token = r.token /\ x.agent = r.agent
          /\ r.token # NoToken
      BY <1>0, <1>s, <1>c, <1>t, <1>11 DEF Ticked, Becomes, Row, RowInv
    <2> QED BY <1>0, <1>c, <1>g, <1>11, <2>1 DEF RowInv, Ticked, Becomes
  <1>12. CASE Disowned(j)
    <2>1. CASE IsUnleased(r)
      <3>1. x \in Row /\ x.status = "INTERRUPTED" /\ SameCounts /\ x.token = r.token /\ x.ttl = r.ttl
        BY <1>0, <1>s, <1>12, <2>1 DEF Disowned, Interrupt, Becomes, Row, Terminal
      <3> QED BY <1>0, <1>12, <2>1, <3>1 DEF RowInv, Disowned, IsUnleased, Becomes, Active
    <2>2. CASE ~ IsUnleased(r)
      BY <1>0, <1>s, <1>12, <2>2 DEF Disowned, Interrupt, IsUnleased, Becomes, RowInv
    <2> QED BY <2>1, <2>2
  <1> QED BY <1>0, <1>1, <1>2, <1>3, <1>4, <1>5, <1>6, <1>7, <1>8, <1>9, <1>10, <1>11, <1>12
          DEF RowMove, Written

-----------------------------------------------------------------------------
(* The conjuncts of IInv that speak of leases, uploads and the main        *)
(* process.                                                                *)

\* A lease that a row carries after a write is one it carried before, and
\* its expiry is left alone, or pushed forward while it is alive.
LEMMA LeaseWritten ==
    ASSUME IInv, NEW l \in granted, Written(l.job), SameLease(rows'[l.job], l)
    PROVE  /\ SameLease(rows[l.job], l)
           /\ \/ rows'[l.job].ttl = rows[l.job].ttl
              \/ rows[l.job].ttl >= 0 /\ rows'[l.job].ttl >= LeaseTicks
  <1> DEFINE j == l.job
             r == rows[j]
             x == rows'[j]
  <1>0. /\ j \in Jobs /\ RowInv(j) /\ Written(j) /\ r \in Row
        /\ l.token = l.attempt /\ l.attempt \in 1..MaxAttempts /\ l.attempt <= issued[j]
    BY RowInvs DEF IInv, TypeOK, TokensAreFresh, Lease
  <1>1. x.attempt = l.attempt /\ x.token = l.token /\ l.token # NoToken /\ r.attempt \in Nat
        /\ r.attempt = issued[j]
    BY <1>0 DEF SameLease, NoToken, RowInv, Row
  <1>2. CASE Stays(j)
    BY <1>2, <1>1 DEF Stays, Becomes, SameLease
  <1>3. CASE Enqueued(j) \/ Asked(j)
    BY <1>3, <1>1, <1>0 DEF Enqueued, Asked, Enqueue, Becomes, SameLease, Row
  <1>4. CASE Removed(j)
    <2>1. r.token = NoToken /\ x.token = r.token
      BY <1>0, <1>4 DEF Removed, RowInv, Active, Terminal, Becomes, Delete, Row
    <2> QED BY <2>1, <1>1
  <1>5. CASE Claimed(j)
    <2>1. x.attempt = r.attempt + 1
      BY <1>0, <1>5 DEF Claimed, Claim, Row
    <2> QED BY <2>1, <1>0, <1>1
  <1>6. CASE Extended(j)
    BY <1>6, <1>1, <1>0, BacktestLeaseAssumption
       DEF Extended, CanHeartbeat, LiveLease, Heartbeat, Becomes, SameLease, Row
  <1>7. CASE Reported(j) \/ HandedBack(j) \/ Imported(j) \/ GivenBack(j)
    <2>1. x.token = NoToken
      <3>1. CASE Reported(j)
        BY <1>0, <3>1 DEF Reported, Becomes, Finish, Release, Row
      <3>2. CASE HandedBack(j)
        BY <1>0, <3>2 DEF HandedBack, Becomes, HandBack, ReleaseOwner, Release, Row
      <3>3. CASE Imported(j)
        BY <1>0, <3>3 DEF Imported, Becomes, Complete, RejectIdentity, Release, Row
      <3>4. CASE GivenBack(j)
        BY <1>0, <3>4 DEF GivenBack, Becomes, Expire, Release, Row
      <3> QED BY <1>7, <3>1, <3>2, <3>3, <3>4
    <2> QED BY <2>1, <1>1
  <1>8. CASE Disowned(j)
    BY <1>8, <1>1, <1>0 DEF Disowned, Interrupt, Becomes, SameLease, Row
  <1> QED BY <1>0, <1>2, <1>3, <1>4, <1>5, <1>6, <1>7, <1>8 DEF Written

\* With the clock, the expiry comes nearer.
LEMMA LeaseStep ==
    ASSUME IInv, Next, NEW l \in granted, SameLease(rows'[l.job], l)
    PROVE  /\ SameLease(rows[l.job], l)
           /\ \/ rows'[l.job].ttl = rows[l.job].ttl
              \/ rows[l.job].ttl >= 0 /\ rows'[l.job].ttl >= LeaseTicks
              \/ Tick /\ rows[l.job].ttl >= 0 /\ rows'[l.job].ttl = rows[l.job].ttl - 1
  <1>1. l.job \in Jobs /\ RowMove(l.job) /\ rows[l.job] \in Row
    BY RowMoves DEF IInv, TypeOK, Lease
  <1>2. CASE Written(l.job)
    BY <1>2, LeaseWritten
  <1>3. CASE Ticked(l.job)
    BY <1>1, <1>3 DEF Ticked, Becomes, SameLease, Row
  <1> QED BY <1>1, <1>2, <1>3 DEF RowMove

LEMMA NextKeepsRows ==
    ASSUME IInv, Next
    PROVE  /\ rows' \in [Jobs -> Row]
           /\ issued' \in [Jobs -> 0..MaxAttempts]
           /\ \A j \in Jobs : RowInv(j)'
  <1>1. \A j \in Jobs : RowInv(j)'
    BY RowMoveKeepsRowInv
  <1>2. rows' = [j \in Jobs |-> rows'[j]] /\ issued' = [j \in Jobs |-> issued'[j]]
    BY DEF IInv, TypeOK, Next, UserNext, AgentNext, ServerNext, SubmitJob, CancelRead, DeleteJob,
           ClaimJob, HeartbeatLease, FinishLease, DeferLease, StartUpload, InvalidateClient,
           CancelWrite, SweepSelect, SweepApply, SweepBusy, RenewUpload, RenewUploadBusy, StartImport,
           CommitImport, AbortUpload, Crash, Boot, Tick, SetRow
  <1> QED BY <1>1, <1>2 DEF RowInv

LEMMA NextKeepsGranted ==
    ASSUME IInv, Next
    PROVE  granted' \subseteq Lease /\ TokensAreFresh'
  <1>1. \A j \in Jobs : RowMove(j)
    BY RowMoves
  <1>2. \A j \in Jobs : /\ issued[j] \in Nat /\ issued'[j] \in Nat
                        /\ rows[j].attempt = issued[j] /\ rows'[j].attempt = issued'[j]
    <2>1. ASSUME NEW j \in Jobs
          PROVE  issued[j] \in Nat /\ rows[j].attempt = issued[j]
      <3>1. RowInv(j)
        BY RowInvs
      <3> QED BY <3>1, BacktestLeaseAssumption DEF RowInv
    <2>2. ASSUME NEW j \in Jobs
          PROVE  issued'[j] \in Nat /\ rows'[j].attempt = issued'[j]
      <3>1. RowInv(j)'
        BY NextKeepsRows
      <3> QED BY <3>1, BacktestLeaseAssumption DEF RowInv
    <2> QED BY <2>1, <2>2
  <1>3. \A j \in Jobs : issued'[j] = issued[j] \/ issued'[j] = issued[j] + 1
    BY <1>1 DEF RowMove, Written, Stays, Enqueued, Asked, Removed, Claimed, Extended, Reported, HandedBack,
                Imported, GivenBack, Ticked, Disowned, Becomes
  <1>4. \A l \in granted : /\ l \in Lease /\ l.job \in Jobs /\ l.attempt \in Nat
                           /\ l.token = l.attempt /\ l.attempt <= issued'[l.job]
    <2> SUFFICES ASSUME NEW l \in granted
                 PROVE  /\ l \in Lease /\ l.job \in Jobs /\ l.attempt \in Nat
                        /\ l.token = l.attempt /\ l.attempt <= issued'[l.job]
      OBVIOUS
    <2>1. l \in Lease /\ l.token = l.attempt /\ l.attempt <= issued[l.job]
      BY DEF IInv, TypeOK, TokensAreFresh
    <2>2. l.job \in Jobs /\ l.attempt \in Nat
      BY <2>1, BacktestLeaseAssumption DEF Lease
    <2> QED BY <1>2, <1>3, <2>1, <2>2
  <1>a. CASE granted' = granted
    BY <1>2, <1>4, <1>a DEF TokensAreFresh
  <1>b. ASSUME NEW a \in Agents, NEW k \in Jobs, ClaimJob(a, k)
        PROVE  granted' \subseteq Lease /\ TokensAreFresh'
    <2> DEFINE new == [job |-> k, attempt |-> rows'[k].attempt, token |-> issued'[k], agent |-> a]
    <2>1. granted' = granted \cup {new}
      BY <1>b DEF ClaimJob, NewLease
    <2>2. rows'[k].attempt = issued'[k] /\ issued'[k] \in 1..MaxAttempts
      BY <1>2, <1>b, NextKeepsRows DEF ClaimJob, IInv, TypeOK
    <2>3. new \in Lease /\ new.token = new.attempt /\ new.attempt <= issued'[new.job]
      BY <1>2, <2>2 DEF Lease
    <2> HIDE DEF new
    <2> QED BY <1>2, <1>4, <2>1, <2>3 DEF TokensAreFresh
  <1>5. granted' = granted \/ \E a \in Agents, k \in Jobs : ClaimJob(a, k)
    BY DEF Next, UserNext, AgentNext, ServerNext, SubmitJob, CancelRead, DeleteJob,
           HeartbeatLease, FinishLease, DeferLease, StartUpload, InvalidateClient,
           CancelWrite, SweepSelect, SweepApply, SweepBusy, RenewUpload, RenewUploadBusy, StartImport,
           CommitImport, AbortUpload, Crash, Boot, Tick
  <1> QED BY <1>a, <1>b, <1>5

\* A renewal, successful or not, sets how many were missed.
LEMMA RenewalMisses ==
    ASSUME IInv, NEW u \in uploads, RenewUpload(u) \/ RenewUploadBusy(u)
    PROVE  \E n \in 0..LeaseTicks : Advance(u, [u EXCEPT !.renewed = TRUE, !.missed = n])
  <1>1. u \in Upload /\ u.missed \in 0..LeaseTicks /\ LeaseTicks \in Nat
    BY BacktestLeaseAssumption DEF IInv, TypeOK, Upload
  <1>2. [u EXCEPT !.renewed = TRUE] = [u EXCEPT !.renewed = TRUE, !.missed = u.missed]
    BY <1>1 DEF Upload
  <1>3. CASE RenewUpload(u)
    <2>1. \/ Advance(u, [u EXCEPT !.renewed = TRUE, !.missed = 0])
          \/ Advance(u, [u EXCEPT !.renewed = TRUE])
      BY <1>3 DEF RenewUpload
    <2>2. CASE Advance(u, [u EXCEPT !.renewed = TRUE, !.missed = 0])
      <3>1. 0 \in 0..LeaseTicks
        BY <1>1
      <3> QED BY <2>2, <3>1
    <2>3. CASE Advance(u, [u EXCEPT !.renewed = TRUE])
      <3>1. Advance(u, [u EXCEPT !.renewed = TRUE, !.missed = u.missed])
        BY <1>2, <2>3
      <3> QED BY <1>1, <3>1
    <2> QED BY <2>1, <2>2, <2>3
  <1>4. CASE RenewUploadBusy(u)
    <2> DEFINE n == IF u.missed < LeaseTicks THEN u.missed + 1 ELSE u.missed
    <2>1. n \in 0..LeaseTicks
      BY <1>1
    <2>2. Advance(u, [u EXCEPT !.renewed = TRUE, !.missed = n])
      BY <1>4 DEF RenewUploadBusy
    <2> QED BY <2>1, <2>2
  <1> QED BY <1>3, <1>4

LEMMA NextKeepsUploads ==
    ASSUME IInv, Next
    PROVE  uploads' \subseteq Upload /\ UploadsAreGranted'
  <1>0. /\ uploads \subseteq Upload /\ granted \subseteq granted' /\ granted \subseteq Lease
        /\ \A u \in uploads : u.lease \in granted /\ (~ up => u.stage = "orphan")
    BY RowMoves DEF IInv, TypeOK, UploadsAreGranted
  <1>1. CASE uploads' \subseteq uploads /\ (up => up')
    BY <1>0, <1>1 DEF UploadsAreGranted
  <1>2. ASSUME NEW l \in granted, StartUpload(l)
        PROVE  uploads' \subseteq Upload /\ UploadsAreGranted'
    <2>1. uploads' \subseteq uploads \cup {NewUpload(l)} /\ up' /\ up
      BY <1>2 DEF StartUpload, Ready
    <2>2. NewUpload(l) \in Upload /\ NewUpload(l).lease = l
      BY <1>0, BacktestLeaseAssumption DEF NewUpload, Upload, Stage
    <2> QED BY <1>0, <2>1, <2>2 DEF UploadsAreGranted
  <1>3. ASSUME NEW u \in uploads, RenewUpload(u) \/ RenewUploadBusy(u) \/ StartImport(u)
        PROVE  uploads' \subseteq Upload /\ UploadsAreGranted'
    <2>1. PICK v : Advance(u, v) /\ v \in Upload /\ v.lease = u.lease /\ up' /\ up
      <3>1. CASE RenewUpload(u) \/ RenewUploadBusy(u)
        <4>1. PICK n \in 0..LeaseTicks : Advance(u, [u EXCEPT !.renewed = TRUE, !.missed = n])
          BY <3>1, RenewalMisses
        <4> DEFINE v == [u EXCEPT !.renewed = TRUE, !.missed = n]
        <4>2. v \in Upload /\ v.lease = u.lease
          BY <1>0 DEF Upload
        <4>3. Advance(u, v)
          BY <4>1
        <4> HIDE DEF v
        <4> QED BY <3>1, <4>2, <4>3 DEF RenewUpload, RenewUploadBusy, RenewalDue, Ready
      <3>2. CASE StartImport(u)
        <4> DEFINE v == [u EXCEPT !.stage = "importing",
                                  !.live = LiveLease(rows[u.lease.job], u.lease)]
        <4>1. LiveLease(rows[u.lease.job], u.lease) \in BOOLEAN
          BY DEF LiveLease
        <4>2. v \in Upload /\ v.lease = u.lease
          BY <1>0, <4>1 DEF Upload, Stage
        <4> QED BY <3>2, <4>2 DEF StartImport
      <3> QED BY <1>3, <3>1, <3>2
    <2> QED BY <1>0, <2>1 DEF Advance, UploadsAreGranted
  <1>4. ASSUME Crash PROVE uploads' \subseteq Upload /\ UploadsAreGranted'
    <2>1. ASSUME NEW v \in uploads'
          PROVE  \E u \in uploads : v = [u EXCEPT !.stage = "orphan"]
      BY <1>4 DEF Crash
    <2>2. ASSUME NEW v \in uploads'
          PROVE  v \in Upload /\ v.lease \in granted /\ v.stage = "orphan"
      BY <1>0, <2>1 DEF Upload, Stage
    <2> QED BY <1>0, <2>2 DEF UploadsAreGranted
  <1>5. ASSUME Tick PROVE uploads' \subseteq Upload /\ UploadsAreGranted'
    <2>1. ASSUME NEW v \in uploads'
          PROVE  \E u \in uploads : v = [u EXCEPT !.renewed = FALSE]
      BY <1>5 DEF Tick
    <2>2. ASSUME NEW v \in uploads'
          PROVE  v \in Upload /\ v.lease \in granted /\ (~ up => v.stage = "orphan")
      <3>1. PICK u \in uploads : v = [u EXCEPT !.renewed = FALSE]
        BY <2>1
      <3>2. v \in Upload /\ v.lease = u.lease /\ v.stage = u.stage
        BY <1>0, <3>1 DEF Upload
      <3> QED BY <1>0, <3>2
    <2>3. up' = up
      BY <1>5 DEF Tick
    <2> QED BY <1>0, <2>2, <2>3 DEF UploadsAreGranted
  <1>6. \/ uploads' \subseteq uploads /\ (up => up')
        \/ \E l \in granted : StartUpload(l)
        \/ \E u \in uploads : RenewUpload(u) \/ RenewUploadBusy(u) \/ StartImport(u)
        \/ Crash \/ Tick
    BY DEF Next, UserNext, AgentNext, ServerNext, SubmitJob, CancelRead, DeleteJob,
           ClaimJob, HeartbeatLease, FinishLease, DeferLease, InvalidateClient,
           CancelWrite, SweepSelect, SweepApply, SweepBusy, CommitImport, AbortUpload, Boot
  <1> QED BY <1>1, <1>2, <1>3, <1>4, <1>5, <1>6

\* What the sweep and cancel() have read and not yet acted on.
MainTyped == up \in BOOLEAN /\ main \in [at : {"idle", "sweep", "cancel"}, seen : SUBSET Seen]

LEMMA SnapshotTyped ==
    ASSUME IInv, NEW j \in Jobs
    PROVE  Snapshot(j) \in Seen /\ Snapshot(j).job = j
  BY DEF IInv, TypeOK, Snapshot, Seen, Row

LEMMA NextKeepsMain ==
    ASSUME IInv, Next
    PROVE  MainTyped' /\ SeenIsCurrent'
  <1>0. MainTyped /\ SeenIsCurrent
    BY DEF IInv, TypeOK, MainTyped
  <1>1. ASSUME main' = Idle, up' \in BOOLEAN PROVE MainTyped' /\ SeenIsCurrent'
    BY <1>1 DEF MainTyped, SeenIsCurrent, Idle
  <1>2. ASSUME main' = main, up' = up,
               \A j \in Jobs : rows'[j].status \in Active =>
                 /\ rows'[j].status = rows[j].status
                 /\ rows'[j].attempt = rows[j].attempt
                 /\ rows'[j].failures = rows[j].failures
        PROVE  MainTyped' /\ SeenIsCurrent'
    <2>1. \A s \in main.seen : s.job \in Jobs
      BY <1>0 DEF MainTyped, Seen
    <2> QED BY <1>0, <1>2, <2>1 DEF MainTyped, SeenIsCurrent, Snapshot
  <1>3. ASSUME NEW k \in Jobs, CancelRead(k) PROVE MainTyped' /\ SeenIsCurrent'
    <2>1. Snapshot(k).status \in Cancellable
      BY <1>3 DEF CancelRead, Snapshot
    <2>2. main' = [at |-> "cancel", seen |-> {Snapshot(k)}] /\ up' = TRUE
      BY <1>0, <1>3 DEF CancelRead, Ready, MainTyped
    <2> QED BY <2>1, <2>2, SnapshotTyped DEF MainTyped, SeenIsCurrent
  <1>4. ASSUME SweepSelect \/ Boot PROVE MainTyped' /\ SeenIsCurrent'
    <2>1. main' = [at |-> "sweep", seen |-> ExpiredRows] /\ up' = TRUE
      BY <1>0, <1>4 DEF SweepSelect, Boot, Ready, MainTyped
    <2>2. ASSUME NEW s \in ExpiredRows
          PROVE  \E j \in Jobs : s = Snapshot(j) /\ rows'[j] = rows[j]
      <3>1. PICK j \in Jobs : s = Snapshot(j) /\ rows[j].agent # NoAgent
        BY DEF ExpiredRows, SweepSelects
      <3> QED BY <1>4, <3>1 DEF SweepSelect, Boot, Interrupt, IsUnleased
    <2>3. ExpiredRows \subseteq Seen
      BY <2>2, SnapshotTyped
    <2>4. \A s \in ExpiredRows : Snapshot(s.job)' = s
      BY <2>2, SnapshotTyped DEF Snapshot
    <2> HIDE DEF ExpiredRows
    <2> QED BY <2>1, <2>3, <2>4 DEF MainTyped, SeenIsCurrent
  <1>5. ASSUME NEW u \in uploads, CommitImport(u) PROVE MainTyped' /\ SeenIsCurrent'
    <2>1. u.lease.job \in Jobs /\ rows \in [Jobs -> Row]
      BY DEF IInv, TypeOK, Upload, Lease
    <2>2. ASSUME NEW j \in Jobs
          PROVE  rows'[j] = rows[j] \/ rows'[j].status \in {"COMPLETED", "FAILED"}
      BY <1>5, <2>1 DEF CommitImport, SetRow, Complete, RejectIdentity, Release, Row
    <2>3. main' = main /\ up' = up
      BY <1>5 DEF CommitImport
    <2> QED BY <1>2, <2>2, <2>3 DEF Active
  <1>6. ASSUME Tick PROVE MainTyped' /\ SeenIsCurrent'
    <2>1. ASSUME NEW j \in Jobs
          PROVE  /\ rows'[j].status = rows[j].status
                 /\ rows'[j].attempt = rows[j].attempt
                 /\ rows'[j].failures = rows[j].failures
      BY <1>6 DEF Tick, IInv, TypeOK, Row
    <2> QED BY <1>2, <1>6, <2>1 DEF Tick
  <1>7. CASE UNCHANGED <<rows, main, up>>
    BY <1>2, <1>7
  <1>8. \/ main' = Idle /\ up' \in BOOLEAN
        \/ UNCHANGED <<rows, main, up>>
        \/ \E k \in Jobs : CancelRead(k)
        \/ SweepSelect \/ Boot \/ Tick
        \/ \E u \in uploads : CommitImport(u)
    BY <1>0 DEF MainTyped, Next, UserNext, AgentNext, ServerNext, Ready, SubmitJob, DeleteJob,
           ClaimJob, HeartbeatLease, FinishLease, DeferLease, InvalidateClient, StartUpload,
           CancelWrite, SweepApply, SweepBusy, RenewUpload, RenewUploadBusy, RenewalDue, StartImport,
           AbortUpload, Crash
  <1> QED BY <1>1, <1>3, <1>4, <1>5, <1>6, <1>7, <1>8

\* The upload u speaks for the lease its row carries, and is being renewed.
Renewing(u) ==
    /\ up /\ u.stage # "orphan" /\ u.lease.agent # Local
    /\ SameLease(rows[u.lease.job], u.lease)

\* What the lease of u may have run down to: a tick less for every renewal
\* missed, and for the tick in which the timer has not had its turn.
Owed(u) == LeaseTicks - u.missed - (IF u.renewed THEN 0 ELSE 1)

PaidUp(u) == u.missed < LeaseTicks => rows[u.lease.job].ttl >= Owed(u)

LEMMA OwedIsBounded ==
    ASSUME NEW u \in Upload
    PROVE  /\ u.missed \in 0..LeaseTicks /\ LeaseTicks \in Nat /\ TransferTicks \in Nat
           /\ TransferTicks >= LeaseTicks
           /\ Owed(u) \in Int /\ Owed(u) <= LeaseTicks
           /\ u.missed < LeaseTicks => Owed(u) >= 0
  BY BacktestLeaseAssumption DEF Upload, Owed

LEMMA NextKeepsTransfers ==
    ASSUME IInv, Next
    PROVE  TransferKeepsLease' /\ RenewalOutlivesTick'
  <1> DEFINE Ttl(u) == rows[u.lease.job].ttl
  <1>0. \A u \in uploads : u \in Upload /\ u.lease \in granted /\ (~ up => u.stage = "orphan")
    BY DEF IInv, TypeOK, UploadsAreGranted
  <1>1. \A u \in uploads : Renewing(u) => PaidUp(u)
    BY DEF IInv, RenewalOutlivesTick, Renewing, PaidUp, Owed
  <1>2. \A l \in granted : l.job \in Jobs /\ rows[l.job] \in Row /\ rows[l.job].ttl \in Int
    BY DEF IInv, TypeOK, Lease, Row, Expired
  <1>a. \A v \in uploads' : v \in Upload /\ v.lease.job \in Jobs /\ Ttl(v)' \in Int
    <2>1. \A v \in uploads' : v \in Upload /\ v.lease.job \in Jobs
      BY NextKeepsUploads DEF Upload, Lease
    <2> QED BY <2>1, NextKeepsRows DEF Row, Expired
  <1>b. ASSUME \A v \in uploads' : Renewing(v)' => PaidUp(v)'
        PROVE  TransferKeepsLease' /\ RenewalOutlivesTick'
    <2>1. RenewalOutlivesTick'
      BY <1>b DEF RenewalOutlivesTick, Renewing, PaidUp, Owed
    <2>2. ASSUME NEW v \in uploads', Renewing(v)', v.missed < LeaseTicks
          PROVE  Ttl(v)' >= 0
      <3>1. Ttl(v)' >= Owed(v)
        BY <1>b, <2>2 DEF PaidUp, Owed
      <3> QED BY <1>a, <2>2, <3>1, OwedIsBounded
    <2> QED BY <2>1, <2>2 DEF TransferKeepsLease, Renewing
  <1> SUFFICES ASSUME NEW v \in uploads', Renewing(v)', v.missed < LeaseTicks
               PROVE  Ttl(v)' >= Owed(v)
    BY <1>b DEF PaidUp, Owed
  <1>3. ASSUME NEW u \in uploads, u.lease = v.lease, u.stage # "orphan", up, ~ Tick,
               u.missed < LeaseTicks, Owed(v) <= Owed(u)
        PROVE  Ttl(v)' >= Owed(v)
    <2>1. v.lease \in granted /\ SameLease(rows'[v.lease.job], v.lease)
      BY <1>0, <1>3 DEF Renewing
    <2>2. SameLease(rows[v.lease.job], v.lease)
          /\ (Ttl(v)' = Ttl(v) \/ Ttl(v)' >= LeaseTicks)
      BY <1>3, <2>1, LeaseStep
    <2>3. Ttl(v) >= Owed(u)
      BY <1>1, <1>3, <2>2 DEF Renewing, PaidUp
    <2>4. Owed(u) \in Int /\ Owed(v) \in Int /\ Owed(v) <= LeaseTicks
          /\ Ttl(v) \in Int /\ Ttl(v)' \in Int /\ LeaseTicks \in Int
      BY <1>0, <1>2, <1>a, <2>1, OwedIsBounded
    <2> QED BY <1>3, <2>2, <2>3, <2>4
  <1>4. CASE Tick
    <2>1. PICK u \in uploads : v = [u EXCEPT !.renewed = FALSE]
      BY <1>4 DEF Tick
    <2>2. v.lease = u.lease /\ v.stage = u.stage /\ v.missed = u.missed /\ ~ v.renewed
      BY <1>0, <2>1 DEF Upload
    <2>3. u.renewed /\ up
      BY <1>4, <2>2 DEF Tick, Renewing
    <2>4. SameLease(rows[u.lease.job], u.lease)
      BY <1>0, <2>2, LeaseStep DEF Renewing
    <2>a. u.missed \in Nat /\ LeaseTicks \in Nat
      BY <1>0, OwedIsBounded
    <2>5. Ttl(u) >= LeaseTicks - u.missed /\ Ttl(u) >= 1 /\ Ttl(u) \in Int
      BY <1>0, <1>1, <1>2, <2>2, <2>3, <2>4, <2>a DEF Renewing, PaidUp, Owed
    <2>6. Ttl(u)' = Ttl(u) - 1
      BY <1>0, <1>2, <1>4, <2>5 DEF Tick, IInv, TypeOK, Row
    <2> QED BY <2>2, <2>5, <2>6, <2>a DEF Owed
  <1>t. ASSUME NEW l \in granted, v.lease = l, SetRow(l.job, Heartbeat(rows[l.job], TransferTicks))
        PROVE  Ttl(v)' >= Owed(v)
    <2>1. rows'[l.job] = Heartbeat(rows[l.job], TransferTicks)
      BY <1>2, <1>t DEF SetRow, IInv, TypeOK
    <2>2. Ttl(v)' = TransferTicks
      BY <1>2, <1>t, <2>1 DEF Heartbeat, Row
    <2> QED BY <1>a, <2>2, OwedIsBounded
  <1>5. ASSUME NEW l \in granted, StartUpload(l)
        PROVE  Ttl(v)' >= Owed(v)
    <2>1. up
      BY <1>5 DEF StartUpload, Ready
    <2>2. CASE v \in uploads
      BY <1>0, <1>3, <1>4, <1>a, <2>1, <2>2, OwedIsBounded DEF Renewing
    <2>3. CASE v = NewUpload(l)
      BY <1>5, <1>t, <2>3 DEF StartUpload, NewUpload
    <2> QED BY <1>5, <2>2, <2>3 DEF StartUpload
  <1>6. ASSUME NEW u \in uploads, RenewUpload(u) \/ RenewUploadBusy(u)
        PROVE  Ttl(v)' >= Owed(v)
    <2>0. up /\ u.stage # "orphan" /\ ~ u.renewed /\ u \in Upload /\ u.lease \in granted
      BY <1>0, <1>6 DEF RenewUpload, RenewUploadBusy, RenewalDue, Ready
    <2>a. u.missed \in Nat /\ LeaseTicks \in Nat
      BY <1>0, OwedIsBounded
    <2>1. CASE v \in uploads
      BY <1>0, <1>3, <1>4, <1>a, <2>0, <2>1, OwedIsBounded DEF Renewing
    <2>2. CASE v \notin uploads /\ SetRow(u.lease.job, Heartbeat(rows[u.lease.job], TransferTicks))
      <3>1. PICK n \in 0..LeaseTicks : v = [u EXCEPT !.renewed = TRUE, !.missed = n]
        BY <1>6, <2>2, RenewalMisses DEF Advance
      <3>2. v.lease = u.lease
        BY <2>0, <3>1 DEF Upload
      <3> QED BY <1>t, <2>0, <2>2, <3>2
    <2>3. CASE v \notin uploads /\ RenewUpload(u) /\ ~ CanHeartbeat(rows[u.lease.job], u.lease)
      <3>1. v = [u EXCEPT !.renewed = TRUE]
        BY <2>3 DEF RenewUpload, Advance
      <3>2. v.lease = u.lease /\ v.stage = u.stage /\ v.missed = u.missed
        BY <2>0, <3>1 DEF Upload
      <3>3. SameLease(rows[u.lease.job], u.lease)
        BY <2>0, <3>2, LeaseStep DEF Renewing
      <3>4. Ttl(u) >= Owed(u)
        BY <1>1, <2>0, <3>2, <3>3 DEF Renewing, PaidUp
      <3>5. Ttl(u) >= 0
        BY <1>2, <2>0, <3>2, <3>4, OwedIsBounded
      <3>6. rows[u.lease.job].status \in Active
        <4>1. RowInv(u.lease.job) /\ u.lease.token # NoToken
          BY <2>0, RowInvs DEF IInv, TypeOK, Lease, NoToken
        <4> QED BY <3>3, <4>1 DEF RowInv, SameLease
      <3> QED BY <2>3, <3>3, <3>5, <3>6 DEF CanHeartbeat, LiveLease
    <2>4. CASE v \notin uploads /\ RenewUploadBusy(u)
      <3> DEFINE n == IF u.missed < LeaseTicks THEN u.missed + 1 ELSE u.missed
      <3>1. v = [u EXCEPT !.renewed = TRUE, !.missed = n]
        BY <2>4 DEF RenewUploadBusy, Advance
      <3>2. v.lease = u.lease /\ v.stage = u.stage /\ v.renewed /\ v.missed = n
        BY <2>0, <3>1 DEF Upload
      <3>3. u.missed < LeaseTicks /\ v.missed = u.missed + 1
        BY <2>a, <3>2
      <3>4. Owed(v) = Owed(u)
        BY <2>0, <2>a, <3>2, <3>3 DEF Owed
      <3>5. Owed(v) <= Owed(u)
        BY <2>0, <3>4, OwedIsBounded
      <3> QED BY <1>3, <1>4, <2>0, <3>2, <3>3, <3>5
    <2> QED BY <1>6, <2>1, <2>2, <2>3, <2>4 DEF RenewUpload
  <1>7. ASSUME NEW u \in uploads, StartImport(u)
        PROVE  Ttl(v)' >= Owed(v)
    <2>0. up /\ u \in Upload
      BY <1>0, <1>7 DEF StartImport
    <2>1. CASE v \in uploads
      BY <1>0, <1>3, <1>4, <1>a, <2>0, <2>1, OwedIsBounded DEF Renewing
    <2>2. CASE v \notin uploads
      <3>1. v = [u EXCEPT !.stage = "importing",
                          !.live = LiveLease(rows[u.lease.job], u.lease)]
        BY <1>7, <2>2 DEF StartImport, Advance
      <3>2. v.lease = u.lease /\ v.renewed = u.renewed /\ v.missed = u.missed
            /\ u.stage = "receiving"
        BY <1>7, <2>0, <3>1 DEF StartImport, Upload
      <3>3. Owed(v) <= Owed(u)
        BY <2>0, <3>2, OwedIsBounded DEF Owed
      <3> QED BY <1>3, <1>4, <2>0, <3>2, <3>3
    <2> QED BY <2>1, <2>2
  <1>8. CASE uploads' \subseteq uploads
    <2>1. v \in uploads /\ v.stage # "orphan" /\ up
      BY <1>0, <1>8 DEF Renewing
    <2>2. Owed(v) <= Owed(v)
      BY <1>a, OwedIsBounded
    <2> QED BY <1>3, <1>4, <2>1, <2>2
  <1>9. \/ uploads' \subseteq uploads
        \/ \E l \in granted : StartUpload(l)
        \/ \E u \in uploads : RenewUpload(u) \/ RenewUploadBusy(u) \/ StartImport(u)
        \/ ~ up' \/ Tick
    BY DEF Next, UserNext, AgentNext, ServerNext, SubmitJob, CancelRead, DeleteJob,
           ClaimJob, HeartbeatLease, FinishLease, DeferLease, InvalidateClient,
           CancelWrite, SweepSelect, SweepApply, SweepBusy, CommitImport, AbortUpload, Crash, Boot
  <1> QED BY <1>4, <1>5, <1>6, <1>7, <1>8, <1>9 DEF Renewing

-----------------------------------------------------------------------------
(* The inductive invariant, and the safety theorems.                       *)

LEMMA NextKeepsIInv == ASSUME IInv, Next PROVE IInv'
  <1>1. \A j \in Jobs : RowInv(j)'
    BY NextKeepsRows
  <1>2. TypeOK'
    BY NextKeepsRows, NextKeepsGranted, NextKeepsUploads, NextKeepsMain DEF TypeOK, MainTyped
  <1>3. ResultOfLastLease' /\ QueuedIsClaimable'
    BY <1>1 DEF RowInv, ResultOfLastLease, QueuedIsClaimable
  <1>4. ActiveIsLeased'
    BY <1>1 DEF RowInv, ActiveIsLeased
  <1>5. ExpiryBelongsToToken' /\ RetriesRemain' /\ NewJobIsUnowned'
    BY <1>1 DEF RowInv, ExpiryBelongsToToken, RetriesRemain, NewJobIsUnowned
  <1>6. TransferKeepsLease' /\ TokensAreFresh' /\ SeenIsCurrent' /\ UploadsAreGranted'
        /\ RenewalOutlivesTick'
    BY NextKeepsTransfers, NextKeepsGranted, NextKeepsMain, NextKeepsUploads
  <1> QED BY <1>2, <1>3, <1>4, <1>5, <1>6 DEF IInv

LEMMA StutterKeepsIInv == ASSUME IInv, UNCHANGED vars PROVE IInv'
  BY DEF IInv, vars, TypeOK, ResultOfLastLease, ActiveIsLeased, QueuedIsClaimable,
         TransferKeepsLease, TokensAreFresh, ExpiryBelongsToToken, RetriesRemain,
         NewJobIsUnowned, SeenIsCurrent, Snapshot, UploadsAreGranted, RenewalOutlivesTick

\* The inductive invariant holds in every reachable state.
THEOREM InductiveInvariant == Spec => []IInv
  <1>1. IInv /\ [Next]_vars => IInv'
    BY NextKeepsIInv, StutterKeepsIInv
  <1> QED BY InitIInv, <1>1, PTL DEF Spec

\* Every column of a job's row, every lease and every upload keeps its type:
\* in particular no expiry exceeds the longest reservation and no job counts
\* more lost leases than it may lose.
THEOREM TypeCorrect == Spec => []TypeOK
  <1>1. IInv => TypeOK
    BY DEF IInv
  <1> QED BY <1>1, InductiveInvariant, PTL

\* A job is COMPLETED exactly when a result is stored, and the result is the
\* one uploaded under its last lease, whatever messages arrive late, twice
\* or out of order, and whenever the server dies.
THEOREM ResultIntegrity == Spec => []ResultOfLastLease
  <1>1. IInv => ResultOfLastLease
    BY DEF IInv
  <1> QED BY <1>1, InductiveInvariant, PTL

\* No active job is without a lease that can expire; no other job has one.
THEOREM ActiveJobsAreLeased == Spec => []ActiveIsLeased
  <1>1. IInv => ActiveIsLeased
    BY DEF IInv
  <1> QED BY <1>1, InductiveInvariant, PTL

\* No job waits in the queue that claimNextLease would never pick.
THEOREM QueuedJobsAreClaimable == Spec => []QueuedIsClaimable
  <1>1. IInv => QueuedIsClaimable
    BY DEF IInv
  <1> QED BY <1>1, InductiveInvariant, PTL

\* A lease never expires under a transfer the server is serving, unless as
\* many renewals in a row as an ordinary lease has ticks found the database
\* locked by an import.
THEOREM TransfersKeepLeases == Spec => []TransferKeepsLease
  <1>1. IInv => TransferKeepsLease
    BY DEF IInv
  <1> QED BY <1>1, InductiveInvariant, PTL

-----------------------------------------------------------------------------
(* What a step may never do.                                               *)

LEMMA CancellingStep ==
    ASSUME IInv, Next, NEW j \in Jobs, rows[j].status = "CANCELLING", rows[j].agent # NoAgent
    PROVE  rows'[j].status \in {"CANCELLING", "CANCELLED"}
  <1>1. RowMove(j) /\ rows[j] \in Row
    BY RowMoves DEF IInv, TypeOK
  <1>2. CASE Stays(j) \/ Enqueued(j) \/ Asked(j) \/ Removed(j) \/ Claimed(j) \/ Imported(j)
    BY <1>2 DEF Stays, Enqueued, Asked, Cancellable, Removed, Terminal, Claimed, Claimable,
                Imported, CanComplete, Becomes
  <1>3. CASE Extended(j) \/ Ticked(j)
    BY <1>1, <1>3 DEF Extended, Ticked, Heartbeat, Becomes, Row
  <1>4. CASE Reported(j) \/ HandedBack(j)
    BY <1>1, <1>4 DEF Reported, HandedBack, Finish, HandBack, ReleaseOwner, Release, Becomes, Row
  <1>5. CASE GivenBack(j)
    <2>1. ExpiryStatus(Snapshot(j)) = "CANCELLED"
      BY DEF ExpiryStatus, Snapshot
    <2> QED BY <1>1, <1>5, <2>1 DEF GivenBack, Expire, Release, Becomes, Row
  <1>6. CASE Disowned(j)
    BY <1>6 DEF Disowned, Interrupt, IsUnleased, Becomes
  <1> QED BY <1>1, <1>2, <1>3, <1>4, <1>5, <1>6 DEF RowMove, Written

\* After an accepted cancellation only CANCELLED can follow.
THEOREM CancellationWins == Spec => CancelWins
  <1> DEFINE A == \A j \in Jobs : rows[j].status = "CANCELLING" /\ rows[j].agent # NoAgent
                    => rows'[j].status \in {"CANCELLING", "CANCELLED"}
  <1>1. IInv /\ [Next]_vars => [A]_vars
    BY CancellingStep
  <1> QED BY <1>1, InductiveInvariant, PTL DEF Spec, CancelWins

\* A job that ended is only ever deleted.
THEOREM EndedJobsStay == Spec => TerminalIsFinal
  <1> DEFINE A == \A j \in Jobs : rows[j].status \in Terminal =>
                    rows'[j] = rows[j] \/ rows'[j].status = "DELETED"
  <1>1. ASSUME IInv, Next PROVE A
    <2> SUFFICES ASSUME NEW j \in Jobs, rows[j].status \in Terminal
                 PROVE  rows'[j] = rows[j] \/ rows'[j].status = "DELETED"
      OBVIOUS
    <2>1. RowMove(j) /\ RowInv(j) /\ rows[j] \in Row
      BY <1>1, RowMoves, RowInvs DEF IInv, TypeOK
    <2>2. rows[j].ttl = -1
      BY <2>1 DEF RowInv, Active, Terminal, Expired
    <2>3. CASE Stays(j) \/ Removed(j) \/ Disowned(j)
      BY <2>1, <2>3 DEF Stays, Removed, Disowned, Becomes, Delete, Interrupt, IsUnleased,
                        Active, Terminal, Row
    <2>4. ~ (Enqueued(j) \/ Asked(j) \/ Claimed(j) \/ Imported(j))
      BY DEF Enqueued, Asked, Cancellable, Claimed, Claimable, Imported, CanComplete, Terminal
    <2>5. ~ (Extended(j) \/ Reported(j) \/ HandedBack(j) \/ GivenBack(j))
      BY DEF Extended, CanHeartbeat, Reported, CanFinish, HandedBack, GivenBack, Active, Terminal
    <2>6. ~ Ticked(j)
      BY <2>2 DEF Ticked
    <2> QED BY <2>1, <2>3, <2>4, <2>5, <2>6 DEF RowMove, Written
  <1>2. IInv /\ [Next]_vars => [A]_vars
    BY <1>1
  <1> QED BY <1>2, InductiveInvariant, PTL DEF Spec, TerminalIsFinal

\* A lease that expired or was released stays dead.
THEOREM DeadLeasesStayDead == Spec => LeaseNeverRevives
  <1> DEFINE A == \A l \in granted : ~ LiveLease(rows[l.job], l) => ~ LiveLease(rows'[l.job], l)
  <1>1. ASSUME IInv, Next PROVE A
    <2> SUFFICES ASSUME NEW l \in granted, LiveLease(rows'[l.job], l)
                 PROVE  LiveLease(rows[l.job], l)
      OBVIOUS
    <2>1. SameLease(rows'[l.job], l)
      BY DEF LiveLease
    <2> QED BY <1>1, <2>1, LeaseStep DEF LiveLease
  <1>2. IInv /\ [Next]_vars => [A]_vars
    BY <1>1
  <1> QED BY <1>2, InductiveInvariant, PTL DEF Spec, LeaseNeverRevives

\* Only a lease that expired uses up a retry.
THEOREM OnlyExpiryCounts == Spec => OnlyExpiryCountsAsFailure
  <1> DEFINE A == \A j \in Jobs : rows'[j].failures # rows[j].failures =>
                    /\ rows'[j].failures = rows[j].failures + 1
                    /\ rows[j].token # NoToken /\ rows[j].ttl = Expired
  <1>1. ASSUME IInv, Next PROVE A
    <2> SUFFICES ASSUME NEW j \in Jobs, rows'[j].failures # rows[j].failures
                 PROVE  /\ rows'[j].failures = rows[j].failures + 1
                        /\ rows[j].token # NoToken /\ rows[j].ttl = Expired
      OBVIOUS
    <2>1. RowMove(j) /\ RowInv(j) /\ rows[j] \in Row
      BY <1>1, RowMoves, RowInvs DEF IInv, TypeOK
    <2>2. ~ (Stays(j) \/ Enqueued(j) \/ Asked(j) \/ Removed(j) \/ Ticked(j) \/ Disowned(j))
      BY <2>1 DEF Stays, Enqueued, Asked, Removed, Ticked, Disowned, Becomes, Enqueue, Delete,
                  Interrupt, Row
    <2>3. ~ (Claimed(j) \/ Extended(j) \/ Reported(j))
      BY <2>1 DEF Claimed, Extended, Reported, Becomes, Claim, Heartbeat, Finish, Release, Row
    <2>4. ~ (HandedBack(j) \/ Imported(j))
      BY <2>1 DEF HandedBack, Imported, Becomes, HandBack, ReleaseOwner, Complete, RejectIdentity,
                  Release, Row
    <2>5. GivenBack(j)
      BY <2>1, <2>2, <2>3, <2>4 DEF RowMove, Written
    <2>6. rows'[j].failures = rows[j].failures + 1 /\ rows[j].ttl = Expired
      BY <2>1, <2>5 DEF GivenBack, Becomes, Expire, Release, Row
    <2>7. rows[j].token # NoToken
      <3>1. [job |-> j, attempt |-> rows[j].attempt, token |-> rows[j].token,
             agent |-> rows[j].agent] \in granted
        BY <2>1, <2>5 DEF GivenBack, RowInv
      <3> QED BY <1>1, <3>1 DEF IInv, TypeOK, Lease, NoToken
    <2> QED BY <2>6, <2>7
  <1>2. IInv /\ [Next]_vars => [A]_vars
    BY <1>1
  <1> QED BY <1>2, InductiveInvariant, PTL DEF Spec, OnlyExpiryCountsAsFailure

\* Neither a crash nor the boot after it touches a job that is leased.
THEOREM RestartsKeepLeases == Spec => RestartKeepsLeases
  <1> DEFINE A == up' # up => \A l \in granted : SameLease(rows[l.job], l)
                    => rows'[l.job] = rows[l.job]
  <1>1. ASSUME IInv, Next PROVE A
    <2> SUFFICES ASSUME up' # up, NEW l \in granted, SameLease(rows[l.job], l)
                 PROVE  rows'[l.job] = rows[l.job]
      OBVIOUS
    <2>1. Crash \/ Boot
      BY <1>1 DEF Next, UserNext, AgentNext, ServerNext, SubmitJob, CancelRead, DeleteJob,
           ClaimJob, HeartbeatLease, FinishLease, DeferLease, InvalidateClient, StartUpload,
           CancelWrite, SweepSelect, SweepApply, SweepBusy, RenewUpload, RenewUploadBusy, StartImport,
           CommitImport, AbortUpload, Tick
    <2>2. CASE Crash
      BY <2>2 DEF Crash
    <2>3. CASE Boot
      <3>1. l.job \in Jobs /\ RowInv(l.job) /\ l.token # NoToken /\ ~ up
        BY <1>1, <2>3, RowInvs DEF IInv, TypeOK, Lease, NoToken, Boot
      <3>2. ~ IsUnleased(rows[l.job])
        BY <3>1 DEF RowInv, IsUnleased, SameLease
      <3> QED BY <2>3, <3>1, <3>2 DEF Boot, Interrupt
    <2> QED BY <2>1, <2>2, <2>3
  <1>2. IInv /\ [Next]_vars => [A]_vars
    BY <1>1
  <1> QED BY <1>2, InductiveInvariant, PTL DEF Spec, RestartKeepsLeases

-----------------------------------------------------------------------------
(* BacktestLease implements BacktestJob.                                   *)

Abstract(r) == [phase |-> PhaseOf(r), run |-> r.attempt, result |-> r.result]

LEMMA PhaseTable ==
    ASSUME NEW r \in Row
    PROVE  /\ r.status = "NONE" => PhaseOf(r) = "none"
           /\ r.status = "QUEUED" => PhaseOf(r) = "waiting"
           /\ r.status \in Active /\ r.agent = NoAgent => PhaseOf(r) = "orphaned"
           /\ r.status \in {"STARTING", "RUNNING"} /\ r.agent # NoAgent => PhaseOf(r) = "executing"
           /\ r.status = "CANCELLING" /\ r.agent # NoAgent => PhaseOf(r) = "cancelling"
           /\ r.status = "COMPLETED" => PhaseOf(r) = "completed"
           /\ r.status = "FAILED" => PhaseOf(r) = "failed"
           /\ r.status = "CANCELLED" => PhaseOf(r) = "cancelled"
           /\ r.status = "INTERRUPTED" => PhaseOf(r) = "interrupted"
           /\ r.status = "DELETED" => PhaseOf(r) = "deleted"
           /\ r.status \in {"NONE", "QUEUED", "DELETED"} \cup Active \cup Terminal
  <1>1. r.status \in {"NONE", "QUEUED", "DELETED"} \cup Active \cup Terminal
    BY DEF Row, Status
  <1> QED BY <1>1 DEF PhaseOf, Active, Terminal

LEMMA PhaseTyped ==
    ASSUME NEW r \in Row
    PROVE  Abstract(r) \in [phase : Promise!Phase, run : Nat, result : Nat]
  <1>1. PhaseOf(r) \in Promise!Phase
    BY PhaseTable DEF Promise!Phase, Active, Terminal
  <1>2. r.attempt \in Nat /\ r.result \in Nat
    BY BacktestLeaseAssumption DEF Row
  <1> QED BY <1>1, <1>2 DEF Abstract

\* A move of one row is a move of its job, or none.
LEMMA RowMoveIsMove ==
    ASSUME IInv, Next, NEW j \in Jobs
    PROVE  Abstract(rows'[j]) = Abstract(rows[j])
             \/ Promise!Move(Abstract(rows[j]), Abstract(rows'[j]))
  <1> DEFINE r == rows[j]
             x == rows'[j]
             a == Abstract(r)
             b == Abstract(x)
             Goal == b = a \/ Promise!Move(a, b)
  <1>0. r \in Row /\ x \in Row /\ RowInv(j) /\ RowInv(j)' /\ RowMove(j)
    BY RowInvs, RowMoves, NextKeepsRows DEF IInv, TypeOK
  <1>1. /\ a.phase = PhaseOf(r) /\ a.run = r.attempt /\ a.result = r.result
        /\ b = [phase |-> PhaseOf(x), run |-> x.attempt, result |-> x.result]
        /\ a = [phase |-> PhaseOf(r), run |-> r.attempt, result |-> r.result]
    BY DEF Abstract
  <1>p. /\ r.status \in Active /\ up => r.agent # NoAgent
        /\ r.status \in Active /\ r.token # NoToken => r.agent # NoAgent
    BY <1>0, BacktestLeaseAssumption DEF RowInv, IInv, TypeOK, Lease
  <1> HIDE DEF a, b
  <1>2. ASSUME Stays(j) PROVE Goal
    BY <1>2 DEF Stays, Becomes, a, b
  <1>3. ASSUME Enqueued(j) PROVE Goal
    <2>1. r.status = "NONE" /\ x.status = "QUEUED" /\ x.attempt = r.attempt /\ x.result = r.result
      BY <1>0, <1>3 DEF Enqueued, Becomes, Enqueue, Row
    <2>2. a.phase = "none" /\ b = [a EXCEPT !.phase = "waiting"]
      BY <1>0, <1>1, <2>1, PhaseTable
    <2> QED BY <2>2 DEF Promise!Move, Promise!Submit, Promise!To
  <1>4. ASSUME Asked(j) PROVE Goal
    <2>0. r.agent # NoAgent \/ r.status = "QUEUED"
      BY <1>p, <1>4 DEF Asked, Cancellable, Active
    <2>1. r.status \in Cancellable /\ x.status = CancelStatus(r.status)
          /\ x.attempt = r.attempt /\ x.result = r.result /\ x.agent = r.agent
      BY <1>0, <1>4 DEF Asked, Becomes, Row
    <2>2. CASE r.status = "QUEUED"
      <3>1. a.phase = "waiting" /\ b = [a EXCEPT !.phase = "cancelled"]
        BY <1>0, <1>1, <2>1, <2>2, PhaseTable DEF CancelStatus
      <3> QED BY <3>1 DEF Promise!Move, Promise!Cancelled, Promise!To
    <2>3. CASE r.status # "QUEUED"
      <3>1. a.phase = "executing" /\ b = [a EXCEPT !.phase = "cancelling"]
        BY <1>0, <1>1, <2>0, <2>1, <2>3, PhaseTable DEF CancelStatus, Cancellable
      <3> QED BY <3>1 DEF Promise!Move, Promise!AskToCancel, Promise!To
    <2> QED BY <2>2, <2>3
  <1>5. ASSUME Removed(j) PROVE Goal
    <2>1. r.status \in Terminal /\ x.status = "DELETED" /\ x.attempt = r.attempt /\ x.result = 0
      BY <1>0, <1>5 DEF Removed, Becomes, Delete, Row
    <2>a. PhaseOf(r) \in Promise!Final /\ PhaseOf(x) = "deleted"
      BY <1>0, <2>1, PhaseTable DEF Terminal, Promise!Final
    <2>2. a.phase \in Promise!Final /\ b = [phase |-> "deleted", run |-> a.run, result |-> 0]
      BY <1>1, <2>1, <2>a
    <2> QED BY <2>2 DEF Promise!Move, Promise!Deleted
  <1>6. ASSUME Claimed(j) PROVE Goal
    <2>1. r.status = "QUEUED" /\ x.status = "STARTING" /\ x.attempt = r.attempt + 1
          /\ x.result = r.result /\ x.agent # NoAgent
      BY <1>0, <1>6, BacktestLeaseAssumption DEF Claimed, Claimable, Claim, Row
    <2>a. PhaseOf(r) = "waiting" /\ PhaseOf(x) = "executing"
      BY <1>0, <2>1, PhaseTable
    <2>2. a.phase = "waiting" /\ b = [phase |-> "executing", run |-> a.run + 1, result |-> a.result]
      BY <1>1, <2>1, <2>a
    <2> QED BY <2>2 DEF Promise!Move, Promise!Execute
  <1>7. ASSUME Extended(j) PROVE Goal
    <2>1. r.status \in Active /\ r.agent # NoAgent
      BY <1>0, <1>p, <1>7 DEF Extended, CanHeartbeat, LiveLease, RowInv, IInv, ExpiryBelongsToToken,
                              Expired
    <2>2. /\ x.status = IF r.status = "STARTING" THEN "RUNNING" ELSE r.status
          /\ x.attempt = r.attempt /\ x.result = r.result /\ x.agent = r.agent
      BY <1>0, <1>7 DEF Extended, Becomes, Heartbeat, Row
    <2>3. PhaseOf(x) = PhaseOf(r)
      BY <1>0, <2>1, <2>2, PhaseTable DEF Active
    <2> QED BY <1>1, <2>2, <2>3
  <1>8. ASSUME Reported(j) \/ HandedBack(j) PROVE Goal
    <2>1. r.status \in Active /\ r.agent # NoAgent
      BY <1>0, <1>p, <1>8 DEF Reported, HandedBack, CanFinish, LiveLease, RowInv, IInv,
                              ExpiryBelongsToToken, Expired
    <2>2. /\ IF r.status = "CANCELLING" THEN x.status = "CANCELLED"
             ELSE x.status \in {"QUEUED", "FAILED", "CANCELLED"}
          /\ x.attempt = r.attempt /\ x.result = r.result
      BY <1>0, <1>8 DEF Reported, HandedBack, Becomes, Finish, HandBack, ReleaseOwner, Release, Row
    <2>3. \/ a.phase = "cancelling" /\ b = [a EXCEPT !.phase = "cancelled"]
          \/ a.phase = "executing"
             /\ b \in {[a EXCEPT !.phase = p] : p \in {"waiting", "failed", "cancelled"}}
      BY <1>0, <1>1, <2>1, <2>2, PhaseTable DEF Active
    <2> QED BY <2>3 DEF Promise!Move, Promise!HandBackMove, Promise!Failed, Promise!Cancelled,
                        Promise!To
  <1>9. ASSUME Imported(j) PROVE Goal
    <2>1. PICK l \in granted :
            /\ CanComplete(r, l, TRUE)
            /\ Becomes(j, Complete(r, l)) \/ Becomes(j, RejectIdentity(r))
      BY <1>9 DEF Imported
    <2>2. /\ r.status \in {"STARTING", "RUNNING"} /\ l.attempt = r.attempt
          /\ r.token # NoToken /\ r.agent # NoAgent
      BY <1>p, <2>1 DEF CanComplete, SameLease, IInv, TypeOK, Lease, NoToken, Active
    <2>3. a.phase = "executing"
      BY <1>0, <1>1, <2>2, PhaseTable
    <2>4. CASE Becomes(j, Complete(r, l))
      <3>1. x.status = "COMPLETED" /\ x.attempt = r.attempt /\ x.result = r.attempt
        BY <1>0, <2>2, <2>4 DEF Becomes, Complete, Release, Row
      <3>a. PhaseOf(x) = "completed"
        BY <1>0, <3>1, PhaseTable
      <3>2. b = [phase |-> "completed", run |-> a.run, result |-> a.run]
        BY <1>1, <3>1, <3>a
      <3> QED BY <2>3, <3>2 DEF Promise!Move, Promise!Completed
    <2>5. CASE Becomes(j, RejectIdentity(r))
      <3>1. x.status = "FAILED" /\ x.attempt = r.attempt /\ x.result = r.result
        BY <1>0, <2>5 DEF Becomes, RejectIdentity, Release, Row
      <3>2. b = [a EXCEPT !.phase = "failed"]
        BY <1>0, <1>1, <3>1, PhaseTable
      <3> QED BY <2>3, <3>2 DEF Promise!Move, Promise!Failed, Promise!To
    <2> QED BY <2>1, <2>4, <2>5
  <1>10. ASSUME GivenBack(j) PROVE Goal
    <2>1. r.status \in Active /\ r.agent # NoAgent
      BY <1>10 DEF GivenBack
    <2>2. x.status = ExpiryStatus(Snapshot(j)) /\ x.attempt = r.attempt /\ x.result = r.result
      BY <1>0, <1>10 DEF GivenBack, Becomes, Expire, Release, Row
    <2>3. IF r.status = "CANCELLING" THEN x.status = "CANCELLED"
          ELSE x.status \in {"QUEUED", "FAILED"}
      BY <2>2 DEF ExpiryStatus, Snapshot
    <2>4. \/ a.phase = "cancelling" /\ b = [a EXCEPT !.phase = "cancelled"]
          \/ a.phase = "executing" /\ b \in {[a EXCEPT !.phase = p] : p \in {"waiting", "failed"}}
      BY <1>0, <1>1, <2>1, <2>2, <2>3, PhaseTable DEF Active
    <2> QED BY <2>4 DEF Promise!Move, Promise!HandBackMove, Promise!Failed, Promise!Cancelled,
                        Promise!To
  <1>11. ASSUME Ticked(j) PROVE Goal
    <2>1. x.status = r.status /\ x.attempt = r.attempt /\ x.result = r.result /\ x.agent = r.agent
      BY <1>0, <1>11 DEF Ticked, Becomes, Row
    <2>2. PhaseOf(x) = PhaseOf(r)
      BY <1>0, <2>1, PhaseTable DEF Active, Terminal
    <2> QED BY <1>1, <2>1, <2>2
  <1>12. ASSUME Disowned(j) PROVE Goal
    <2>1. CASE IsUnleased(r)
      <3>1. x.status = "INTERRUPTED" /\ x.attempt = r.attempt /\ x.result = r.result
        BY <1>0, <1>12, <2>1 DEF Disowned, Becomes, Interrupt, Row
      <3>2. a.phase = "orphaned" /\ b = [a EXCEPT !.phase = "interrupted"]
        BY <1>0, <1>1, <2>1, <3>1, PhaseTable DEF IsUnleased
      <3> QED BY <3>2 DEF Promise!Move, Promise!Interrupted, Promise!To
    <2>2. CASE ~ IsUnleased(r)
      BY <1>12, <2>2 DEF Disowned, Becomes, Interrupt, a, b
    <2> QED BY <2>1, <2>2
  <1> QED BY <1>0, <1>2, <1>3, <1>4, <1>5, <1>6, <1>7, <1>8, <1>9, <1>10, <1>11, <1>12
          DEF RowMove, Written, a, b

\* The leases keep every promise of BacktestJob: each step moves each job as
\* its abstract job may move, or not at all.
THEOREM LeasesImplementJobs == Spec => ImplementsBacktestJob
  <1>1. Init => Promise!Init
    <2> SUFFICES ASSUME Init PROVE Abstraction \in [Jobs -> {Promise!Fresh("none"), Promise!Fresh("orphaned")}]
      BY DEF Promise!Init
    <2> SUFFICES ASSUME NEW j \in Jobs
                 PROVE  Abstract(rows[j]) \in {Promise!Fresh("none"), Promise!Fresh("orphaned")}
      BY DEF Abstraction, Abstract
    <2>1. /\ rows[j].status \in {"NONE"} \cup Active /\ rows[j].agent = NoAgent
          /\ rows[j].attempt = 0 /\ rows[j].result = 0
      BY DEF Init, Blank, Legacy
    <2>2. rows[j] \in Row
      BY InitIInv DEF IInv, TypeOK
    <2>3. PhaseOf(rows[j]) \in {"none", "orphaned"}
      BY <2>1, <2>2, PhaseTable DEF Active
    <2> QED BY <2>1, <2>3 DEF Abstract, Promise!Fresh
  <1>2. ASSUME IInv, Next PROVE Promise!Next
    <2>1. \A j \in Jobs : rows'[j] \in Row
      BY <1>2, NextKeepsRows
    <2>2. \A j \in Jobs : /\ Abstraction[j] = Abstract(rows[j])
                          /\ Abstraction'[j] = Abstract(rows'[j])
      BY DEF Abstraction, Abstract
    <2>3. Abstraction' = [j \in Jobs |-> Abstract(rows'[j])]
      BY DEF Abstraction, Abstract
    <2>4. Abstraction' \in [Jobs -> [phase : Promise!Phase, run : Nat, result : Nat]]
      BY <2>1, <2>3, PhaseTyped
    <2> HIDE DEF Abstraction
    <2>5. \A j \in Jobs : Abstraction'[j] = Abstraction[j]
                            \/ Promise!Move(Abstraction[j], Abstraction'[j])
      BY <1>2, <2>2, RowMoveIsMove
    <2> QED BY <2>4, <2>5 DEF Promise!Next
  <1>3. UNCHANGED vars => UNCHANGED Abstraction
    BY DEF vars, Abstraction, PhaseOf
  <1>4. IInv /\ [Next]_vars => [Promise!Next]_Abstraction
    BY <1>2, <1>3
  <1> QED BY <1>1, <1>4, InductiveInvariant, PTL DEF Spec, ImplementsBacktestJob, Promise!Spec

=============================================================================
