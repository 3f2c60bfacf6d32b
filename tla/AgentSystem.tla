---------------------------- MODULE AgentSystem -----------------------------
(***************************************************************************)
(* Devices that follow client.ts, the server of BacktestLease, and what is *)
(* between them: a WebSocket in each direction (in order, and lost when it *)
(* breaks) and the result uploads over HTTP.                               *)
(*                                                                         *)
(* Every step of the server is an action of BacktestLease; this module     *)
(* says which message causes it and what is answered.  The executor inside *)
(* the server (startLocal) is not started here.                            *)
(*                                                                         *)
(* A connection has two ends, and they do not break together: link is the  *)
(* device's end, conn the server's.  While only the device knows that the  *)
(* connection is gone, the server still serves what had reached it, and    *)
(* its answers are lost.                                                   *)
(***************************************************************************)
EXTENDS BacktestLease, AgentClient

CONSTANTS
    MaxWire,        \* bound of the model: messages under way when the timer sends
    MaxFaults,      \* bound of the model: disconnections, kills and crashes
    MaxRelease      \* bound of the model: releases that change agentVersion

ASSUME AgentSystemAssumption == MaxWire \in Nat /\ MaxFaults \in Nat /\ MaxRelease \in Nat

VARIABLES
    dev,        \* the devices
    toServer,   \* toServer[a], toDevice[a]: messages under way
    toDevice,
    conn,       \* conn[a]: the server's entry for a in "connections"
    posts,      \* result uploads the devices wait for
    release,    \* the agentVersion the server runs
    faults      \* the faults so far

wires == <<toServer, toDevice, conn>>

sysVars == <<vars, dev, wires, posts, release, faults>>

Devices == Agents \ {Local}

Post == [lease : Lease, state : {"sent", "open", "done", "bad"}]

SysInit ==
    /\ Init
    /\ dev = [a \in Devices |-> NoDevice]
    /\ toServer = [a \in Devices |-> <<>>] /\ toDevice = toServer
    /\ conn = [a \in Devices |-> "none"]
    /\ posts = {}
    /\ release = 0 /\ faults = 0

SetDev(a, d) == dev' = [dev EXCEPT ![a] = d]

PostsOf(a) == {p \in posts : p.lease.agent = a}

Fault == faults < MaxFaults /\ faults' = faults + 1

\* The server has nothing to do with the step.
ServerRests == UNCHANGED <<vars, release>>

-----------------------------------------------------------------------------
(* The connection.                                                         *)

\* AgentCoordinator.connect: a new connection replaces the old one, and what
\* came over the old one and was not served yet is dropped.
Connect(a) ==
    /\ up
    /\ dev[a].on /\ dev[a].link = "down"
    /\ SetDev(a, [dev[a] EXCEPT !.link = "open"])
    /\ conn' = [conn EXCEPT ![a] = "new"]
    /\ toServer' = [toServer EXCEPT ![a] = <<[type |-> "HELLO"]>>]
    /\ toDevice' = [toDevice EXCEPT ![a] = <<>>]
    /\ ServerRests
    /\ UNCHANGED <<posts, faults>>

\* The device's end breaks: the network, a ping unanswered for 45 s, or the
\* server closing it after 60 s of silence or a message it could not handle.
Disconnect(a) ==
    /\ dev[a].link # "down"
    /\ Fault
    /\ SetDev(a, [dev[a] EXCEPT !.link = "down"])
    /\ toDevice' = [toDevice EXCEPT ![a] = <<>>]
    /\ ServerRests
    /\ UNCHANGED <<toServer, conn, posts>>

\* The server's end breaks after it.
NoticeDisconnect(a) ==
    /\ dev[a].link = "down" /\ conn[a] # "none"
    /\ conn' = [conn EXCEPT ![a] = "none"]
    /\ toServer' = [toServer EXCEPT ![a] = <<>>]
    /\ ServerRests
    /\ UNCHANGED <<dev, toDevice, posts, faults>>

-----------------------------------------------------------------------------
(* The device.                                                             *)

\* heartbeat() as the end of a step that leaves the device as d: unsaved
\* entries are saved again (the disk may still be full), everything is sent
\* and the uploads start.
HeartbeatOf(a, d) ==
    /\ \E saved \in IF d.link = "ready" THEN {{}, d.outbox} ELSE {{}} : SetDev(a, Saved(d, saved))
    /\ toServer' = [toServer EXCEPT ![a] = @ \o Beats(d)]
    /\ posts' = posts \cup {[lease |-> l, state |-> "sent"] : l \in ToUpload(d) \ LeasesOf(posts)}

\* queueOutbox: saved or not, the report is sent.
QueueReport(a, d, l, report) ==
    LET queued == Queue(d, l, report)
    IN  HeartbeatOf(a, queued) \/ HeartbeatOf(a, Saved(queued, {[lease |-> l, report |-> report]}))

HeartbeatTimer(a) ==
    /\ dev[a].link = "ready"
    /\ Beats(dev[a]) # <<>>
    /\ Len(toServer[a]) + Len(toDevice[a]) < MaxWire
    /\ HeartbeatOf(a, dev[a])
    /\ ServerRests
    /\ UNCHANGED <<toDevice, conn, faults>>

Hears(a, type) ==
    /\ toDevice[a] # <<>> /\ Head(toDevice[a]).type = type
    /\ toDevice' = [toDevice EXCEPT ![a] = Tail(@)]
    /\ ServerRests
    /\ UNCHANGED <<conn, faults>>

HearWelcome(a) ==
    /\ Hears(a, "WELCOME")
    /\ HeartbeatOf(a, [dev[a] EXCEPT !.link = "ready"])

\* The dataset may not be the one it holds, or the child not start.
HearJob(a) ==
    LET m == Head(toDevice[a])
    IN  /\ Hears(a, "JOB")
        /\ \/ /\ SetDev(a, TakeJob(dev[a], m.lease, m.until))
              /\ UNCHANGED <<toServer, posts>>
           \/ /\ ~ Knows(dev[a], m.lease)
              /\ QueueReport(a, dev[a], m.lease, "FAILED")

HearLeaseAnswer(a) ==
    /\ Hears(a, "LEASE")
    /\ SetDev(a, HearLease(dev[a], Head(toDevice[a])))
    /\ UNCHANGED <<toServer, posts>>

HearAck(a) ==
    /\ Hears(a, "ACK")
    /\ SetDev(a, Acknowledge(dev[a], Head(toDevice[a]).lease))
    /\ UNCHANGED <<toServer, posts>>

\* The uploads are aborted with it.
HearUpdateRequired(a) ==
    /\ Hears(a, "UPDATE_REQUIRED")
    /\ SetDev(a, IF dev[a].updating THEN dev[a] ELSE BeginUpdate(dev[a]))
    /\ posts' = posts \ PostsOf(a)
    /\ UNCHANGED toServer

EndUpdate(a) ==
    /\ dev[a].on /\ dev[a].updating /\ dev[a].runs = {} /\ dev[a].outbox # {}
    /\ SetDev(a, ForgetReports(dev[a]))
    /\ ServerRests
    /\ UNCHANGED <<wires, posts, faults>>

\* sample(): the device's own copy of the expiry has passed.
StopExpired(a) ==
    \E r \in dev[a].runs :
      /\ r.phase = "computing" /\ r.stop = "none" /\ r.until = Expired
      /\ SetDev(a, [dev[a] EXCEPT !.runs = (@ \ {r}) \cup {Stopped(r, "expired")}])
      /\ ServerRests
      /\ UNCHANGED <<wires, posts, faults>>

\* finished(): nothing is reported by a device that is to be updated; a
\* result is hashed first, everything else is reported at once.
ChildExits(a) ==
    \E r \in dev[a].runs :
      /\ r.phase = "computing"
      /\ \/ /\ dev[a].updating
            /\ SetDev(a, [dev[a] EXCEPT !.runs = @ \ {r}])
            /\ UNCHANGED <<toServer, posts>>
         \/ /\ ~ dev[a].updating /\ "ARTIFACT" \in ReportsOf(r)
            /\ SetDev(a, [dev[a] EXCEPT !.runs = (@ \ {r}) \cup {[r EXCEPT !.phase = "hashing"]}])
            /\ UNCHANGED <<toServer, posts>>
         \/ /\ ~ dev[a].updating
            /\ \E report \in ReportsOf(r) \ {"ARTIFACT"} : QueueReport(a, dev[a], r.lease, report)
      /\ ServerRests
      /\ UNCHANGED <<toDevice, conn, faults>>

\* The hash is known, or the artifact could not be read.
EndHash(a) ==
    \E r \in dev[a].runs :
      /\ r.phase = "hashing"
      /\ \E report \in {"ARTIFACT", "FAILED"} : QueueReport(a, dev[a], r.lease, report)
      /\ ServerRests
      /\ UNCHANGED <<toDevice, conn, faults>>

\* upload(): 2xx and 409 end the report.
UploadDone(a) ==
    \E p \in PostsOf(a) :
      /\ p.state = "done"
      /\ SetDev(a, Acknowledge(dev[a], p.lease))
      /\ posts' = posts \ {p}
      /\ ServerRests
      /\ UNCHANGED <<wires, faults>>

\* 400, 413, 415 and 422: the result is given up and the job reported FAILED.
\* The entry may have left the outbox meanwhile: it is written to the disk
\* and sent all the same.
UploadRefused(a) ==
    \E p \in PostsOf(a) :
      LET e == [lease |-> p.lease, report |-> "FAILED"]
          d == IF p.lease \in LeasesOf(dev[a].outbox) THEN Queue(dev[a], p.lease, "FAILED") ELSE dev[a]
      IN  /\ p.state = "bad"
          /\ SetDev(a, d) \/ SetDev(a, Saved(d, {e}))
          /\ posts' = posts \ {p}
          /\ IF d.link = "down" THEN UNCHANGED toServer
             ELSE toServer' = [toServer EXCEPT ![a] = Append(@, Final(e))]
          /\ ServerRests
          /\ UNCHANGED <<toDevice, conn, faults>>

\* The request fails, or is aborted after 15 minutes: the next heartbeat
\* sends it again.  The server may go on with what it has received.
UploadFails(a) ==
    \E p \in PostsOf(a) :
      /\ p.state \in {"sent", "open"}
      /\ Fault
      /\ posts' = posts \ {p}
      /\ ServerRests
      /\ UNCHANGED <<dev, wires>>

\* The process starts, with the image that is installed or a newer one.
StartDevice(a) ==
    /\ ~ dev[a].on
    /\ \E version \in dev[a].version..release : SetDev(a, Start(dev[a], version))
    /\ ServerRests
    /\ UNCHANGED <<wires, posts, faults>>

\* The process is stopped (the hashes in progress may end) or killed.  A
\* device that waits for its update is stopped by the new installation.
EndDevice(a) ==
    /\ dev[a].on
    /\ IF dev[a].updating THEN UNCHANGED faults ELSE Fault
    /\ \E hashed \in SUBSET {r \in dev[a].runs : r.phase = "hashing"} :
         SetDev(a, End(dev[a], hashed))
    /\ posts' = posts \ PostsOf(a)
    /\ toDevice' = [toDevice EXCEPT ![a] = <<>>]
    /\ ServerRests
    /\ UNCHANGED <<toServer, conn>>

-----------------------------------------------------------------------------
(* The server.                                                             *)

DevicesRest == UNCHANGED <<dev, faults>>

\* send() to a connection that has broken sends nothing.
Send(a, m) ==
    toDevice' = IF dev[a].link = "down" THEN toDevice
                ELSE [toDevice EXCEPT ![a] = Append(@, m)]

Serves(a, type) ==
    /\ Ready
    /\ toServer[a] # <<>> /\ Head(toServer[a]).type = type
    /\ toServer' = [toServer EXCEPT ![a] = Tail(@)]
    /\ DevicesRest
    /\ UNCHANGED <<posts, release>>

\* Mutant: the leases of a device to be updated count as lost.
ServeHelloCounting(a) ==
    /\ Serves(a, "HELLO")
    /\ IF dev[a].version = release
       THEN /\ conn' = [conn EXCEPT ![a] = "ready"]
            /\ Send(a, [type |-> "WELCOME"])
            /\ UNCHANGED vars
       ELSE /\ conn' = [conn EXCEPT ![a] = "refused"]
            /\ Send(a, [type |-> "UPDATE_REQUIRED"])
            /\ rows' = [j \in Jobs |-> IF rows[j].agent = a /\ rows[j].status \in Active
                                       THEN Expire(rows[j], Snapshot(j)) ELSE rows[j]]
            /\ UNCHANGED <<issued, granted, uploads, up, main>>

\* HELLO: a device of another version loses its leases first.
ServeHello(a) ==
    /\ Serves(a, "HELLO")
    /\ IF dev[a].version = release
       THEN /\ conn' = [conn EXCEPT ![a] = "ready"]
            /\ Send(a, [type |-> "WELCOME"])
            /\ UNCHANGED vars
       ELSE /\ conn' = [conn EXCEPT ![a] = "refused"]
            /\ Send(a, [type |-> "UPDATE_REQUIRED"])
            /\ InvalidateClient(a)

\* Mutant: the device is promised more than the row says.
LeaseAnswerGenerous(l, accepted) ==
    [type |-> "LEASE", lease |-> l, accepted |-> accepted,
     cancel |-> accepted /\ rows[l.job].status = "CANCELLING",
     until |-> IF accepted THEN LeaseTicks + 1 ELSE Gone]

LeaseAnswer(l, accepted) ==
    [type |-> "LEASE", lease |-> l, accepted |-> accepted,
     cancel |-> accepted /\ rows[l.job].status = "CANCELLING",
     until |-> IF accepted THEN LeaseTicks ELSE Gone]

ServeHeartbeat(a) ==
    LET l == Head(toServer[a]).lease
        accepted == Owns(l) /\ CanHeartbeat(rows[l.job], l)
    IN  /\ Serves(a, "HEARTBEAT")
        /\ IF accepted THEN HeartbeatLease(l) ELSE UNCHANGED vars
        /\ Send(a, LeaseAnswer(l, accepted))
        /\ UNCHANGED conn

\* Mutant: only an accepted report is acknowledged.
ServeFinishSilent(a) ==
    LET m == Head(toServer[a])
    IN  /\ Serves(a, "FINISH")
        /\ IF Owns(m.lease) /\ CanFinish(rows[m.lease.job], m.lease)
           THEN FinishLease(m.lease, m.outcome) /\ Send(a, [type |-> "ACK", lease |-> m.lease])
           ELSE UNCHANGED <<vars, toDevice>>
        /\ UNCHANGED conn

\* A final report is acknowledged whether it is accepted or not.
ServeFinish(a) ==
    LET m == Head(toServer[a])
    IN  /\ Serves(a, "FINISH")
        /\ IF Owns(m.lease) /\ CanFinish(rows[m.lease.job], m.lease)
           THEN FinishLease(m.lease, m.outcome) ELSE UNCHANGED vars
        /\ Send(a, [type |-> "ACK", lease |-> m.lease])
        /\ UNCHANGED conn

\* tick(), every 2 s: a device whose job is being cancelled is told so without
\* having asked, and without a new expiry.
PushCancel(a) ==
    \E j \in Jobs :
      /\ Ready
      /\ conn[a] # "none" /\ rows[j].agent = a /\ rows[j].status = "CANCELLING"
      /\ Len(toServer[a]) + Len(toDevice[a]) < MaxWire
      /\ Send(a, [type |-> "LEASE", accepted |-> TRUE, cancel |-> TRUE, until |-> Gone,
                  lease |-> [job |-> j, attempt |-> rows[j].attempt,
                             token |-> rows[j].token, agent |-> a]])
      /\ DevicesRest
      /\ UNCHANGED <<vars, toServer, conn, posts, release>>

\* assign: the job is leased, then sent, and the connection may be dead.
GiveJob(a, j) ==
    /\ conn[a] = "ready"
    /\ ClaimJob(a, j)
    /\ Send(a, [type |-> "JOB", lease |-> NewLease(a, j), until |-> LeaseTicks])
    /\ DevicesRest
    /\ UNCHANGED <<toServer, conn, posts, release>>

Answered(p, state) == posts' = (posts \ {p}) \cup {[p EXCEPT !.state = state]}

\* The result route, before the body is read.
ServePost ==
    \E p \in posts :
      /\ p.state = "sent"
      /\ IF Owns(p.lease) /\ CanHeartbeat(rows[p.lease.job], p.lease)
         THEN /\ StartUpload(p.lease)
              /\ Answered(p, IF rows[p.lease.job].status = "CANCELLING" THEN "done" ELSE "open")
         ELSE /\ Ready
              /\ Answered(p, "done")
              /\ UNCHANGED vars
      /\ DevicesRest
      /\ UNCHANGED <<wires, release>>

\* An upload ends: the request that waits for it is answered.  While another
\* one of the same lease goes on, the request may be that one's.
AnswersOf(u, state) ==
    {IF /\ p.lease = u.lease /\ p.state = "open"
        /\ \A v \in uploads' : v.lease # u.lease
     THEN [p EXCEPT !.state = state] ELSE p : p \in posts}

\* Whatever completeLeasedResult says is 200 or 409.
EndImport ==
    \E u \in uploads :
      /\ CommitImport(u)
      /\ posts' = AnswersOf(u, "done")
      /\ DevicesRest
      /\ UNCHANGED <<wires, release>>

\* The artifact is refused (422), or the upload fails (5xx, or a broken body).
EndUpload ==
    \E u \in uploads :
      /\ AbortUpload(u)
      /\ \/ posts' = AnswersOf(u, "bad") /\ UNCHANGED faults
         \/ posts' = AnswersOf(u, "bad") \cap posts /\ Fault
      /\ UNCHANGED <<dev, wires, release>>

ServerAlone ==
    /\ \/ UserNext \/ CancelWrite \/ SweepSelect \/ SweepApply \/ SweepBusy
       \/ \E u \in uploads : RenewUpload(u) \/ RenewUploadBusy(u) \/ StartImport(u)
    /\ DevicesRest
    /\ UNCHANGED <<wires, posts, release>>

\* Every connection and every request ends with the server.
SysCrash ==
    /\ Crash
    /\ Fault
    /\ dev' = [a \in Devices |-> [dev[a] EXCEPT !.link = "down"]]
    /\ toServer' = [a \in Devices |-> <<>>] /\ toDevice' = toServer'
    /\ conn' = [a \in Devices |-> "none"]
    /\ posts' = {}
    /\ UNCHANGED release

\* A deployment may bring another agentVersion.
SysBoot ==
    /\ Boot
    /\ release' \in release..MaxRelease
    /\ DevicesRest
    /\ UNCHANGED <<wires, posts>>

-----------------------------------------------------------------------------
Aged(n) == IF n >= 0 THEN n - 1 ELSE n

\* Mutant: messages carry how long the lease lasts, not until when.
OlderDuration(m) == m

Older(m) == IF m.type \in {"JOB", "LEASE"} THEN [m EXCEPT !.until = Aged(@)] ELSE m

\* A tick of the clock, for the server and the devices alike (their clocks
\* agree: the devices are sent the server's time and compare it with theirs).
SysTick ==
    /\ Tick \/ (UNCHANGED vars /\ uploads = {} /\ \A j \in Jobs : rows[j].ttl = Expired)
    /\ dev' = [a \in Devices |->
                [dev[a] EXCEPT !.runs = {[r EXCEPT !.until = Aged(@)] : r \in @}]]
    /\ toDevice' = [a \in Devices |-> [i \in DOMAIN toDevice[a] |-> Older(toDevice[a][i])]]
    /\ <<vars, dev>>' # <<vars, dev>>
    /\ UNCHANGED <<toServer, conn, posts, release, faults>>

ConnectionNext == \E a \in Devices : Connect(a) \/ Disconnect(a) \/ NoticeDisconnect(a)

DeviceNext ==
    \E a \in Devices :
      \/ HeartbeatTimer(a) \/ StopExpired(a) \/ ChildExits(a) \/ EndHash(a)
      \/ HearWelcome(a) \/ HearJob(a) \/ HearLeaseAnswer(a) \/ HearAck(a)
      \/ HearUpdateRequired(a) \/ EndUpdate(a)
      \/ UploadDone(a) \/ UploadRefused(a) \/ UploadFails(a)
      \/ StartDevice(a) \/ EndDevice(a)

SysServerNext ==
    \/ \E a \in Devices :
         \/ ServeHello(a) \/ ServeHeartbeat(a) \/ ServeFinish(a) \/ PushCancel(a)
         \/ \E j \in Jobs : GiveJob(a, j)
    \/ ServePost \/ EndImport \/ EndUpload \/ ServerAlone \/ SysCrash \/ SysBoot

SysNext == ConnectionNext \/ DeviceNext \/ SysServerNext \/ SysTick

SysSpec == SysInit /\ [][SysNext]_sysVars

(* Once the faults are over (MaxFaults), processes run, connections last   *)
(* and every queue is served.  Strong fairness where a handler of the      *)
(* server has to wait for the main process to be idle.  Nothing is assumed *)
(* of users, of the clock, or of how long a computation takes.             *)
DeviceFairness ==
    \A a \in Devices :
      /\ WF_sysVars(StartDevice(a) \/ EndUpdate(a)) /\ WF_sysVars(Connect(a)) /\ SF_sysVars(HeartbeatTimer(a))
      /\ WF_sysVars(HearWelcome(a) \/ HearJob(a) \/ HearLeaseAnswer(a)
                      \/ HearAck(a) \/ HearUpdateRequired(a))
      /\ WF_sysVars(UploadDone(a) \/ UploadRefused(a))
      /\ SF_sysVars(ServeHello(a) \/ ServeHeartbeat(a) \/ ServeFinish(a))

SysFairness ==
    /\ DeviceFairness
    /\ WF_sysVars(SysBoot) /\ SF_sysVars(ServePost) /\ WF_sysVars(EndImport)
    /\ WF_sysVars((CancelWrite \/ SweepApply \/ \E u \in uploads : StartImport(u)) /\ ServerAlone)

SysLiveSpec == SysSpec /\ SysFairness

-----------------------------------------------------------------------------
(* Properties.                                                             *)

\* A device gives a computation up no later than the server gives its lease
\* away: its copy of the expiry never runs ahead of the server's, whatever
\* answers were lost or late (message() takes the server's absolute time).
DeviceExpiresFirst ==
    \A a \in Devices : \A r \in dev[a].runs :
      SameLease(rows[r.lease.job], r.lease) => r.until <= rows[r.lease.job].ttl

Computes(r) == r.phase = "computing" /\ r.stop = "none" /\ r.until >= 0

\* A device that computes and believes in its lease is the one the server has
\* given the job to, except where it waits to be told to update: no second
\* device can be given the job while the first still computes it.
OneExecutor ==
    \A a \in Devices : \A r \in dev[a].runs :
      Computes(r) => SameLease(rows[r.lease.job], r.lease) \/ dev[a].version # release

\* A device forgets a computed result only when the server has stored it or
\* will never take it: while the lease is good the result stays in the
\* outbox, whatever is lost, repeated or answered late.
ResultsAreNotDropped ==
    [][\A a \in Devices : \A e \in dev[a].outbox :
         e.report = "ARTIFACT" /\ dev'[a].on /\ e.lease \notin LeasesOf(dev'[a].outbox)
         => \/ ~ LiveLease(rows[e.lease.job], e.lease)
            \/ rows[e.lease.job].status = "CANCELLING"]_sysVars

\* A report saved before a crash or a stop is taken up by the next process,
\* as long as the server would take it.
SavedReportsAreSent ==
    \A a \in Devices : dev[a].on => \A e \in dev[a].disk :
      LiveLease(rows[e.lease.job], e.lease) /\ rows[e.lease.job].status # "CANCELLING"
      => e.lease \in LeasesOf(dev[a].outbox)

\* What BacktestLease shows of leases under arbitrary agents holds of these:
\* the devices and the connection make the server take no other steps.
ImplementsBacktestLease == Spec

\* Only a user cancels: a job becomes CANCELLED from the queue or after the
\* cancellation was accepted, and an expired lease is reassigned.
OnlyUsersCancel ==
    [][\A j \in Jobs : rows'[j].status = "CANCELLED" /\ rows[j].status # "CANCELLED"
         => rows[j].status \in {"QUEUED", "CANCELLING"}]_sysVars

\* Whatever a device has to report is confirmed to it in the end.
ReportsAreConfirmed ==
    \A a \in Devices, j \in Jobs, n \in 1..MaxAttempts :
      LET pending == \E e \in dev[a].outbox : e.lease.job = j /\ e.lease.attempt = n
      IN  pending ~> ~ pending

\* A device does not compute on for a lease that is lost or a job that is
\* being cancelled: it hears of it, or of nothing and its lease runs out.
LostRunsAreStopped ==
    \A a \in Devices, j \in Jobs, n \in 1..MaxAttempts :
      LET lost == \E r \in dev[a].runs :
            /\ r.lease.job = j /\ r.lease.attempt = n
            /\ r.phase = "computing" /\ r.stop = "none"
            /\ ~ LiveLease(rows[j], r.lease) \/ rows[j].status = "CANCELLING"
      IN  lost ~> ~ lost
=============================================================================
