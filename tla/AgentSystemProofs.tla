--------------------------- MODULE AgentSystemProofs ---------------------------
(* Proofs about AgentSystem, in two parts. First, what a step may do: every    *)
(* step of a device or of its connection is a DeviceMove(a), which says what   *)
(* it leaves alone, what it may add and where that comes from, one lemma for   *)
(* each action; and every step of the server is a ServerMove. Then the moves   *)
(* of a device, the moves of the server, a crash and a tick of the clock each  *)
(* keep every part of the invariant SysInv. The properties of the runs follow  *)
(* from it, and so does that AgentSystem implements BacktestLease.             *)
EXTENDS AgentSystem, BacktestLeaseProofs, FiniteSetTheorems, SequenceTheorems

-----------------------------------------------------------------------------
(* Types: every lease in a run, an outbox, a file, a message or an upload  *)
(* was granted, to the device that has it.                                 *)

Mine(a) == {l \in granted : l.agent = a}

Phases == {"computing", "hashing"}

Run(a) == [lease : Mine(a), until : Gone..LeaseTicks, stop : Reason, phase : Phases]

Entry(a) == [lease : Mine(a), report : Reports]

Device(a) ==
    [on : BOOLEAN, version : 0..release, link : {"down", "open", "ready"}, updating : BOOLEAN,
     runs : SUBSET Run(a), outbox : SUBSET Entry(a), disk : SUBSET Entry(a)]

Uplink(a) ==
    [type : {"HELLO"}]
    \cup [type : {"HEARTBEAT"}, lease : Mine(a)]
    \cup [type : {"FINISH"}, lease : Mine(a), outcome : {"FAILED", "CANCELLED"}]

Downlink(a) ==
    [type : {"WELCOME", "UPDATE_REQUIRED"}]
    \cup [type : {"JOB"}, lease : Mine(a), until : Gone..LeaseTicks]
    \cup [type : {"LEASE"}, lease : Mine(a), accepted : BOOLEAN, cancel : BOOLEAN,
          until : Gone..LeaseTicks]
    \cup [type : {"ACK"}, lease : Mine(a)]

PostTyped(p) ==
    /\ p \in [lease : granted, state : {"sent", "open", "done", "bad"}]
    /\ p.lease.agent \in Devices

SysTypeOK ==
    /\ release \in Nat
    /\ dev = [a \in Devices |-> dev[a]]
    /\ toServer = [a \in Devices |-> toServer[a]] /\ toDevice = [a \in Devices |-> toDevice[a]]
    /\ conn \in [Devices -> {"none", "new", "ready", "refused"}]
    /\ \A a \in Devices :
         dev[a] \in Device(a) /\ toServer[a] \in Seq(Uplink(a)) /\ toDevice[a] \in Seq(Downlink(a))
    /\ \A p \in posts : PostTyped(p)

-----------------------------------------------------------------------------
(* The inductive invariant.                                                *)

\* A token is granted once, so that a lease is known by its job and token.
GrantedOnce ==
    /\ IsFiniteSet(granted)
    /\ \A k, l \in granted : k.job = l.job /\ k.token = l.token => k = l

\* A process that does not run has nothing, nothing waits at a broken end, and
\* a server that is down has no connection.
LinkInv ==
    \A a \in Devices :
      /\ ~ up => conn[a] = "none"
      /\ dev[a].link = "down" => toDevice[a] = <<>>
      /\ ~ dev[a].on => /\ dev[a].link = "down" /\ ~ dev[a].updating
                        /\ dev[a].runs = {} /\ dev[a].outbox = {}

\* The server no longer takes a result of the lease.
Dropped(l) == ~ LiveLease(rows[l.job], l) \/ rows[l.job].status = "CANCELLING"

Retired(a) == dev[a].version # release /\ \A l \in Mine(a) : Dropped(l)

\* A device that is told to update has lost its leases, and gets no other.
UpdateInv ==
    \A a \in Devices :
      /\ conn[a] = "ready" => dev[a].version = release
      /\ dev[a].updating => Retired(a)
      /\ \A m \in Range(toDevice[a]) : m.type = "UPDATE_REQUIRED" => Retired(a)

\* Whatever makes a device forget a report is true.
AnswerInv ==
    /\ \A a \in Devices : \A m \in Range(toDevice[a]) :
         m.type = "ACK" \/ (m.type = "LEASE" /\ ~ m.accepted) => Dropped(m.lease)
    /\ \A p \in posts :
         p.state = "done" \/ p.lease \notin LeasesOf(dev[p.lease.agent].outbox) => Dropped(p.lease)
    /\ \A u \in uploads :
         u.stage # "receiving" /\ ~ u.live => ~ LiveLease(rows[u.lease.job], u.lease)
    /\ \A a \in Devices : dev[a].on => \A e \in dev[a].disk :
         e.lease \notin LeasesOf(dev[a].outbox) => Dropped(e.lease)

\* No copy of an expiry is ahead of the server's.
ExpiryInv ==
    \A a \in Devices : \A l \in Mine(a) : SameLease(rows[l.job], l) =>
      /\ \A r \in dev[a].runs : r.lease = l => r.until <= rows[l.job].ttl
      /\ \A m \in Range(toDevice[a]) :
           m.type \in {"JOB", "LEASE"} /\ m.lease = l => m.until <= rows[l.job].ttl

IsJob(m, l) == m.type = "JOB" /\ m.lease = l

\* A job is sent once, to a device that does not know it.
JobInv ==
    \A a \in Devices : \A i \in DOMAIN toDevice[a] : toDevice[a][i].type = "JOB" =>
      /\ toDevice[a][i].lease \notin LeasesOf(dev[a].runs)
      /\ \A k \in DOMAIN toDevice[a] : IsJob(toDevice[a][k], toDevice[a][i].lease) => k = i

\* The device computes it, or will hear that it should.
Underway(a, l) ==
    \/ \E r \in dev[a].runs : r.lease = l /\ r.phase = "computing"
    \/ \E m \in Range(toDevice[a]) : IsJob(m, l)

\* Nothing was reported under the lease.
Silent(a, l) ==
    /\ l \notin LeasesOf(dev[a].outbox) \cup LeasesOf(posts) \cup LeasesOf(uploads)
    /\ \A m \in Range(toServer[a]) : m.type = "FINISH" => m.lease # l

\* What is computed has not been reported.
SilenceInv == \A a \in Devices : \A l \in Mine(a) : Underway(a, l) => Silent(a, l)

\* Every copy of the expiry has passed.
Late(a, l) ==
    /\ \A r \in dev[a].runs : r.lease = l /\ r.phase = "computing" => r.until < 0
    /\ \A m \in Range(toDevice[a]) : m.type \in {"JOB", "LEASE"} /\ m.lease = l => m.until < 0

\* A lease that is not reported is lost by its expiry or by an update only.
LeaseInv ==
    \A a \in Devices : \A l \in Mine(a) :
      Underway(a, l) => SameLease(rows[l.job], l) \/ dev[a].version # release \/ Late(a, l)

SysInv ==
    /\ IInv /\ SysTypeOK /\ GrantedOnce /\ LinkInv /\ UpdateInv /\ AnswerInv
    /\ ExpiryInv /\ JobInv /\ SilenceInv /\ LeaseInv
-----------------------------------------------------------------------------
(* Finite sets and sequences.                                              *)

\* SetToSeq lists the elements of a finite set, and nothing else.
LEMMA ListedElements ==
    ASSUME NEW S, IsFiniteSet(S)
    PROVE  SetToSeq(S) \in Seq(S)
  <1>1. Cardinality(S) \in Nat /\ \E f \in [1..Cardinality(S) -> S] : IsInjective(f)
    BY FS_CardinalityType DEF ExistsBijection, Bijection, Injection
  <1>2. SetToSeq(S) \in [1..Cardinality(S) -> S]
    BY <1>1 DEF SetToSeq
  <1> QED BY <1>1, <1>2

LEMMA ElementsOfSeq ==
    ASSUME NEW S, NEW q \in Seq(S)
    PROVE  /\ Range(q) \subseteq S /\ DOMAIN q = 1..Len(q) /\ Len(q) \in Nat
           /\ \A i \in 1..Len(q) : q[i] \in Range(q)
  <1>1. Len(q) \in Nat /\ DOMAIN q = 1..Len(q) /\ \A i \in 1..Len(q) : q[i] \in S
    OBVIOUS
  <1>2. ASSUME NEW x \in Range(q) PROVE x \in S
    BY <1>1, <1>2 DEF Range
  <1>3. ASSUME NEW i \in 1..Len(q) PROVE q[i] \in Range(q)
    BY <1>1, <1>3 DEF Range
  <1> QED BY <1>1, <1>2, <1>3

LEMMA RangeOfEmpty == Range(<<>>) = {}
  BY DEF Range

LEMMA RangeOfTail ==
    ASSUME NEW S, NEW q \in Seq(S), q # <<>>
    PROVE  /\ Tail(q) \in Seq(S) /\ Head(q) \in S /\ Head(q) \in Range(q)
           /\ Range(Tail(q)) \subseteq Range(q)
  <1>1. /\ Len(q) \in Nat \ {0} /\ DOMAIN q = 1..Len(q) /\ Head(q) = q[1]
        /\ Tail(q) \in Seq(S) /\ DOMAIN Tail(q) = 1..(Len(q) - 1)
        /\ \A i \in 1..(Len(q) - 1) : Tail(q)[i] = q[i + 1]
    BY HeadTailProperties
  <1> QED BY <1>1 DEF Range

LEMMA RangeOfConcat ==
    ASSUME NEW S, NEW q \in Seq(S), NEW s \in Seq(S)
    PROVE  q \o s \in Seq(S) /\ Range(q \o s) = Range(q) \cup Range(s)
  <1>1. /\ Len(q) \in Nat /\ Len(s) \in Nat /\ DOMAIN q = 1..Len(q) /\ DOMAIN s = 1..Len(s)
        /\ q \o s \in Seq(S) /\ DOMAIN (q \o s) = 1..(Len(q) + Len(s))
        /\ \A i \in 1..(Len(q) + Len(s)) :
             (q \o s)[i] = IF i <= Len(q) THEN q[i] ELSE s[i - Len(q)]
    OBVIOUS
  <1>2. ASSUME NEW x \in Range(q \o s) PROVE x \in Range(q) \cup Range(s)
    BY <1>1, <1>2 DEF Range
  <1>3. ASSUME NEW i \in 1..Len(q) PROVE q[i] \in Range(q \o s)
    BY <1>1 DEF Range
  <1>4. ASSUME NEW i \in 1..Len(s) PROVE s[i] \in Range(q \o s)
    <2>1. Len(q) + i \in 1..(Len(q) + Len(s)) /\ (q \o s)[Len(q) + i] = s[i]
      BY <1>1
    <2> QED BY <1>1, <2>1 DEF Range
  <1> QED BY <1>1, <1>2, <1>3, <1>4 DEF Range

LEMMA RangeOfAppend ==
    ASSUME NEW S, NEW q \in Seq(S), NEW m \in S
    PROVE  Append(q, m) \in Seq(S) /\ Range(Append(q, m)) = Range(q) \cup {m}
  <1>1. /\ DOMAIN q = 1..Len(q) /\ Len(q) \in Nat /\ Append(q, m) \in Seq(S)
        /\ DOMAIN Append(q, m) = 1..(Len(q) + 1)
        /\ \A i \in 1..Len(q) : Append(q, m)[i] = q[i]
        /\ Append(q, m)[Len(q) + 1] = m
    BY LenProperties, AppendProperties
  <1>2. 1..(Len(q) + 1) = 1..Len(q) \cup {Len(q) + 1}
    BY <1>1
  <1> QED BY <1>1, <1>2 DEF Range

LEMMA FiniteImage ==
    ASSUME NEW S, IsFiniteSet(S), NEW f, f = [x \in S |-> f[x]]
    PROVE  IsFiniteSet(Range(f))
  <1>1. f \in Surjection(S, Range(f))
    BY DEF Surjection, Range
  <1> QED BY <1>1, FS_Surjection

\* Finitely many leases make finitely many runs and entries.
LEMMA FiniteThings ==
    ASSUME IsFiniteSet(granted), NEW a
    PROVE  IsFiniteSet(Run(a)) /\ IsFiniteSet(Entry(a))
  <1>1. IsFiniteSet(Mine(a))
    BY FS_Subset DEF Mine
  <1>2. /\ IsFiniteSet(Gone..LeaseTicks) /\ IsFiniteSet(Reason) /\ IsFiniteSet(Phases)
        /\ IsFiniteSet(Reports)
    <2>1. IsFiniteSet(Gone..LeaseTicks)
      BY FS_Interval, BacktestLeaseAssumption DEF Gone
    <2>2. \A x, y, z : IsFiniteSet({x, y}) /\ IsFiniteSet({x, y, z})
      <3> SUFFICES ASSUME NEW x, NEW y, NEW z PROVE IsFiniteSet({x, y}) /\ IsFiniteSet({x, y, z})
        OBVIOUS
      <3>1. IsFiniteSet({x}) /\ {x, y} = {x} \cup {y} /\ {x, y, z} = {x, y} \cup {z}
        BY FS_Singleton
      <3>2. IsFiniteSet({x, y})
        BY <3>1, FS_AddElement
      <3> QED BY <3>1, <3>2, FS_AddElement
    <2> QED BY <2>1, <2>2 DEF Reason, Phases, Reports
  <1>3. IsFiniteSet(Run(a))
    <2> DEFINE P == Mine(a) \X (Gone..LeaseTicks)
               Q == Reason \X Phases
               f == [r \in Run(a) |-> <<<<r.lease, r.until>>, <<r.stop, r.phase>>>>]
    <2>1. IsFiniteSet(P) /\ IsFiniteSet(Q)
      BY <1>1, <1>2, FS_Product
    <2>2. IsFiniteSet(P \X Q)
      BY <2>1, FS_Product
    <2>3. f \in Injection(Run(a), P \X Q)
      <3>1. f \in [Run(a) -> P \X Q]
        BY DEF Run
      <3>2. ASSUME NEW r \in Run(a), NEW s \in Run(a), f[r] = f[s] PROVE r = s
        <4>1. r.lease = s.lease /\ r.until = s.until /\ r.stop = s.stop /\ r.phase = s.phase
          BY <3>2
        <4> QED BY <4>1 DEF Run
      <3> QED BY <3>1, <3>2 DEF Injection, IsInjective
    <2> QED BY <2>2, <2>3, FS_Injection
  <1>4. IsFiniteSet(Entry(a))
    <2> DEFINE f == [e \in Entry(a) |-> <<e.lease, e.report>>]
    <2>1. IsFiniteSet(Mine(a) \X Reports)
      BY <1>1, <1>2, FS_Product
    <2>2. f \in Injection(Entry(a), Mine(a) \X Reports)
      <3>1. f \in [Entry(a) -> Mine(a) \X Reports]
        BY DEF Entry
      <3>2. ASSUME NEW d \in Entry(a), NEW e \in Entry(a), f[d] = f[e] PROVE d = e
        <4>1. d.lease = e.lease /\ d.report = e.report
          BY <3>2
        <4> QED BY <4>1 DEF Entry
      <3> QED BY <3>1, <3>2 DEF Injection, IsInjective
    <2> QED BY <2>1, <2>2, FS_Injection
  <1> QED BY <1>3, <1>4

-----------------------------------------------------------------------------
(* What the handlers of a device make of it is a device.                   *)

LEMMA Ticks == Gone = -1 /\ Expired = -1 /\ LeaseTicks \in Nat /\ LeaseTicks >= 1
  BY BacktestLeaseAssumption DEF Gone, Expired

LEMMA QueueTyped ==
    ASSUME NEW a, NEW d \in Device(a), NEW l \in Mine(a), NEW report \in Reports
    PROVE  Queue(d, l, report) \in Device(a)
  <1>1. Without(d.runs, l) \in SUBSET Run(a)
    BY DEF Device, Without
  <1>2. Overwrite(d.outbox, {[lease |-> l, report |-> report]}) \in SUBSET Entry(a)
    BY DEF Device, Overwrite, Entry
  <1> QED BY <1>1, <1>2 DEF Queue, Device

LEMMA SavedTyped ==
    ASSUME NEW a, NEW d \in Device(a), NEW entries \in SUBSET Entry(a)
    PROVE  Saved(d, entries) \in Device(a)
  <1>1. Overwrite(d.disk, entries) \in SUBSET Entry(a)
    BY DEF Device, Overwrite
  <1> QED BY <1>1 DEF Saved, Device

LEMMA AcknowledgeTyped ==
    ASSUME NEW a, NEW d \in Device(a), NEW l
    PROVE  Acknowledge(d, l) \in Device(a)
  <1>1. Without(d.outbox, l) \in SUBSET Entry(a) /\ Without(d.disk, l) \in SUBSET Entry(a)
    BY DEF Device, Without
  <1> QED BY <1>1 DEF Acknowledge, Device

LEMMA TakeJobTyped ==
    ASSUME NEW a, NEW d \in Device(a), NEW l \in Mine(a), NEW until \in Gone..LeaseTicks
    PROVE  TakeJob(d, l, until) \in Device(a)
  <1>1. NewRun(l, until) \in Run(a)
    BY DEF NewRun, Run, Reason, Phases
  <1> QED BY <1>1 DEF TakeJob, Device

LEMMA StoppedTyped ==
    ASSUME NEW a, NEW r \in Run(a), NEW reason \in Reason
    PROVE  /\ Stopped(r, reason) \in Run(a)
           /\ Stopped(r, reason).lease = r.lease /\ Stopped(r, reason).until = r.until
           /\ Stopped(r, reason).phase = r.phase
  BY DEF Stopped, Run

LEMMA RenewedTyped ==
    ASSUME NEW a, NEW r \in Run(a), NEW m,
           m.until \in Gone..LeaseTicks
    PROVE  /\ Renewed(r, m) \in Run(a)
           /\ Renewed(r, m).lease = r.lease /\ Renewed(r, m).phase = r.phase
           /\ Renewed(r, m).until = r.until \/ Renewed(r, m).until = m.until
  <1> DEFINE s == IF m.accepted /\ ~ m.cancel THEN r ELSE Stopped(r, "server")
  <1>1. s \in Run(a) /\ s.lease = r.lease /\ s.until = r.until /\ s.phase = r.phase
    BY StoppedTyped DEF Reason
  <1>2. Renewed(r, m) = [s EXCEPT !.until = IF m.until = Gone THEN s.until ELSE m.until]
    BY DEF Renewed
  <1> HIDE DEF s
  <1> QED BY <1>1, <1>2 DEF Run

LEMMA RenewRunsTyped ==
    ASSUME NEW a, NEW d \in Device(a), NEW m, m.until \in Gone..LeaseTicks
    PROVE  /\ RenewRuns(d, m) \in Device(a)
           /\ RenewRuns(d, m) = [d EXCEPT !.runs = RenewRuns(d, m).runs]
           /\ \A r \in RenewRuns(d, m).runs : \E x \in d.runs :
                /\ r.lease = x.lease /\ r.phase = x.phase
                /\ \/ r.until = x.until
                   \/ r.until = m.until /\ r.lease = m.lease
  <1> DEFINE f(r) == IF r.lease = m.lease /\ r.phase = "computing" THEN Renewed(r, m) ELSE r
  <1>1. \A x \in d.runs : /\ f(x) \in Run(a) /\ f(x).lease = x.lease /\ f(x).phase = x.phase
                          /\ \/ f(x).until = x.until
                             \/ f(x).until = m.until /\ f(x).lease = m.lease
    BY RenewedTyped DEF Device
  <1>2. RenewRuns(d, m) = [d EXCEPT !.runs = {f(r) : r \in d.runs}]
    BY DEF RenewRuns
  <1> HIDE DEF f
  <1>3. RenewRuns(d, m).runs = {f(r) : r \in d.runs}
    BY <1>2 DEF Device
  <1> QED BY <1>1, <1>2, <1>3 DEF Device

LEMMA HearLeaseTyped ==
    ASSUME NEW a, NEW d \in Device(a), NEW m, m.until \in Gone..LeaseTicks
    PROVE  HearLease(d, m) \in Device(a)
  BY RenewRunsTyped, AcknowledgeTyped DEF HearLease

LEMMA BeginUpdateTyped ==
    ASSUME NEW a, NEW d \in Device(a)
    PROVE  /\ BeginUpdate(d) \in Device(a)
           /\ BeginUpdate(d) = [d EXCEPT !.link = "open", !.updating = TRUE,
                                         !.runs = BeginUpdate(d).runs]
           /\ \A r \in BeginUpdate(d).runs : \E x \in d.runs :
                r.lease = x.lease /\ r.phase = x.phase /\ r.until = x.until
  <1> DEFINE f(r) == IF r.phase = "computing" THEN Stopped(r, "server") ELSE r
  <1>1. \A x \in d.runs : /\ f(x) \in Run(a) /\ f(x).lease = x.lease /\ f(x).phase = x.phase
                          /\ f(x).until = x.until
    BY StoppedTyped DEF Device, Reason
  <1>2. BeginUpdate(d) = [d EXCEPT !.link = "open", !.updating = TRUE,
                                   !.runs = {f(r) : r \in d.runs}]
    BY DEF BeginUpdate
  <1> HIDE DEF f
  <1>3. {f(r) : r \in d.runs} \in SUBSET Run(a)
    BY <1>1
  <1> DEFINE runs == {f(r) : r \in d.runs}
  <1>4. \A r \in runs : \E x \in d.runs :
          r.lease = x.lease /\ r.phase = x.phase /\ r.until = x.until
    BY <1>1
  <1> HIDE DEF runs
  <1>5. BeginUpdate(d) = [d EXCEPT !.link = "open", !.updating = TRUE, !.runs = runs]
    BY <1>2 DEF runs
  <1>6. BeginUpdate(d).runs = runs /\ BeginUpdate(d) \in Device(a)
    BY <1>3, <1>5 DEF runs, Device
  <1> QED BY <1>4, <1>5, <1>6

LEMMA ForgetReportsTyped ==
    ASSUME NEW a, NEW d \in Device(a)
    PROVE  ForgetReports(d) \in Device(a)
  <1>1. {e \in d.disk : e.lease \notin LeasesOf(d.outbox)} \in SUBSET Entry(a)
    BY DEF Device
  <1> QED BY <1>1 DEF ForgetReports, Device

LEMMA StartTyped ==
    ASSUME NEW a, NEW d \in Device(a), NEW version \in 0..release
    PROVE  Start(d, version) \in Device(a)
  BY DEF Start, NoDevice, Device

LEMMA EndTyped ==
    ASSUME NEW a, NEW d \in Device(a), NEW hashed \in SUBSET d.runs
    PROVE  End(d, hashed) \in Device(a)
  <1> DEFINE results == {[lease |-> r.lease, report |-> "ARTIFACT"] : r \in hashed}
  <1>1. results \in SUBSET Entry(a)
    BY DEF Device, Run, Entry, Reports
  <1>2. End(d, hashed) = [NoDevice EXCEPT !.version = d.version, !.disk = Overwrite(d.disk, results)]
    BY DEF End
  <1> HIDE DEF results
  <1>3. Overwrite(d.disk, results) \in SUBSET Entry(a)
    BY <1>1 DEF Overwrite, Device
  <1>4. \A disk \in SUBSET Entry(a) :
          [NoDevice EXCEPT !.version = d.version, !.disk = disk] \in Device(a)
    BY DEF NoDevice, Device
  <1> QED BY <1>2, <1>3, <1>4

-----------------------------------------------------------------------------
(* What a device sends.                                                    *)

\* heartbeat() sends heartbeats, and the final reports of the outbox.
LEMMA BeatsTyped ==
    ASSUME IsFiniteSet(granted), NEW a, NEW d \in Device(a)
    PROVE  /\ Beats(d) \in Seq(Uplink(a))
           /\ \A m \in Range(Beats(d)) : m.type = "FINISH" => m.lease \in LeasesOf(d.outbox)
  <1> DEFINE running == {x \in d.runs : x.phase = "computing"}
             beat(r) == Beat(r.lease)
             entry(e) == IF e.report = "ARTIFACT" THEN Beat(e.lease) ELSE Final(e)
             B == {beat(r) : r \in running}
             E == {entry(e) : e \in d.outbox}
             U == {m \in Uplink(a) : m.type = "FINISH" => m.lease \in LeasesOf(d.outbox)}
  <1>1. CASE d.link # "ready"
    <2>1. Beats(d) = <<>> /\ <<>> \in Seq(Uplink(a))
      BY <1>1 DEF Beats
    <2> QED BY <2>1, RangeOfEmpty
  <1>2. CASE d.link = "ready"
    <2>1. IsFiniteSet(running) /\ IsFiniteSet(d.outbox)
      <3>1. running \subseteq Run(a) /\ d.outbox \subseteq Entry(a)
        BY DEF Device
      <3> QED BY <3>1, FiniteThings, FS_Subset
    <2>2. IsFiniteSet(B) /\ IsFiniteSet(E)
      <3>1. Range([r \in running |-> beat(r)]) = B /\ Range([e \in d.outbox |-> entry(e)]) = E
        BY DEF Range
      <3>2. IsFiniteSet(Range([r \in running |-> beat(r)]))
        BY <2>1, FiniteImage
      <3>3. IsFiniteSet(Range([e \in d.outbox |-> entry(e)]))
        BY <2>1, FiniteImage
      <3> QED BY <3>1, <3>2, <3>3
    <2>3. B \subseteq U
      BY DEF Device, Run, Beat, Uplink
    <2>4. E \subseteq U
      BY DEF Device, Entry, Reports, Beat, Final, Uplink, LeasesOf
    <2>5. SetToSeq(B) \in Seq(U) /\ SetToSeq(E) \in Seq(U)
      BY <2>2, <2>3, <2>4, ListedElements, SeqMonotonic
    <2>6. Beats(d) = SetToSeq(B) \o SetToSeq(E)
      BY <1>2 DEF Beats
    <2> HIDE DEF B, E
    <2>7. Beats(d) \in Seq(U)
      BY <2>5, <2>6
    <2> HIDE DEF U
    <2>8. Range(Beats(d)) \subseteq U
      BY <2>7, ElementsOfSeq
    <2>9. U \subseteq Uplink(a)
      BY DEF U
    <2> QED BY <2>7, <2>8, <2>9, SeqMonotonic DEF U
  <1> QED BY <1>1, <1>2

\* What heartbeat() does, at the end of a step that leaves the device as d:
\* what it writes, sends and uploads is in the outbox.
Beating(a, d) ==
    /\ \E disk \in SUBSET Entry(a) :
         disk \subseteq d.disk \cup d.outbox /\ SetDev(a, [d EXCEPT !.disk = disk])
    /\ \E sent \in Seq(Uplink(a)) :
         /\ toServer' = [toServer EXCEPT ![a] = @ \o sent]
         /\ \A m \in Range(sent) : m.type = "FINISH" => m.lease \in LeasesOf(d.outbox)
    /\ \E new : /\ posts' = posts \cup new
               /\ \A p \in new : /\ p \in [lease : Mine(a), state : {"sent"}]
                                 /\ p.lease \in LeasesOf(d.outbox)

LEMMA HeartbeatBeats ==
    ASSUME IsFiniteSet(granted), NEW a, NEW d \in Device(a), HeartbeatOf(a, d)
    PROVE  Beating(a, d)
  <1>1. \E disk \in SUBSET Entry(a) :
          disk \subseteq d.disk \cup d.outbox /\ SetDev(a, [d EXCEPT !.disk = disk])
    <2>1. PICK saved \in {{}, d.outbox} : SetDev(a, Saved(d, saved))
      BY DEF HeartbeatOf
    <2>2. Saved(d, saved) = [d EXCEPT !.disk = Overwrite(d.disk, saved)]
      BY DEF Saved
    <2>3. Overwrite(d.disk, saved) \in SUBSET Entry(a)
      BY DEF Device, Overwrite
    <2>4. Overwrite(d.disk, saved) \subseteq d.disk \cup d.outbox
      BY DEF Overwrite
    <2> QED BY <2>1, <2>2, <2>3, <2>4
  <1>2. toServer' = [toServer EXCEPT ![a] = @ \o Beats(d)]
    BY DEF HeartbeatOf
  <1>3. \A l \in ToUpload(d) : l \in Mine(a) /\ l \in LeasesOf(d.outbox)
    BY DEF ToUpload, LeasesOf, Device, Entry
  <1>4. \A p \in {[lease |-> l, state |-> "sent"] : l \in ToUpload(d) \ LeasesOf(posts)} :
          p \in [lease : Mine(a), state : {"sent"}] /\ p.lease \in LeasesOf(d.outbox)
    BY <1>3
  <1> QED BY <1>1, <1>2, <1>4, BeatsTyped DEF HeartbeatOf, Beating

LEMMA QueueReportBeats ==
    ASSUME IsFiniteSet(granted), NEW a, NEW d \in Device(a), NEW l \in Mine(a),
           NEW report \in Reports, QueueReport(a, d, l, report)
    PROVE  Beating(a, Queue(d, l, report))
  <1> DEFINE q == Queue(d, l, report)
             e == [lease |-> l, report |-> report]
             w == Saved(q, {e})
  <1>1. q \in Device(a) /\ w \in Device(a) /\ e \in q.outbox
    BY QueueTyped, SavedTyped DEF Entry, Queue, Overwrite, Device
  <1>2. w = [q EXCEPT !.disk = Overwrite(q.disk, {e})]
    BY DEF Saved
  <1>3. HeartbeatOf(a, q) \/ HeartbeatOf(a, w)
    BY DEF QueueReport
  <1> HIDE DEF q, w, e
  <1>4. ASSUME Beating(a, w) PROVE Beating(a, q)
    <2>1. w.outbox = q.outbox /\ w.disk = Overwrite(q.disk, {e})
      BY <1>1, <1>2 DEF Device
    <2>2. w.disk \subseteq q.disk \cup q.outbox
      BY <1>1, <2>1 DEF Overwrite
    <2>3. \A disk : [w EXCEPT !.disk = disk] = [q EXCEPT !.disk = disk]
      <3> SUFFICES ASSUME NEW disk PROVE [w EXCEPT !.disk = disk] = [q EXCEPT !.disk = disk]
        OBVIOUS
      <3>1. \A x : [[q EXCEPT !.disk = x] EXCEPT !.disk = disk] = [q EXCEPT !.disk = disk]
        BY <1>1 DEF Device
      <3> QED BY <1>2, <3>1
    <2> QED BY <1>4, <2>1, <2>2, <2>3 DEF Beating
  <1>5. Beating(a, q)
    BY <1>1, <1>3, <1>4, HeartbeatBeats
  <1> QED BY <1>5 DEF q

-----------------------------------------------------------------------------
(* The server of AgentSystem takes the steps of BacktestLease.             *)

LEMMA Heads ==
    ASSUME SysTypeOK, NEW a \in Devices
    PROVE  /\ toServer[a] # <<>> => /\ Head(toServer[a]) \in Uplink(a)
                                    /\ Head(toServer[a]) \in Range(toServer[a])
                                    /\ Tail(toServer[a]) \in Seq(Uplink(a))
                                    /\ Range(Tail(toServer[a])) \subseteq Range(toServer[a])
           /\ toDevice[a] # <<>> => /\ Head(toDevice[a]) \in Downlink(a)
                                    /\ Head(toDevice[a]) \in Range(toDevice[a])
                                    /\ Tail(toDevice[a]) \in Seq(Downlink(a))
                                    /\ Range(Tail(toDevice[a])) \subseteq Range(toDevice[a])
  BY RangeOfTail DEF SysTypeOK

LEMMA DevicesAreAgents == \A a \in Devices : a \in Agents /\ a # NoAgent
  BY BacktestLeaseAssumption DEF Devices

LEMMA SysStepIsWork ==
    ASSUME SysTypeOK, ConnectionNext \/ DeviceNext \/ SysServerNext
    PROVE  Work \/ UNCHANGED vars
  <1>1. CASE ConnectionNext \/ DeviceNext
    <2>1. UNCHANGED vars
      BY <1>1 DEF ConnectionNext, DeviceNext, ServerRests, Connect, Disconnect, NoticeDisconnect,
                  HeartbeatTimer, StopExpired, ChildExits, EndHash, Hears, HearWelcome, HearJob,
                  HearLeaseAnswer, HearAck, HearUpdateRequired, EndUpdate, UploadDone,
                  UploadRefused, UploadFails, StartDevice, EndDevice
    <2> QED BY <2>1
  <1>2. ASSUME NEW a \in Devices, ServeHello(a) PROVE Work \/ UNCHANGED vars
    BY <1>2, DevicesAreAgents DEF ServeHello, Work, AgentNext
  <1>3. ASSUME NEW a \in Devices, ServeHeartbeat(a) PROVE Work \/ UNCHANGED vars
    <2> DEFINE l == Head(toServer[a]).lease
    <2>1. l \in granted
      BY <1>3, Heads DEF ServeHeartbeat, Serves, Uplink, Mine
    <2>2. HeartbeatLease(l) \/ UNCHANGED vars
      BY <1>3 DEF ServeHeartbeat
    <2> HIDE DEF l
    <2> QED BY <2>1, <2>2 DEF Work, AgentNext
  <1>4. ASSUME NEW a \in Devices, ServeFinish(a) PROVE Work \/ UNCHANGED vars
    <2> DEFINE m == Head(toServer[a])
    <2>1. m.lease \in granted /\ m.outcome \in {"FAILED", "CANCELLED"}
      BY <1>4, Heads DEF ServeFinish, Serves, Uplink, Mine
    <2>2. FinishLease(m.lease, m.outcome) \/ UNCHANGED vars
      BY <1>4 DEF ServeFinish
    <2> HIDE DEF m
    <2> QED BY <2>1, <2>2 DEF Work, AgentNext
  <1>5. ASSUME NEW a \in Devices, PushCancel(a) PROVE Work \/ UNCHANGED vars
    BY <1>5 DEF PushCancel
  <1>6. ASSUME NEW a \in Devices, NEW j \in Jobs, GiveJob(a, j) PROVE Work \/ UNCHANGED vars
    BY <1>6, DevicesAreAgents DEF GiveJob, Work, AgentNext
  <1>7. CASE ServePost
    <2>1. PICK p \in posts : StartUpload(p.lease) \/ UNCHANGED vars
      BY <1>7 DEF ServePost
    <2>2. p.lease \in granted
      BY DEF SysTypeOK, PostTyped
    <2> QED BY <2>1, <2>2 DEF Work, AgentNext
  <1>8. CASE EndImport \/ EndUpload
    BY <1>8 DEF EndImport, EndUpload, Work, ServerNext
  <1>9. CASE ServerAlone
    BY <1>9 DEF ServerAlone, Work, ServerNext
  <1>10. CASE SysCrash \/ SysBoot
    BY <1>10 DEF SysCrash, SysBoot, Work
  <1> QED BY <1>1, <1>2, <1>3, <1>4, <1>5, <1>6, <1>7, <1>8, <1>9, <1>10
          DEF SysServerNext

LEMMA SysStepIsStep ==
    ASSUME SysTypeOK, SysNext
    PROVE  Next \/ UNCHANGED vars
  <1>1. CASE ConnectionNext \/ DeviceNext \/ SysServerNext
    BY <1>1, SysStepIsWork DEF Work, Next
  <1>2. CASE SysTick
    BY <1>2 DEF SysTick, Next
  <1> QED BY <1>1, <1>2 DEF SysNext

-----------------------------------------------------------------------------
(* What is granted stays granted, and releases go forward.                 *)

LEMMA TypesGrow ==
    ASSUME granted \subseteq granted', release \in Nat, release' \in Nat, release <= release',
           NEW a
    PROVE  /\ Mine(a) \subseteq Mine(a)' /\ Run(a) \subseteq Run(a)' /\ Entry(a) \subseteq Entry(a)'
           /\ Device(a) \subseteq Device(a)'
           /\ Uplink(a) \subseteq Uplink(a)' /\ Downlink(a) \subseteq Downlink(a)'
           /\ Seq(Uplink(a)) \subseteq Seq(Uplink(a))' /\ Seq(Downlink(a)) \subseteq Seq(Downlink(a))'
  <1>1. Mine(a) \subseteq Mine(a)'
    BY DEF Mine
  <1>2. Run(a) \subseteq Run(a)' /\ Entry(a) \subseteq Entry(a)'
    BY <1>1 DEF Run, Entry
  <1>3. Device(a) \subseteq Device(a)'
    <2>1. 0..release \subseteq 0..release'
      OBVIOUS
    <2> QED BY <1>2, <2>1 DEF Device
  <1>4. Uplink(a) \subseteq Uplink(a)'
    BY <1>1 DEF Uplink
  <1>5. Downlink(a) \subseteq Downlink(a)'
    BY <1>1 DEF Downlink
  <1>6. Seq(Uplink(a)) \subseteq Seq(Uplink(a)') /\ Seq(Downlink(a)) \subseteq Seq(Downlink(a)')
    BY <1>4, <1>5, SeqMonotonic
  <1> QED BY <1>1, <1>2, <1>3, <1>4, <1>5, <1>6

LEMMA ReleasesGrow ==
    ASSUME SysTypeOK, SysNext
    PROVE  release' \in Nat /\ release <= release' /\ (release' # release => SysBoot)
  <1>1. CASE SysBoot
    BY <1>1, AgentSystemAssumption DEF SysBoot, SysTypeOK
  <1>2. CASE ~ SysBoot
    <2>1. release' = release
      BY <1>2 DEF SysNext, ConnectionNext, DeviceNext, SysServerNext, ServerRests, Connect,
                  Disconnect, NoticeDisconnect,
                  HeartbeatTimer, StopExpired, ChildExits, EndHash, Hears, HearWelcome, HearJob,
                  HearLeaseAnswer, HearAck, HearUpdateRequired, EndUpdate, UploadDone,
                  UploadRefused, UploadFails, StartDevice, EndDevice, Serves, ServeHello,
                  ServeHeartbeat, ServeFinish, PushCancel, GiveJob, ServePost, EndImport,
                  EndUpload, ServerAlone, SysCrash, SysTick
    <2> QED BY <2>1 DEF SysTypeOK
  <1> QED BY <1>1, <1>2

LEMMA SysGrows ==
    ASSUME IInv, SysTypeOK, SysNext
    PROVE  /\ granted \subseteq granted'
           /\ release' \in Nat /\ release <= release'
           /\ IInv'
  <1>1. Next \/ UNCHANGED vars
    BY SysStepIsStep
  <1>2. granted \subseteq granted' /\ IInv'
    <2>1. CASE Next
      BY <2>1, RowMoves, NextKeepsIInv
    <2>2. CASE UNCHANGED vars
      BY <2>2, StutterKeepsIInv DEF vars
    <2> QED BY <1>1, <2>1, <2>2
  <1> QED BY <1>2, ReleasesGrow

-----------------------------------------------------------------------------
(* What a step of a device a may do, whichever it is.                      *)

\* It moves one device and the ends of its connection; the server rests.
Frame(a) ==
    /\ UNCHANGED <<vars, release>>
    /\ dev' = [dev EXCEPT ![a] = dev'[a]]
    /\ toServer' = [toServer EXCEPT ![a] = toServer'[a]]
    /\ toDevice' = [toDevice EXCEPT ![a] = toDevice'[a]]
    /\ conn' = [conn EXCEPT ![a] = conn'[a]]

WireMove(a) ==
    \/ toDevice'[a] = toDevice[a]
    \/ toDevice'[a] = <<>>
    \/ toDevice[a] # <<>> /\ toDevice'[a] = Tail(toDevice[a])

\* A run has the expiry it had, or that of the message that was heard.
RunsFrom(a, runs) ==
    \A r \in runs :
      \/ \E x \in dev[a].runs : /\ x.lease = r.lease /\ x.until = r.until
                                /\ r.phase = "computing" => x.phase = "computing"
      \/ /\ toDevice[a] # <<>> /\ toDevice'[a] = Tail(toDevice[a])
         /\ Head(toDevice[a]).lease = r.lease /\ Head(toDevice[a]).until = r.until
         /\ \/ Head(toDevice[a]).type = "JOB"
            \/ /\ Head(toDevice[a]).type = "LEASE"
               /\ \E x \in dev[a].runs : /\ x.lease = r.lease
                                         /\ r.phase = "computing" => x.phase = "computing"

\* What is new in the outbox is computed no more.
OutboxFrom(a, outbox, runs) ==
    \A l \in LeasesOf(outbox) \ LeasesOf(dev[a].outbox) :
      l \notin LeasesOf(runs) /\ \A m \in Range(toDevice'[a]) : ~ IsJob(m, l)

\* What leaves it is of no use.
LostMove(a) ==
    \A l \in LeasesOf(dev[a].outbox) \ LeasesOf(dev'[a].outbox) :
      Dropped(l) \/ (~ dev'[a].on /\ PostsOf(a)' = {})

DiskMove(a) ==
    dev'[a].on => \A e \in dev'[a].disk : e.lease \in LeasesOf(dev'[a].outbox) \/ Dropped(e.lease)

SendMove(a) ==
    /\ \A m \in Range(toServer'[a]) : m.type = "FINISH" =>
         m \in Range(toServer[a]) \/ m.lease \in LeasesOf(dev'[a].outbox) \cup LeasesOf(posts)
    /\ \A p \in posts' : p \in posts \/ /\ p \in [lease : Mine(a), state : {"sent"}]
                                        /\ p.lease \in LeasesOf(dev'[a].outbox)

LifeMove(a) ==
    /\ dev'[a].link = "down" => toDevice'[a] = <<>>
    /\ ~ dev'[a].on => /\ dev'[a].link = "down" /\ ~ dev'[a].updating
                       /\ dev'[a].runs = {} /\ dev'[a].outbox = {}
    /\ \/ dev'[a].version = dev[a].version
       \/ /\ dev[a].version <= dev'[a].version
          /\ ~ dev'[a].updating /\ dev'[a].runs = {} /\ toDevice'[a] = <<>>
    /\ dev'[a].updating => dev[a].updating \/ Retired(a)
    /\ conn'[a] = conn[a] \/ conn'[a] = "none" \/ (conn'[a] = "new" /\ up)

TypedMove(a) ==
    dev'[a] \in Device(a) /\ toServer'[a] \in Seq(Uplink(a))

DeviceMove(a) ==
    /\ Frame(a) /\ TypedMove(a) /\ WireMove(a) /\ LifeMove(a) /\ SendMove(a)
    /\ RunsFrom(a, dev'[a].runs) /\ OutboxFrom(a, dev'[a].outbox, dev'[a].runs)
    /\ LostMove(a) /\ DiskMove(a)

LEMMA SysParts == 
    ASSUME SysInv, NEW a \in Devices
    PROVE  /\ SysTypeOK /\ IsFiniteSet(granted)
           /\ dev[a] \in Device(a) /\ toServer[a] \in Seq(Uplink(a))
           /\ toDevice[a] \in Seq(Downlink(a)) /\ conn[a] \in {"none", "new", "ready", "refused"}
           /\ DOMAIN dev = Devices /\ DOMAIN toServer = Devices /\ DOMAIN toDevice = Devices
           /\ DOMAIN conn = Devices
           /\ dev[a].link = "down" => toDevice[a] = <<>>
           /\ ~ dev[a].on => /\ dev[a].link = "down" /\ ~ dev[a].updating
                             /\ dev[a].runs = {} /\ dev[a].outbox = {}
           /\ \A p \in posts : p.lease \in granted
  BY DEF SysInv, SysTypeOK, GrantedOnce, LinkInv, PostTyped

LEMMA BeatingEffect ==
    ASSUME SysTypeOK, NEW a \in Devices, NEW d \in Device(a), Beating(a, d)
    PROVE  /\ dev' = [dev EXCEPT ![a] = dev'[a]] /\ dev'[a] \in Device(a)
           /\ dev'[a].on = d.on /\ dev'[a].version = d.version /\ dev'[a].link = d.link
           /\ dev'[a].updating = d.updating /\ dev'[a].runs = d.runs /\ dev'[a].outbox = d.outbox
           /\ dev'[a].disk \subseteq d.disk \cup d.outbox
           /\ toServer' = [toServer EXCEPT ![a] = toServer'[a]]
           /\ toServer'[a] \in Seq(Uplink(a))
           /\ SendMove(a)
  <1>1. PICK disk \in SUBSET Entry(a) :
          disk \subseteq d.disk \cup d.outbox /\ SetDev(a, [d EXCEPT !.disk = disk])
    BY DEF Beating
  <1>2. PICK sent \in Seq(Uplink(a)) :
          /\ toServer' = [toServer EXCEPT ![a] = @ \o sent]
          /\ \A m \in Range(sent) : m.type = "FINISH" => m.lease \in LeasesOf(d.outbox)
    BY DEF Beating
  <1>3. dev' = [dev EXCEPT ![a] = [d EXCEPT !.disk = disk]] /\ DOMAIN dev = Devices
    BY <1>1 DEF SetDev, SysTypeOK
  <1>4. dev'[a] = [d EXCEPT !.disk = disk]
    BY <1>3
  <1>5. dev'[a] \in Device(a) /\ dev'[a].disk = disk
    BY <1>4 DEF Device
  <1>6. /\ dev'[a].on = d.on /\ dev'[a].version = d.version /\ dev'[a].link = d.link
        /\ dev'[a].updating = d.updating /\ dev'[a].runs = d.runs /\ dev'[a].outbox = d.outbox
    BY <1>4 DEF Device
  <1>7. toServer'[a] = toServer[a] \o sent /\ toServer[a] \in Seq(Uplink(a))
    BY <1>2 DEF SysTypeOK
  <1>8. toServer'[a] \in Seq(Uplink(a)) /\ Range(toServer'[a]) = Range(toServer[a]) \cup Range(sent)
    BY <1>7, RangeOfConcat
  <1>9. SendMove(a)
    BY <1>2, <1>6, <1>8 DEF SendMove, Beating
  <1> QED BY <1>1, <1>2, <1>3, <1>4, <1>5, <1>6, <1>7, <1>8, <1>9

LEMMA BeatingMoves ==
    ASSUME SysInv, NEW a \in Devices, NEW d \in Device(a), Beating(a, d),
           UNCHANGED <<vars, release, conn>>,
           toDevice' = [toDevice EXCEPT ![a] = toDevice'[a]], WireMove(a),
           dev[a].on, d.on, dev[a].version = d.version, dev[a].updating = d.updating,
           d.link = "down" => toDevice'[a] = <<>>, d.disk = dev[a].disk,
           RunsFrom(a, d.runs), OutboxFrom(a, d.outbox, d.runs),
           LeasesOf(dev[a].outbox) \subseteq LeasesOf(d.outbox)
    PROVE  DeviceMove(a)
  <1>1. SysTypeOK /\ DOMAIN conn = Devices
    BY SysParts
  <1>2. /\ dev' = [dev EXCEPT ![a] = dev'[a]] /\ dev'[a] \in Device(a)
        /\ dev'[a].on = d.on /\ dev'[a].version = d.version /\ dev'[a].link = d.link
        /\ dev'[a].updating = d.updating /\ dev'[a].runs = d.runs /\ dev'[a].outbox = d.outbox
        /\ dev'[a].disk \subseteq d.disk \cup d.outbox
        /\ toServer' = [toServer EXCEPT ![a] = toServer'[a]]
        /\ toServer'[a] \in Seq(Uplink(a))
        /\ SendMove(a)
    BY <1>1, BeatingEffect
  <1>3. Frame(a) /\ TypedMove(a)
    BY <1>1, <1>2 DEF Frame, TypedMove, SysTypeOK
  <1>4. LifeMove(a)
    BY <1>2 DEF LifeMove
  <1>5. LostMove(a)
    BY <1>2 DEF LostMove
  <1>6. DiskMove(a)
    BY <1>2 DEF DiskMove, SysInv, AnswerInv, LeasesOf
  <1> QED BY <1>2, <1>3, <1>4, <1>5, <1>6 DEF DeviceMove

-----------------------------------------------------------------------------
(* The steps of a device are such moves.                                   *)

\* A job that waits to be heard is not known, and waits once.
LEMMA WaitingJobs ==
    ASSUME SysInv, NEW a \in Devices
    PROVE  /\ \A m \in Range(toDevice[a]) : m.type = "JOB" => m.lease \notin LeasesOf(dev[a].runs)
           /\ toDevice[a] # <<>> /\ Head(toDevice[a]).type = "JOB" =>
                \A m \in Range(Tail(toDevice[a])) : ~ IsJob(m, Head(toDevice[a]).lease)
  <1> DEFINE q == toDevice[a]
  <1>1. /\ q \in Seq(Downlink(a))
        /\ \A i \in DOMAIN q : q[i].type = "JOB" =>
             /\ q[i].lease \notin LeasesOf(dev[a].runs)
             /\ \A k \in DOMAIN q : IsJob(q[k], q[i].lease) => k = i
    BY SysParts DEF SysInv, JobInv
  <1> HIDE DEF q
  <1>2. \A m \in Range(q) : m.type = "JOB" => m.lease \notin LeasesOf(dev[a].runs)
    BY <1>1 DEF Range
  <1>3. ASSUME q # <<>>, Head(q).type = "JOB", NEW m \in Range(Tail(q)), IsJob(m, Head(q).lease)
        PROVE  FALSE
    <2>1. /\ Len(q) \in Nat \ {0} /\ DOMAIN q = 1..Len(q) /\ Head(q) = q[1]
          /\ Tail(q) \in Seq(Downlink(a)) /\ DOMAIN Tail(q) = 1..(Len(q) - 1)
          /\ \A i \in 1..(Len(q) - 1) : Tail(q)[i] = q[i + 1]
      BY <1>1, <1>3, HeadTailProperties
    <2>2. PICK i \in 1..(Len(q) - 1) : m = q[i + 1]
      BY <2>1 DEF Range
    <2>3. i + 1 \in DOMAIN q /\ 1 \in DOMAIN q /\ i + 1 # 1
      BY <2>1
    <2> QED BY <1>1, <1>3, <2>1, <2>2, <2>3
  <1> QED BY <1>2, <1>3 DEF q

LEMMA ConnectMoves ==
    ASSUME SysInv, NEW a \in Devices, Connect(a) \/ Disconnect(a) \/ NoticeDisconnect(a)
    PROVE  DeviceMove(a)
  <1> DEFINE d == dev[a]
  <1>0. /\ SysTypeOK /\ d \in Device(a) /\ DOMAIN dev = Devices /\ DOMAIN toServer = Devices
        /\ DOMAIN toDevice = Devices /\ DOMAIN conn = Devices /\ toServer[a] \in Seq(Uplink(a))
        /\ d.link = "down" => toDevice[a] = <<>>
        /\ ~ d.on => /\ d.link = "down" /\ ~ d.updating /\ d.runs = {} /\ d.outbox = {}
    BY SysParts
  <1>1. /\ UNCHANGED <<vars, release, posts>>
        /\ dev' = [dev EXCEPT ![a] = dev'[a]] /\ toDevice' = [toDevice EXCEPT ![a] = toDevice'[a]]
        /\ toServer' = [toServer EXCEPT ![a] = toServer'[a]]
        /\ conn' = [conn EXCEPT ![a] = conn'[a]]
    BY <1>0 DEF Connect, Disconnect, NoticeDisconnect, SetDev, ServerRests, SysTypeOK
  <1>2. \/ dev'[a] = [d EXCEPT !.link = "open"] /\ d.on
        \/ dev'[a] = [d EXCEPT !.link = "down"]
        \/ dev'[a] = d
    BY <1>0 DEF Connect, Disconnect, NoticeDisconnect, SetDev
  <1>3. /\ dev'[a] \in Device(a) /\ dev'[a].on = d.on /\ dev'[a].version = d.version
        /\ dev'[a].updating = d.updating /\ dev'[a].runs = d.runs /\ dev'[a].outbox = d.outbox
        /\ dev'[a].disk = d.disk /\ (~ d.on => dev'[a].link = "down")
    BY <1>0, <1>2 DEF Device
  <1>4. toServer'[a] = toServer[a] \/ toServer'[a] = <<[type |-> "HELLO"]>> \/ toServer'[a] = <<>>
    BY <1>0 DEF Connect, Disconnect, NoticeDisconnect
  <1>5. toServer'[a] \in Seq(Uplink(a)) /\ \A m \in Range(toServer'[a]) :
          m.type = "FINISH" => m \in Range(toServer[a])
    <2>1. [type |-> "HELLO"] \in Uplink(a)
      BY DEF Uplink
    <2>2. <<[type |-> "HELLO"]>> \in Seq(Uplink(a))
      BY <2>1
    <2>3. Range(<<[type |-> "HELLO"]>>) = {[type |-> "HELLO"]} /\ Range(<<>>) = {}
      BY DEF Range
    <2>4. CASE toServer'[a] = <<[type |-> "HELLO"]>>
      BY <2>2, <2>3, <2>4
    <2>5. CASE toServer'[a] = <<>>
      BY <2>3, <2>5
    <2> QED BY <1>0, <1>4, <2>4, <2>5
  <1>6. (toDevice'[a] = toDevice[a] \/ toDevice'[a] = <<>>)
        /\ (dev'[a].link = "down" => toDevice'[a] = <<>>)
    BY <1>0 DEF Connect, Disconnect, NoticeDisconnect, SetDev, Device
  <1>7. conn'[a] = conn[a] \/ conn'[a] = "none" \/ (conn'[a] = "new" /\ up)
    BY <1>0 DEF Connect, Disconnect, NoticeDisconnect
  <1>8. Frame(a) /\ TypedMove(a) /\ WireMove(a) /\ LifeMove(a) /\ SendMove(a)
    BY <1>0, <1>1, <1>3, <1>5, <1>6, <1>7 DEF Frame, TypedMove, WireMove, LifeMove, SendMove
  <1>9. RunsFrom(a, dev'[a].runs) /\ OutboxFrom(a, dev'[a].outbox, dev'[a].runs)
    BY <1>3 DEF RunsFrom, OutboxFrom
  <1>10. LostMove(a) /\ DiskMove(a)
    BY <1>3 DEF LostMove, DiskMove, SysInv, AnswerInv
  <1> QED BY <1>8, <1>9, <1>10 DEF DeviceMove

LEMMA Unmoved ==
    ASSUME SysInv, NEW a \in Devices
    PROVE  /\ UNCHANGED toDevice =>
                WireMove(a) /\ toDevice' = [toDevice EXCEPT ![a] = toDevice'[a]]
           /\ UNCHANGED dev => SetDev(a, dev[a])
  BY DEF SysInv, SysTypeOK, WireMove, SetDev

\* queueOutbox, for a run that ends or a job that cannot be started.
LEMMA QueueMoves ==
    ASSUME SysInv, NEW a \in Devices, NEW l \in Mine(a), NEW report \in Reports,
           QueueReport(a, dev[a], l, report), UNCHANGED <<vars, release, conn>>,
           toDevice' = [toDevice EXCEPT ![a] = toDevice'[a]], WireMove(a), dev[a].on,
           dev[a].link = "down" => toDevice'[a] = <<>>,
           \A m \in Range(toDevice'[a]) : ~ IsJob(m, l)
    PROVE  DeviceMove(a)
  <1> DEFINE q == Queue(dev[a], l, report)
  <1>1. SysTypeOK /\ IsFiniteSet(granted) /\ dev[a] \in Device(a)
    BY SysParts
  <1>2. q \in Device(a) /\ Beating(a, q)
    BY <1>1, QueueTyped, QueueReportBeats
  <1>3. /\ q.on = dev[a].on /\ q.version = dev[a].version /\ q.updating = dev[a].updating
        /\ q.link = dev[a].link /\ q.disk = dev[a].disk
        /\ q.runs = Without(dev[a].runs, l)
        /\ q.outbox = Overwrite(dev[a].outbox, {[lease |-> l, report |-> report]})
    BY <1>1 DEF Queue, Device
  <1> HIDE DEF q
  <1>4. RunsFrom(a, q.runs)
    BY <1>3 DEF RunsFrom, Without
  <1>5. LeasesOf(q.outbox) = LeasesOf(dev[a].outbox) \cup {l} /\ l \notin LeasesOf(q.runs)
    BY <1>3 DEF LeasesOf, Overwrite, Without
  <1>6. OutboxFrom(a, q.outbox, q.runs)
    BY <1>5 DEF OutboxFrom
  <1> QED BY <1>1, <1>2, <1>3, <1>4, <1>5, <1>6, BeatingMoves

LEMMA HeartbeatTimerMoves ==
    ASSUME SysInv, NEW a \in Devices, HeartbeatTimer(a)
    PROVE  DeviceMove(a)
  <1>1. /\ SysTypeOK /\ IsFiniteSet(granted) /\ dev[a] \in Device(a) /\ dev[a].link = "ready"
        /\ dev[a].on
    BY SysParts DEF HeartbeatTimer, Device
  <1>2. Beating(a, dev[a])
    BY <1>1, HeartbeatBeats DEF HeartbeatTimer
  <1>3. UNCHANGED <<vars, release, conn, toDevice>>
    BY DEF HeartbeatTimer, ServerRests
  <1>4. WireMove(a) /\ toDevice' = [toDevice EXCEPT ![a] = toDevice'[a]]
    BY <1>1, <1>3 DEF WireMove, SysTypeOK
  <1>5. RunsFrom(a, dev[a].runs) /\ OutboxFrom(a, dev[a].outbox, dev[a].runs)
    BY DEF RunsFrom, OutboxFrom
  <1> QED BY <1>1, <1>2, <1>3, <1>4, <1>5, BeatingMoves

\* What every handler of a message starts from.
LEMMA HearsEffect ==
    ASSUME SysInv, NEW a \in Devices, NEW type, Hears(a, type)
    PROVE  /\ SysTypeOK /\ IsFiniteSet(granted) /\ dev[a] \in Device(a)
           /\ DOMAIN dev = Devices /\ dev[a].on /\ dev[a].link # "down"
           /\ toDevice[a] # <<>> /\ Head(toDevice[a]) \in Downlink(a)
           /\ Head(toDevice[a]) \in Range(toDevice[a])
           /\ Head(toDevice[a]).type = type /\ toDevice'[a] = Tail(toDevice[a])
           /\ Range(toDevice'[a]) \subseteq Range(toDevice[a])
           /\ toDevice' = [toDevice EXCEPT ![a] = toDevice'[a]]
           /\ WireMove(a) /\ UNCHANGED <<vars, release, conn>>
  BY SysParts, Heads DEF Hears, Device, WireMove, ServerRests

LEMMA QuietMoves ==
    ASSUME SysInv, NEW a \in Devices, NEW d \in Device(a), SetDev(a, d),
           UNCHANGED <<vars, release, conn, toServer>>, posts' \subseteq posts,
           toDevice' = [toDevice EXCEPT ![a] = toDevice'[a]], WireMove(a),
           d.on = dev[a].on, ~ d.on => d = dev[a], d.version = dev[a].version,
           d.updating => dev[a].updating \/ Retired(a),
           d.link = "down" => toDevice'[a] = <<>>,
           RunsFrom(a, d.runs), LeasesOf(d.outbox) \subseteq LeasesOf(dev[a].outbox),
           \A l \in LeasesOf(dev[a].outbox) \ LeasesOf(d.outbox) : Dropped(l),
           d.disk \subseteq dev[a].disk
    PROVE  DeviceMove(a)
  <1>1. /\ SysTypeOK /\ DOMAIN dev = Devices /\ DOMAIN toServer = Devices
        /\ DOMAIN conn = Devices /\ toServer[a] \in Seq(Uplink(a))
        /\ ~ dev[a].on => /\ dev[a].link = "down" /\ ~ dev[a].updating
                          /\ dev[a].runs = {} /\ dev[a].outbox = {}
    BY SysParts
  <1>2. dev'[a] = d /\ dev' = [dev EXCEPT ![a] = d]
    BY <1>1 DEF SetDev
  <1>3. Frame(a) /\ TypedMove(a)
    BY <1>1, <1>2 DEF Frame, TypedMove, SysTypeOK
  <1>4. LifeMove(a)
    BY <1>1, <1>2 DEF LifeMove
  <1>5. SendMove(a)
    BY DEF SendMove
  <1>6. LostMove(a) /\ OutboxFrom(a, dev'[a].outbox, dev'[a].runs)
    BY <1>2 DEF LostMove, OutboxFrom
  <1>7. DiskMove(a)
    <2> SUFFICES ASSUME d.on, NEW e \in d.disk, e.lease \notin LeasesOf(d.outbox)
                 PROVE  Dropped(e.lease)
      BY <1>2 DEF DiskMove
    <2>1. CASE e.lease \in LeasesOf(dev[a].outbox)
      BY <2>1
    <2>2. CASE e.lease \notin LeasesOf(dev[a].outbox)
      BY <2>2 DEF SysInv, AnswerInv
    <2> QED BY <2>1, <2>2
  <1> QED BY <1>2, <1>3, <1>4, <1>5, <1>6, <1>7 DEF DeviceMove

\* Acknowledge and a refused lease end a report that is of no use.
LEMMA AcknowledgeEffect ==
    ASSUME NEW a, NEW d \in Device(a), NEW l, NEW e, e = Acknowledge(d, l)
    PROVE  /\ e \in Device(a) /\ e.on = d.on /\ e.version = d.version /\ e.link = d.link
           /\ e.updating = d.updating /\ e.runs = d.runs /\ e.disk \subseteq d.disk
           /\ LeasesOf(e.outbox) \subseteq LeasesOf(d.outbox)
           /\ \A k \in LeasesOf(d.outbox) \ LeasesOf(e.outbox) : k = l
           /\ d.outbox = {} => e = d
  <1>1. CASE l \notin LeasesOf(d.outbox)
    BY <1>1 DEF Acknowledge
  <1>2. CASE l \in LeasesOf(d.outbox)
    <2>1. Acknowledge(d, l) = [d EXCEPT !.outbox = Without(d.outbox, l), !.disk = Without(d.disk, l)]
      BY <1>2 DEF Acknowledge
    <2>2. Without(d.outbox, l) \subseteq d.outbox /\ Without(d.disk, l) \subseteq d.disk
      BY DEF Without
    <2>3. \A k \in LeasesOf(d.outbox) : k = l \/ k \in LeasesOf(Without(d.outbox, l))
      BY DEF Without, LeasesOf
    <2>4. LeasesOf(Without(d.outbox, l)) \subseteq LeasesOf(d.outbox) /\ d.outbox # {}
      BY <1>2 DEF Without, LeasesOf
    <2> QED BY <2>1, <2>2, <2>3, <2>4, AcknowledgeTyped DEF Device
  <1> QED BY <1>1, <1>2

LEMMA HearWelcomeMoves ==
    ASSUME SysInv, NEW a \in Devices, HearWelcome(a)
    PROVE  DeviceMove(a)
  <1> DEFINE d == [dev[a] EXCEPT !.link = "ready"]
  <1>1. Hears(a, "WELCOME") /\ HeartbeatOf(a, d)
    BY DEF HearWelcome
  <1>2. /\ IsFiniteSet(granted) /\ dev[a] \in Device(a) /\ dev[a].on
        /\ UNCHANGED <<vars, release, conn>>
        /\ toDevice' = [toDevice EXCEPT ![a] = toDevice'[a]] /\ WireMove(a)
    BY <1>1, HearsEffect
  <1>3. /\ d \in Device(a) /\ d.on = dev[a].on /\ d.version = dev[a].version /\ d.link = "ready"
        /\ d.updating = dev[a].updating /\ d.runs = dev[a].runs /\ d.outbox = dev[a].outbox
        /\ d.disk = dev[a].disk
    BY <1>2 DEF Device
  <1> HIDE DEF d
  <1>4. Beating(a, d)
    BY <1>1, <1>2, <1>3, HeartbeatBeats
  <1>5. RunsFrom(a, d.runs) /\ OutboxFrom(a, d.outbox, d.runs)
    BY <1>3 DEF RunsFrom, OutboxFrom
  <1> QED BY <1>2, <1>3, <1>4, <1>5, BeatingMoves

LEMMA HearJobMoves ==
    ASSUME SysInv, NEW a \in Devices, HearJob(a)
    PROVE  DeviceMove(a)
  <1> DEFINE m == Head(toDevice[a])
  <1>1. Hears(a, "JOB")
    BY DEF HearJob
  <1>2. /\ SysTypeOK /\ IsFiniteSet(granted) /\ dev[a] \in Device(a) /\ dev[a].on
        /\ dev[a].link # "down" /\ toDevice[a] # <<>> /\ m \in Downlink(a) /\ m.type = "JOB"
        /\ toDevice'[a] = Tail(toDevice[a])
        /\ UNCHANGED <<vars, release, conn>>
        /\ toDevice' = [toDevice EXCEPT ![a] = toDevice'[a]] /\ WireMove(a)
    BY <1>1, HearsEffect
  <1>3. m.lease \in Mine(a) /\ m.until \in Gone..LeaseTicks
    BY <1>2 DEF Downlink
  <1>4. CASE SetDev(a, TakeJob(dev[a], m.lease, m.until)) /\ UNCHANGED <<toServer, posts>>
    <2> DEFINE d == TakeJob(dev[a], m.lease, m.until)
    <2>1. d \in Device(a)
      BY <1>2, <1>3, TakeJobTyped
    <2>2. /\ d.on = dev[a].on /\ d.version = dev[a].version /\ d.link = dev[a].link
          /\ d.updating = dev[a].updating /\ d.outbox = dev[a].outbox /\ d.disk = dev[a].disk
          /\ d.runs \subseteq dev[a].runs \cup {NewRun(m.lease, m.until)}
      BY <1>2 DEF TakeJob, Device
    <2> HIDE DEF d
    <2>3. RunsFrom(a, d.runs)
      BY <1>2, <2>2 DEF RunsFrom, NewRun
    <2> QED BY <1>2, <1>4, <2>1, <2>2, <2>3, QuietMoves DEF d
  <1>5. CASE QueueReport(a, dev[a], m.lease, "FAILED")
    <2>1. \A x \in Range(toDevice'[a]) : ~ IsJob(x, m.lease)
      BY <1>2, WaitingJobs
    <2> HIDE DEF m
    <2> QED BY <1>2, <1>3, <1>5, <2>1, QueueMoves DEF Reports
  <1> QED BY <1>4, <1>5 DEF HearJob

LEMMA HearLeaseAnswerMoves ==
    ASSUME SysInv, NEW a \in Devices, HearLeaseAnswer(a)
    PROVE  DeviceMove(a)
  <1> DEFINE m == Head(toDevice[a])
             w == RenewRuns(dev[a], m)
             d == HearLease(dev[a], m)
  <1>1. Hears(a, "LEASE") /\ SetDev(a, d) /\ UNCHANGED <<toServer, posts>>
    BY DEF HearLeaseAnswer
  <1>2. /\ SysTypeOK /\ IsFiniteSet(granted) /\ dev[a] \in Device(a) /\ dev[a].on
        /\ dev[a].link # "down" /\ toDevice[a] # <<>> /\ m \in Downlink(a) /\ m.type = "LEASE"
        /\ m \in Range(toDevice[a]) /\ toDevice'[a] = Tail(toDevice[a])
        /\ UNCHANGED <<vars, release, conn>>
        /\ toDevice' = [toDevice EXCEPT ![a] = toDevice'[a]] /\ WireMove(a)
    BY <1>1, HearsEffect
  <1>3. m.until \in Gone..LeaseTicks
    BY <1>2 DEF Downlink
  <1>4. ~ m.accepted => Dropped(m.lease)
    BY <1>2 DEF SysInv, AnswerInv
  <1> HIDE DEF m
  <1>5. /\ w \in Device(a) /\ w = [dev[a] EXCEPT !.runs = w.runs]
        /\ \A r \in w.runs : \E x \in dev[a].runs :
             /\ r.lease = x.lease /\ r.phase = x.phase
             /\ r.until = x.until \/ (r.until = m.until /\ r.lease = m.lease)
    BY <1>2, <1>3, RenewRunsTyped
  <1>6. /\ w.on = dev[a].on /\ w.version = dev[a].version /\ w.link = dev[a].link
        /\ w.updating = dev[a].updating /\ w.outbox = dev[a].outbox /\ w.disk = dev[a].disk
    BY <1>2, <1>5 DEF Device
  <1>7. d = w \/ (d = Acknowledge(w, m.lease) /\ ~ m.accepted)
    BY DEF HearLease
  <1> HIDE DEF w, d
  <1>8. RunsFrom(a, w.runs)
    BY <1>2, <1>5 DEF RunsFrom, m
  <1>9. /\ d \in Device(a) /\ d.on = w.on /\ d.version = w.version /\ d.link = w.link
        /\ d.updating = w.updating /\ d.runs = w.runs /\ d.disk \subseteq w.disk
        /\ LeasesOf(d.outbox) \subseteq LeasesOf(w.outbox)
        /\ \A k \in LeasesOf(w.outbox) \ LeasesOf(d.outbox) : Dropped(k)
    <2>1. CASE d = w
      BY <1>5, <2>1
    <2>2. CASE d = Acknowledge(w, m.lease) /\ ~ m.accepted
      BY <1>4, <1>5, <2>2, AcknowledgeEffect
    <2> QED BY <1>7, <2>1, <2>2
  <1> QED BY <1>1, <1>2, <1>6, <1>8, <1>9, QuietMoves

LEMMA HearAckMoves ==
    ASSUME SysInv, NEW a \in Devices, HearAck(a)
    PROVE  DeviceMove(a)
  <1> DEFINE m == Head(toDevice[a])
             c == dev[a]
             d == Acknowledge(c, m.lease)
  <1>1. Hears(a, "ACK") /\ SetDev(a, d) /\ UNCHANGED <<toServer, posts>>
    BY DEF HearAck
  <1>2. /\ SysTypeOK /\ IsFiniteSet(granted) /\ c \in Device(a) /\ c.on
        /\ c.link # "down" /\ m.type = "ACK" /\ m \in Range(toDevice[a])
        /\ UNCHANGED <<vars, release, conn>>
        /\ toDevice' = [toDevice EXCEPT ![a] = toDevice'[a]] /\ WireMove(a)
    BY <1>1, HearsEffect
  <1>3. Dropped(m.lease)
    BY <1>2 DEF SysInv, AnswerInv
  <1>4. c \in Device(a) /\ d = Acknowledge(c, m.lease)
    BY <1>2
  <1> HIDE DEF m, c, d
  <1>5. /\ d \in Device(a) /\ d.on = c.on /\ d.version = c.version /\ d.link = c.link
        /\ d.updating = c.updating /\ d.runs = c.runs /\ d.disk \subseteq c.disk
        /\ LeasesOf(d.outbox) \subseteq LeasesOf(c.outbox)
        /\ \A k \in LeasesOf(c.outbox) \ LeasesOf(d.outbox) : k = m.lease
    BY <1>4, AcknowledgeEffect
  <1>6. RunsFrom(a, d.runs)
    BY <1>5 DEF RunsFrom, c
  <1> QED BY <1>1, <1>2, <1>3, <1>5, <1>6, QuietMoves DEF c

LEMMA HearUpdateRequiredMoves ==
    ASSUME SysInv, NEW a \in Devices, HearUpdateRequired(a)
    PROVE  DeviceMove(a)
  <1> DEFINE b == BeginUpdate(dev[a])
             d == IF dev[a].updating THEN dev[a] ELSE b
  <1>1. /\ Hears(a, "UPDATE_REQUIRED") /\ SetDev(a, d) /\ UNCHANGED toServer
        /\ posts' \subseteq posts
    BY DEF HearUpdateRequired
  <1>2. /\ SysTypeOK /\ IsFiniteSet(granted) /\ dev[a] \in Device(a) /\ dev[a].on
        /\ dev[a].link # "down" /\ Head(toDevice[a]).type = "UPDATE_REQUIRED"
        /\ Head(toDevice[a]) \in Range(toDevice[a])
        /\ UNCHANGED <<vars, release, conn>>
        /\ toDevice' = [toDevice EXCEPT ![a] = toDevice'[a]] /\ WireMove(a)
    BY <1>1, HearsEffect
  <1>3. Retired(a)
    BY <1>2 DEF SysInv, UpdateInv
  <1>4. /\ b \in Device(a)
        /\ b = [dev[a] EXCEPT !.link = "open", !.updating = TRUE, !.runs = b.runs]
        /\ \A r \in b.runs : \E x \in dev[a].runs :
             r.lease = x.lease /\ r.phase = x.phase /\ r.until = x.until
    BY <1>2, BeginUpdateTyped
  <1>5. /\ b.on = dev[a].on /\ b.version = dev[a].version /\ b.link = "open"
        /\ b.outbox = dev[a].outbox /\ b.disk = dev[a].disk
    BY <1>2, <1>4 DEF Device
  <1> HIDE DEF b
  <1>6. RunsFrom(a, b.runs) /\ RunsFrom(a, dev[a].runs)
    BY <1>4 DEF RunsFrom
  <1>7. /\ d \in Device(a) /\ d.on = dev[a].on /\ d.version = dev[a].version /\ d.link # "down"
        /\ d.outbox = dev[a].outbox /\ d.disk = dev[a].disk /\ RunsFrom(a, d.runs)
    BY <1>2, <1>4, <1>5, <1>6
  <1> HIDE DEF d
  <1> QED BY <1>1, <1>2, <1>3, <1>7, QuietMoves

LEMMA EndUpdateMoves ==
    ASSUME SysInv, NEW a \in Devices, EndUpdate(a)
    PROVE  DeviceMove(a)
  <1> DEFINE c == dev[a]
             d == ForgetReports(c)
  <1>1. /\ SysTypeOK /\ c \in Device(a) /\ DOMAIN toDevice = Devices
        /\ c.link = "down" => toDevice[a] = <<>>
    BY SysParts
  <1>2. /\ c.on /\ c.updating /\ SetDev(a, d) /\ UNCHANGED <<vars, release, toServer, conn, posts>>
        /\ toDevice' = toDevice
    BY DEF EndUpdate, wires, ServerRests
  <1>3. \A l \in LeasesOf(c.outbox) : Dropped(l)
    BY <1>1, <1>2 DEF SysInv, UpdateInv, Retired, LeasesOf, Device, Entry
  <1> HIDE DEF c
  <1>4. /\ d \in Device(a) /\ d.on = c.on /\ d.version = c.version /\ d.link = c.link
        /\ d.updating = c.updating /\ d.runs = c.runs /\ d.outbox = {} /\ d.disk \subseteq c.disk
    BY <1>1, ForgetReportsTyped DEF ForgetReports, Device
  <1> HIDE DEF d
  <1>5. RunsFrom(a, d.runs) /\ LeasesOf(d.outbox) = {}
    BY <1>4 DEF RunsFrom, LeasesOf, c
  <1>6. WireMove(a) /\ toDevice' = [toDevice EXCEPT ![a] = toDevice'[a]]
    BY <1>1, <1>2, Unmoved
  <1> QED BY <1>1, <1>2, <1>3, <1>4, <1>5, <1>6, QuietMoves DEF c

\* The runs of a device are replaced, one by one or all at once.
LEMMA RunsMoves ==
    ASSUME SysInv, NEW a \in Devices, NEW runs \in SUBSET Run(a),
           SetDev(a, [dev[a] EXCEPT !.runs = runs]), dev[a].on,
           UNCHANGED <<vars, release, conn, toServer, toDevice, posts>>, RunsFrom(a, runs)
    PROVE  DeviceMove(a)
  <1> DEFINE c == dev[a]
             d == [c EXCEPT !.runs = runs]
  <1>1. /\ SysTypeOK /\ c \in Device(a) /\ DOMAIN toDevice = Devices
        /\ c.link = "down" => toDevice[a] = <<>>
    BY SysParts
  <1>2. WireMove(a) /\ toDevice' = [toDevice EXCEPT ![a] = toDevice'[a]]
    BY <1>1, Unmoved
  <1>3. SetDev(a, d)
    OBVIOUS
  <1> HIDE DEF c
  <1>4. /\ d \in Device(a) /\ d.on = c.on /\ d.version = c.version /\ d.link = c.link
        /\ d.updating = c.updating /\ d.runs = runs /\ d.outbox = c.outbox /\ d.disk = c.disk
    BY <1>1 DEF Device
  <1> HIDE DEF d
  <1> QED BY <1>1, <1>2, <1>3, <1>4, QuietMoves DEF c

LEMMA StopExpiredMoves ==
    ASSUME SysInv, NEW a \in Devices, StopExpired(a)
    PROVE  DeviceMove(a)
  <1>1. PICK r \in dev[a].runs :
          /\ r.phase = "computing"
          /\ SetDev(a, [dev[a] EXCEPT !.runs = (@ \ {r}) \cup {Stopped(r, "expired")}])
          /\ ServerRests /\ UNCHANGED <<wires, posts, faults>>
    BY DEF StopExpired
  <1> DEFINE runs == (dev[a].runs \ {r}) \cup {Stopped(r, "expired")}
  <1>2. dev[a] \in Device(a) /\ dev[a].on
    BY SysParts
  <1>3. r \in Run(a) /\ dev[a].runs \subseteq Run(a)
    BY <1>2 DEF Device
  <1>4. /\ Stopped(r, "expired") \in Run(a) /\ Stopped(r, "expired").lease = r.lease
        /\ Stopped(r, "expired").until = r.until /\ Stopped(r, "expired").phase = r.phase
    BY <1>3, StoppedTyped DEF Reason
  <1>5. runs \in SUBSET Run(a) /\ RunsFrom(a, runs)
    BY <1>3, <1>4 DEF RunsFrom
  <1>6. SetDev(a, [dev[a] EXCEPT !.runs = runs])
    BY <1>1
  <1> HIDE DEF runs
  <1> QED BY <1>1, <1>2, <1>5, <1>6, RunsMoves DEF wires, ServerRests

LEMMA ChildExitsMoves ==
    ASSUME SysInv, NEW a \in Devices, ChildExits(a)
    PROVE  DeviceMove(a)
  <1>1. PICK r \in dev[a].runs :
          /\ \/ /\ SetDev(a, [dev[a] EXCEPT !.runs = @ \ {r}])
                /\ UNCHANGED <<toServer, posts>>
             \/ /\ r.phase = "computing"
                /\ SetDev(a, [dev[a] EXCEPT !.runs = (@ \ {r}) \cup {[r EXCEPT !.phase = "hashing"]}])
                /\ UNCHANGED <<toServer, posts>>
             \/ \E report \in ReportsOf(r) \ {"ARTIFACT"} : QueueReport(a, dev[a], r.lease, report)
          /\ ServerRests /\ UNCHANGED <<toDevice, conn, faults>>
    BY DEF ChildExits
  <1>2. /\ dev[a] \in Device(a) /\ dev[a].on /\ SysTypeOK /\ DOMAIN toDevice = Devices
        /\ dev[a].link = "down" => toDevice[a] = <<>>
    BY SysParts
  <1>3. r \in Run(a) /\ dev[a].runs \subseteq Run(a)
    BY <1>2 DEF Device
  <1>4. CASE SetDev(a, [dev[a] EXCEPT !.runs = @ \ {r}]) /\ UNCHANGED <<toServer, posts>>
    <2> DEFINE runs == dev[a].runs \ {r}
    <2>1. runs \in SUBSET Run(a) /\ RunsFrom(a, runs)
      BY <1>3 DEF RunsFrom
    <2>2. SetDev(a, [dev[a] EXCEPT !.runs = runs])
      BY <1>4
    <2> HIDE DEF runs
    <2> QED BY <1>1, <1>2, <1>4, <2>1, <2>2, RunsMoves DEF ServerRests
  <1>5. CASE /\ SetDev(a, [dev[a] EXCEPT !.runs = (@ \ {r}) \cup {[r EXCEPT !.phase = "hashing"]}])
             /\ UNCHANGED <<toServer, posts>>
    <2> DEFINE h == [r EXCEPT !.phase = "hashing"]
               runs == (dev[a].runs \ {r}) \cup {h}
    <2>1. h \in Run(a) /\ h.lease = r.lease /\ h.until = r.until /\ h.phase = "hashing"
      BY <1>3 DEF Run, Phases
    <2>2. SetDev(a, [dev[a] EXCEPT !.runs = runs])
      BY <1>5
    <2> HIDE DEF h
    <2>3. runs \in SUBSET Run(a) /\ RunsFrom(a, runs)
      BY <1>3, <2>1 DEF RunsFrom
    <2> HIDE DEF runs
    <2> QED BY <1>1, <1>2, <1>5, <2>2, <2>3, RunsMoves DEF ServerRests
  <1>6. CASE \E report \in ReportsOf(r) \ {"ARTIFACT"} : QueueReport(a, dev[a], r.lease, report)
    <2>1. PICK report \in ReportsOf(r) : QueueReport(a, dev[a], r.lease, report)
      BY <1>6
    <2>2. report \in Reports /\ r.lease \in Mine(a) /\ r.lease \in LeasesOf(dev[a].runs)
      BY <1>3 DEF ReportsOf, Reports, Run, LeasesOf
    <2>3. WireMove(a) /\ toDevice' = [toDevice EXCEPT ![a] = toDevice'[a]]
      BY <1>1, <1>2, Unmoved
    <2>4. \A m \in Range(toDevice'[a]) : ~ IsJob(m, r.lease)
      BY <1>1, <2>2, WaitingJobs DEF IsJob
    <2> QED BY <1>1, <1>2, <2>1, <2>2, <2>3, <2>4, QueueMoves DEF ServerRests
  <1> QED BY <1>1, <1>4, <1>5, <1>6

LEMMA EndHashMoves ==
    ASSUME SysInv, NEW a \in Devices, EndHash(a)
    PROVE  DeviceMove(a)
  <1>1. PICK r \in dev[a].runs, report \in {"ARTIFACT", "FAILED"} :
          /\ QueueReport(a, dev[a], r.lease, report)
          /\ ServerRests /\ UNCHANGED <<toDevice, conn, faults>>
    BY DEF EndHash
  <1>2. /\ dev[a] \in Device(a) /\ dev[a].on /\ SysTypeOK /\ DOMAIN toDevice = Devices
        /\ dev[a].link = "down" => toDevice[a] = <<>>
    BY SysParts
  <1>3. report \in Reports /\ r.lease \in Mine(a) /\ r.lease \in LeasesOf(dev[a].runs)
    BY <1>2 DEF Reports, Device, Run, LeasesOf
  <1>4. WireMove(a) /\ toDevice' = [toDevice EXCEPT ![a] = toDevice'[a]]
    BY <1>1, <1>2, Unmoved
  <1>5. \A m \in Range(toDevice'[a]) : ~ IsJob(m, r.lease)
    BY <1>1, <1>3, WaitingJobs DEF IsJob
  <1> QED BY <1>1, <1>2, <1>3, <1>4, <1>5, QueueMoves DEF ServerRests

LEMMA UploadDoneMoves ==
    ASSUME SysInv, NEW a \in Devices, UploadDone(a)
    PROVE  DeviceMove(a)
  <1>1. PICK p \in PostsOf(a) :
          /\ p.state = "done" /\ SetDev(a, Acknowledge(dev[a], p.lease)) /\ posts' = posts \ {p}
          /\ ServerRests /\ UNCHANGED wires
    BY DEF UploadDone
  <1> DEFINE c == dev[a]
             d == Acknowledge(c, p.lease)
  <1>2. /\ SysTypeOK /\ c \in Device(a) /\ DOMAIN toDevice = Devices
        /\ c.link = "down" => toDevice[a] = <<>>
        /\ ~ c.on => c.outbox = {}
    BY SysParts
  <1>3. Dropped(p.lease)
    BY <1>1 DEF SysInv, AnswerInv, PostsOf
  <1>4. SetDev(a, d) /\ d = Acknowledge(c, p.lease)
    BY <1>1
  <1> HIDE DEF c, d
  <1>5. /\ d \in Device(a) /\ d.on = c.on /\ d.version = c.version /\ d.link = c.link
        /\ d.updating = c.updating /\ d.runs = c.runs /\ d.disk \subseteq c.disk
        /\ LeasesOf(d.outbox) \subseteq LeasesOf(c.outbox)
        /\ \A k \in LeasesOf(c.outbox) \ LeasesOf(d.outbox) : k = p.lease
        /\ c.outbox = {} => d = c
    BY <1>2, <1>4, AcknowledgeEffect
  <1>6. RunsFrom(a, d.runs)
    BY <1>5 DEF RunsFrom, c
  <1>7. WireMove(a) /\ toDevice' = [toDevice EXCEPT ![a] = toDevice'[a]]
    BY <1>1, <1>2, Unmoved DEF wires
  <1> QED BY <1>1, <1>2, <1>3, <1>4, <1>5, <1>6, <1>7, QuietMoves DEF c, wires, ServerRests

LEMMA UploadFailsMoves ==
    ASSUME SysInv, NEW a \in Devices, UploadFails(a)
    PROVE  DeviceMove(a)
  <1>1. posts' \subseteq posts /\ ServerRests /\ UNCHANGED <<dev, wires>>
    BY DEF UploadFails
  <1> DEFINE d == dev[a]
  <1>2. /\ SysTypeOK /\ d \in Device(a) /\ DOMAIN toDevice = Devices /\ DOMAIN dev = Devices
        /\ d.link = "down" => toDevice[a] = <<>>
    BY SysParts
  <1>3. SetDev(a, d) /\ RunsFrom(a, d.runs)
    BY <1>1, Unmoved DEF RunsFrom
  <1>4. WireMove(a) /\ toDevice' = [toDevice EXCEPT ![a] = toDevice'[a]]
    BY <1>1, <1>2, Unmoved DEF wires
  <1> QED BY <1>1, <1>2, <1>3, <1>4, QuietMoves DEF wires, ServerRests

\* A refused result: its entry may have left the outbox, and is then of no use.
LEMMA UploadRefusedMoves ==
    ASSUME SysInv, NEW a \in Devices, UploadRefused(a)
    PROVE  DeviceMove(a)
  <1> DEFINE c == dev[a]
  <1>1. PICK p \in PostsOf(a) :
          LET e == [lease |-> p.lease, report |-> "FAILED"]
              d == IF p.lease \in LeasesOf(c.outbox) THEN Queue(c, p.lease, "FAILED") ELSE c
          IN  /\ SetDev(a, d) \/ SetDev(a, Saved(d, {e}))
              /\ posts' = posts \ {p}
              /\ IF d.link = "down" THEN UNCHANGED toServer
                 ELSE toServer' = [toServer EXCEPT ![a] = Append(@, Final(e))]
              /\ ServerRests
              /\ UNCHANGED <<toDevice, conn, faults>>
    BY DEF UploadRefused
  <1> DEFINE e == [lease |-> p.lease, report |-> "FAILED"]
             d == IF p.lease \in LeasesOf(c.outbox) THEN Queue(c, p.lease, "FAILED") ELSE c
             n == dev'[a]
  <1>2. /\ SetDev(a, d) \/ SetDev(a, Saved(d, {e}))
        /\ posts' = posts \ {p}
        /\ toServer' = toServer \/ toServer' = [toServer EXCEPT ![a] = Append(toServer[a], Final(e))]
        /\ UNCHANGED <<vars, release, toDevice, conn>>
    BY <1>1 DEF ServerRests
  <1>3. /\ SysTypeOK /\ c \in Device(a) /\ DOMAIN dev = Devices /\ DOMAIN toServer = Devices
        /\ DOMAIN conn = Devices /\ toServer[a] \in Seq(Uplink(a))
        /\ c.link = "down" => toDevice[a] = <<>>
        /\ ~ c.on => c.link = "down" /\ ~ c.updating /\ c.runs = {} /\ c.outbox = {}
    BY SysParts
  <1>4. p \in posts /\ p.lease \in Mine(a)
    BY <1>3 DEF PostsOf, SysTypeOK, PostTyped, Mine
  <1>5. e \in Entry(a) /\ e.lease = p.lease /\ "FAILED" \in Reports
    BY <1>4 DEF Entry, Reports
  <1>6. Final(e) \in Uplink(a) /\ Final(e).lease = p.lease
    BY <1>4 DEF Final, Uplink
  <1>7. /\ toServer'[a] \in Seq(Uplink(a))
        /\ Range(toServer'[a]) \subseteq Range(toServer[a]) \cup {Final(e)}
    <2>1. toServer[a] \in Seq(Uplink(a))
      BY <1>3
    <2>2. /\ Append(toServer[a], Final(e)) \in Seq(Uplink(a))
          /\ Range(Append(toServer[a], Final(e))) = Range(toServer[a]) \cup {Final(e)}
      BY <1>6, <2>1, RangeOfAppend
    <2>3. toServer'[a] = toServer[a] \/ toServer'[a] = Append(toServer[a], Final(e))
      BY <1>2, <1>3
    <2> QED BY <2>1, <2>2, <2>3
  <1>8. toServer' = [toServer EXCEPT ![a] = toServer'[a]] /\ WireMove(a)
        /\ toDevice' = [toDevice EXCEPT ![a] = toDevice'[a]]
        /\ conn' = [conn EXCEPT ![a] = conn'[a]]
    BY <1>2, <1>3, Unmoved DEF SysTypeOK
  <1> HIDE DEF c, e
  <1>9. /\ d \in Device(a) /\ d.on = c.on /\ d.version = c.version /\ d.link = c.link
        /\ d.updating = c.updating /\ d.runs \subseteq c.runs /\ d.disk = c.disk
        /\ LeasesOf(d.outbox) = LeasesOf(c.outbox) /\ (c.outbox = {} => d.outbox = {})
    <2>1. CASE p.lease \notin LeasesOf(c.outbox)
      BY <1>3, <2>1
    <2>2. CASE p.lease \in LeasesOf(c.outbox)
      <3> DEFINE q == Queue(c, p.lease, "FAILED")
      <3>1. d = q /\ q \in Device(a)
        BY <1>3, <1>4, <1>5, <2>2, QueueTyped
      <3>2. /\ q.on = c.on /\ q.version = c.version /\ q.link = c.link /\ q.updating = c.updating
            /\ q.runs = Without(c.runs, p.lease) /\ q.disk = c.disk
            /\ q.outbox = Overwrite(c.outbox, {[lease |-> p.lease, report |-> "FAILED"]})
        BY <1>3 DEF Queue, Device
      <3> HIDE DEF q
      <3>3. LeasesOf(q.outbox) = LeasesOf(c.outbox) \cup {p.lease} /\ c.outbox # {}
        BY <2>2, <3>2 DEF LeasesOf, Overwrite
      <3> QED BY <2>2, <3>1, <3>2, <3>3 DEF Without
    <2> QED BY <2>1, <2>2
  <1> HIDE DEF d
  <1>10. /\ n \in Device(a) /\ dev' = [dev EXCEPT ![a] = n] /\ n.on = d.on
         /\ n.version = d.version /\ n.link = d.link
         /\ n.updating = d.updating /\ n.runs = d.runs /\ n.outbox = d.outbox
         /\ n.disk \subseteq d.disk \cup {e}
    <2>1. CASE SetDev(a, d)
      BY <1>3, <1>9, <2>1 DEF SetDev
    <2>2. CASE SetDev(a, Saved(d, {e}))
      <3>1. n = [d EXCEPT !.disk = Overwrite(d.disk, {e})] /\ dev' = [dev EXCEPT ![a] = n]
        BY <1>3, <2>2 DEF SetDev, Saved
      <3>2. Saved(d, {e}) \in Device(a) /\ n = Saved(d, {e})
        BY <1>3, <1>5, <1>9, <2>2, SavedTyped DEF SetDev
      <3>3. Overwrite(d.disk, {e}) \subseteq d.disk \cup {e}
        BY DEF Overwrite
      <3> HIDE DEF n
      <3>4. /\ n.on = d.on /\ n.version = d.version /\ n.link = d.link
            /\ n.updating = d.updating /\ n.runs = d.runs /\ n.outbox = d.outbox
            /\ n.disk = Overwrite(d.disk, {e})
        BY <1>9, <3>1 DEF Device
      <3> QED BY <3>1, <3>2, <3>3, <3>4
    <2> QED BY <1>2, <2>1, <2>2
  <1>11. Frame(a) /\ TypedMove(a)
    BY <1>2, <1>7, <1>8, <1>10 DEF Frame, TypedMove
  <1>12. LifeMove(a)
    BY <1>2, <1>3, <1>9, <1>10 DEF LifeMove, c
  <1>13. SendMove(a)
    BY <1>2, <1>4, <1>6, <1>7 DEF SendMove, LeasesOf
  <1>14. LostMove(a) /\ OutboxFrom(a, n.outbox, n.runs) /\ RunsFrom(a, n.runs)
    BY <1>9, <1>10 DEF LostMove, OutboxFrom, RunsFrom, c
  <1>15. DiskMove(a)
    <2> SUFFICES ASSUME n.on, NEW x \in n.disk, x.lease \notin LeasesOf(n.outbox)
                 PROVE  Dropped(x.lease)
      BY DEF DiskMove
    <2>1. CASE x \in c.disk
      BY <1>9, <1>10, <2>1 DEF SysInv, AnswerInv, c
    <2>2. CASE x = e
      BY <1>4, <1>5, <1>9, <1>10, <2>2 DEF SysInv, AnswerInv, c, Mine
    <2> QED BY <1>9, <1>10, <2>1, <2>2
  <1> QED BY <1>8, <1>11, <1>12, <1>13, <1>14, <1>15 DEF DeviceMove

\* A process that starts or ends has an empty end of a connection.
LEMMA StartDeviceMoves ==
    ASSUME SysInv, NEW a \in Devices, StartDevice(a)
    PROVE  DeviceMove(a)
  <1> DEFINE c == dev[a]
             n == dev'[a]
  <1>1. PICK version \in c.version..release : SetDev(a, Start(c, version))
    BY DEF StartDevice
  <1>2. ~ c.on /\ UNCHANGED <<vars, release, toServer, toDevice, conn, posts>>
    BY DEF StartDevice, wires, ServerRests
  <1>3. /\ SysTypeOK /\ c \in Device(a) /\ DOMAIN dev = Devices /\ DOMAIN toServer = Devices
        /\ DOMAIN conn = Devices /\ toServer[a] \in Seq(Uplink(a))
        /\ toDevice[a] = <<>> /\ c.runs = {} /\ c.outbox = {}
    BY <1>2, SysParts
  <1>4. n = Start(c, version) /\ dev' = [dev EXCEPT ![a] = n]
    BY <1>1, <1>3 DEF SetDev
  <1> HIDE DEF c, n
  <1>5. version \in 0..release /\ c.version <= version
    BY <1>3 DEF Device, SysTypeOK
  <1>6. /\ n \in Device(a) /\ n.on /\ n.version = version /\ n.link = "down" /\ ~ n.updating
        /\ n.runs = {} /\ n.outbox = c.disk /\ n.disk = c.disk
    BY <1>3, <1>4, <1>5, StartTyped DEF Start, NoDevice
  <1>7. /\ toServer' = [toServer EXCEPT ![a] = toServer'[a]] /\ WireMove(a)
        /\ toDevice' = [toDevice EXCEPT ![a] = toDevice'[a]]
        /\ conn' = [conn EXCEPT ![a] = conn'[a]]
    BY <1>2, <1>3, Unmoved DEF SysTypeOK
  <1>8. Frame(a) /\ TypedMove(a)
    BY <1>2, <1>3, <1>4, <1>6, <1>7 DEF Frame, TypedMove, n
  <1>9. LifeMove(a)
    BY <1>2, <1>3, <1>5, <1>6 DEF LifeMove, c, n
  <1>10. SendMove(a)
    BY <1>2 DEF SendMove
  <1>11. LostMove(a) /\ RunsFrom(a, n.runs)
    BY <1>3, <1>6 DEF LostMove, RunsFrom, c, LeasesOf
  <1>12. OutboxFrom(a, n.outbox, n.runs)
    BY <1>2, <1>3, <1>6, RangeOfEmpty DEF OutboxFrom, LeasesOf
  <1>13. DiskMove(a)
    BY <1>6 DEF DiskMove, n, LeasesOf
  <1> QED BY <1>7, <1>8, <1>9, <1>10, <1>11, <1>12, <1>13 DEF DeviceMove, n

LEMMA EndDeviceMoves ==
    ASSUME SysInv, NEW a \in Devices, EndDevice(a)
    PROVE  DeviceMove(a)
  <1> DEFINE c == dev[a]
             n == dev'[a]
  <1>1. PICK hashed \in SUBSET {r \in c.runs : r.phase = "hashing"} : SetDev(a, End(c, hashed))
    BY DEF EndDevice
  <1>2. /\ UNCHANGED <<vars, release, toServer, conn>> /\ posts' = posts \ PostsOf(a)
        /\ toDevice' = [toDevice EXCEPT ![a] = <<>>]
    BY DEF EndDevice, ServerRests
  <1>3. /\ SysTypeOK /\ c \in Device(a) /\ DOMAIN dev = Devices /\ DOMAIN toServer = Devices
        /\ DOMAIN conn = Devices /\ toServer[a] \in Seq(Uplink(a)) /\ DOMAIN toDevice = Devices
    BY SysParts
  <1>4. n = End(c, hashed) /\ dev' = [dev EXCEPT ![a] = n]
    BY <1>1, <1>3 DEF SetDev
  <1> HIDE DEF c, n
  <1>5. n \in Device(a)
    BY <1>3, <1>4, EndTyped
  <1>6. ~ n.on /\ n.version = c.version /\ n.link = "down" /\ ~ n.updating
        /\ n.runs = {} /\ n.outbox = {}
    BY <1>4 DEF End, NoDevice
  <1>7. /\ toServer' = [toServer EXCEPT ![a] = toServer'[a]]
        /\ toDevice' = [toDevice EXCEPT ![a] = toDevice'[a]] /\ toDevice'[a] = <<>>
        /\ conn' = [conn EXCEPT ![a] = conn'[a]]
    BY <1>2, <1>3 DEF SysTypeOK
  <1>8. Frame(a) /\ TypedMove(a) /\ WireMove(a)
    BY <1>2, <1>3, <1>4, <1>5, <1>7 DEF Frame, TypedMove, WireMove, n
  <1>9. LifeMove(a)
    BY <1>2, <1>6, <1>7 DEF LifeMove, c, n
  <1>10. SendMove(a)
    BY <1>2 DEF SendMove
  <1>11. PostsOf(a)' = {}
    BY <1>2 DEF PostsOf
  <1>12. LostMove(a) /\ DiskMove(a)
    BY <1>6, <1>11 DEF LostMove, DiskMove, n
  <1>13. OutboxFrom(a, n.outbox, n.runs) /\ RunsFrom(a, n.runs)
    BY <1>6 DEF OutboxFrom, LeasesOf, RunsFrom
  <1> QED BY <1>8, <1>9, <1>10, <1>12, <1>13 DEF DeviceMove, n

LEMMA DeviceSteps ==
    ASSUME SysInv, ConnectionNext \/ DeviceNext
    PROVE  \E a \in Devices : DeviceMove(a)
  <1>1. CASE ConnectionNext
    BY <1>1, ConnectMoves DEF ConnectionNext
  <1>2. CASE DeviceNext
    <2>1. PICK a \in Devices :
            \/ HeartbeatTimer(a) \/ StopExpired(a) \/ ChildExits(a) \/ EndHash(a)
            \/ HearWelcome(a) \/ HearJob(a) \/ HearLeaseAnswer(a) \/ HearAck(a)
            \/ HearUpdateRequired(a) \/ EndUpdate(a)
            \/ UploadDone(a) \/ UploadRefused(a) \/ UploadFails(a)
            \/ StartDevice(a) \/ EndDevice(a)
      BY <1>2 DEF DeviceNext
    <2> QED BY <2>1, HeartbeatTimerMoves, StopExpiredMoves, ChildExitsMoves, EndHashMoves,
               HearWelcomeMoves, HearJobMoves, HearLeaseAnswerMoves, HearAckMoves,
               HearUpdateRequiredMoves, EndUpdateMoves, UploadDoneMoves, UploadRefusedMoves,
               UploadFailsMoves, StartDeviceMoves, EndDeviceMoves
  <1> QED BY <1>1, <1>2

-----------------------------------------------------------------------------
(* What a step of the server may do, whichever it is (a crash and a tick   *)
(* of the clock apart).                                                    *)

\* What is said to a device is true once it is said.
Truthful(a, m) ==
    /\ m.type = "ACK" \/ (m.type = "LEASE" /\ ~ m.accepted) => Dropped(m.lease)'
    /\ m.type = "UPDATE_REQUIRED" => Retired(a)'
    /\ m.type \in {"JOB", "LEASE"}
         => m.until < 0 \/ (SameLease(rows'[m.lease.job], m.lease) /\ m.until <= rows'[m.lease.job].ttl)
    /\ m.type = "JOB" => m.lease \notin granted /\ SameLease(rows'[m.lease.job], m.lease)

TellMove(a) ==
    \/ toDevice'[a] = toDevice[a]
    \/ /\ dev[a].link # "down"
       /\ \E m \in Downlink(a)' : toDevice'[a] = Append(toDevice[a], m) /\ Truthful(a, m)

ConnMove(a) ==
    \/ conn'[a] = conn[a]
    \/ up /\ (conn'[a] = "refused" \/ (conn'[a] = "ready" /\ dev[a].version = release))

ServeMove(a) ==
    toServer'[a] \in Seq(Uplink(a)) /\ Range(toServer'[a]) \subseteq Range(toServer[a])

PostsMove ==
    \A p \in posts' :
      /\ p \in [lease : granted, state : {"sent", "open", "done", "bad"}]
      /\ \E x \in posts : x.lease = p.lease
                          /\ (p.state = "done" => x.state = "done" \/ Dropped(p.lease)')

UploadsMove ==
    \A u \in uploads' :
      \/ \E x \in uploads : /\ x.lease = u.lease
                            /\ u.stage # "receiving" /\ ~ u.live =>
                                 \/ x.stage # "receiving" /\ ~ x.live
                                 \/ ~ LiveLease(rows'[u.lease.job], u.lease)
      \/ u.stage = "receiving" /\ u.lease \in LeasesOf(posts)

\* A lease that is not reported is lost by its expiry or by an update only.
LeaseKept(a, l) ==
    \/ SameLease(rows'[l.job], l)
    \/ dev[a].version # release
    \/ rows[l.job].ttl = Expired

RowsMove ==
    \A a \in Devices : \A l \in Mine(a) :
      SameLease(rows[l.job], l) /\ Silent(a, l) => LeaseKept(a, l)

GrantsMove ==
    \/ granted' = granted
    \/ \E a \in Devices : \E l :
          /\ l.agent = a /\ conn[a] = "ready" /\ l \notin granted
          /\ granted' = granted \cup {l}
          /\ \A k \in granted : ~ (k.job = l.job /\ k.token = l.token)

ServerMove ==
    /\ dev' = dev
    /\ toServer' = [a \in Devices |-> toServer'[a]] /\ toDevice' = [a \in Devices |-> toDevice'[a]]
    /\ conn' = [a \in Devices |-> conn'[a]]
    /\ \A a \in Devices : TellMove(a) /\ ConnMove(a) /\ ServeMove(a)
    /\ PostsMove /\ UploadsMove /\ RowsMove /\ GrantsMove
    /\ (up' = up \/ (~ up /\ conn' = conn)) /\ (release' = release \/ (~ up /\ conn' = conn))

-----------------------------------------------------------------------------
(* What a step leaves of a lease.                                          *)

LEMMA LeaseFacts ==
    ASSUME IInv, NEW l \in granted
    PROVE  /\ l.job \in Jobs /\ l.agent \in Agents /\ l.token # NoToken
           /\ rows[l.job] \in Row /\ RowInv(l.job) /\ rows[l.job].ttl \in Int
  BY RowInvs DEF IInv, TypeOK, Lease, NoToken, Row, Expired

\* A row carries the lease of its agent.
LEMMA OwnLease ==
    ASSUME IInv, GrantedOnce, NEW l \in granted, SameLease(rows[l.job], l)
    PROVE  rows[l.job].status \in Active /\ rows[l.job].agent = l.agent
  <1> DEFINE k == [job |-> l.job, attempt |-> rows[l.job].attempt, token |-> rows[l.job].token,
                   agent |-> rows[l.job].agent]
  <1>1. RowInv(l.job) /\ l.token # NoToken
    BY LeaseFacts
  <1>2. rows[l.job].token # NoToken
    BY <1>1 DEF SameLease
  <1>3. rows[l.job].status \in Active /\ k \in granted
    BY <1>1, <1>2 DEF RowInv
  <1>4. k = l
    BY <1>3 DEF GrantedOnce, SameLease
  <1> QED BY <1>3, <1>4

\* What is no longer taken is not taken again.
LEMMA DroppedStays ==
    ASSUME IInv, GrantedOnce, Next \/ UNCHANGED vars, NEW l \in granted
    PROVE  /\ ~ LiveLease(rows[l.job], l) => ~ LiveLease(rows'[l.job], l)
           /\ Dropped(l) => Dropped(l)'
           /\ ~ SameLease(rows[l.job], l) => ~ SameLease(rows'[l.job], l)
  <1>1. CASE UNCHANGED vars
    BY <1>1 DEF vars, Dropped
  <1>2. CASE Next
    <2>1. SameLease(rows'[l.job], l) => SameLease(rows[l.job], l)
      BY <1>2, LeaseStep
    <2>2. ~ LiveLease(rows[l.job], l) => ~ LiveLease(rows'[l.job], l)
      BY <1>2, LeaseStep DEF LiveLease
    <2>3. ASSUME rows[l.job].status = "CANCELLING", LiveLease(rows[l.job], l)
          PROVE  Dropped(l)'
      <3>1. rows[l.job].agent # NoAgent /\ l.job \in Jobs /\ l.token # NoToken
        BY <2>3, OwnLease, LeaseFacts, BacktestLeaseAssumption DEF LiveLease
      <3>2. rows'[l.job].status \in {"CANCELLING", "CANCELLED"}
        BY <1>2, <2>3, <3>1, CancellingStep
      <3>3. CASE rows'[l.job].status = "CANCELLED"
        <4>1. RowInv(l.job)'
          BY <1>2, <3>1, NextKeepsRows
        <4>2. rows'[l.job].token = NoToken
          BY <3>3, <4>1 DEF RowInv, Active
        <4> QED BY <3>1, <4>2 DEF Dropped, LiveLease, SameLease
      <3> QED BY <3>2, <3>3 DEF Dropped
    <2> QED BY <2>1, <2>2, <2>3 DEF Dropped
  <1> QED BY <1>1, <1>2

\* The statements that end a lease, and those that do not.
LEMMA ReleasedRows ==
    ASSUME NEW r \in Row, NEW l, l.token # NoToken
    PROVE  /\ \A s : ~ SameLease(Release(r, s), l)
           /\ \A o : ~ SameLease(Finish(r, o), l)
           /\ ~ SameLease(HandBack(r), l)
           /\ \A k : ~ SameLease(Complete(r, k), l)
           /\ ~ SameLease(RejectIdentity(r), l)
           /\ \A ttl : SameLease(Heartbeat(r, ttl), l) = SameLease(r, l)
           /\ \A s : SameLease([r EXCEPT !.status = s], l) = SameLease(r, l)
  BY DEF Row, SameLease, Release, Finish, HandBack, ReleaseOwner, Complete, RejectIdentity, Heartbeat

LEMMA SendEffect ==
    ASSUME SysTypeOK, NEW a \in Devices, NEW m, Send(a, m)
    PROVE  /\ toDevice' = [b \in Devices |-> toDevice'[b]]
           /\ \A b \in Devices \ {a} : toDevice'[b] = toDevice[b]
           /\ \/ toDevice'[a] = toDevice[a]
              \/ dev[a].link # "down" /\ toDevice'[a] = Append(toDevice[a], m)
  BY DEF Send, SysTypeOK

\* A handler of a message takes it, and leaves the devices alone.
LEMMA ServesEffect ==
    ASSUME SysTypeOK, NEW a \in Devices, NEW type, Serves(a, type)
    PROVE  /\ dev' = dev /\ posts' = posts /\ release' = release /\ up /\ main = Idle
           /\ toServer' = [b \in Devices |-> toServer'[b]]
           /\ \A b \in Devices : ServeMove(b)
           /\ Head(toServer[a]) \in Uplink(a) /\ Head(toServer[a]) \in Range(toServer[a])
           /\ Head(toServer[a]).type = type
  <1>1. /\ toServer[a] # <<>> /\ toServer' = [toServer EXCEPT ![a] = Tail(toServer[a])]
        /\ Head(toServer[a]).type = type /\ up /\ main = Idle
        /\ dev' = dev /\ posts' = posts /\ release' = release
    BY DEF Serves, DevicesRest, Ready
  <1>2. \A b \in Devices : toServer[b] \in Seq(Uplink(b))
    BY DEF SysTypeOK
  <1>3. toServer'[a] = Tail(toServer[a]) /\ \A b \in Devices \ {a} : toServer'[b] = toServer[b]
    BY <1>1 DEF SysTypeOK
  <1>4. \A b \in Devices : ServeMove(b)
    BY <1>1, <1>2, <1>3, Heads DEF ServeMove
  <1>5. toServer' = [b \in Devices |-> toServer'[b]]
    BY <1>1 DEF SysTypeOK
  <1> QED BY <1>1, <1>4, <1>5, Heads

\* The parts of a step that touches no message, connection, upload or grant.
LEMMA SameParts ==
    ASSUME SysTypeOK
    PROVE  /\ posts' = posts => PostsMove
           /\ uploads' = uploads => UploadsMove
           /\ granted' = granted => GrantsMove
           /\ rows' = rows => RowsMove
           /\ \A a \in Devices : toDevice'[a] = toDevice[a] => TellMove(a)
           /\ \A a \in Devices : conn'[a] = conn[a] => ConnMove(a)
           /\ \A a \in Devices : toServer'[a] = toServer[a] => ServeMove(a)
           /\ UNCHANGED conn => conn' = [a \in Devices |-> conn'[a]]
           /\ UNCHANGED toServer => toServer' = [a \in Devices |-> toServer'[a]]
           /\ UNCHANGED toDevice => toDevice' = [a \in Devices |-> toDevice'[a]]
  <1>1. posts' = posts => PostsMove
    BY DEF SysTypeOK, PostTyped, PostsMove
  <1>2. uploads' = uploads => UploadsMove
    BY DEF UploadsMove
  <1>3. granted' = granted => GrantsMove
    BY DEF GrantsMove
  <1>4. rows' = rows => RowsMove
    BY DEF RowsMove, LeaseKept
  <1>5. \A a \in Devices : toDevice'[a] = toDevice[a] => TellMove(a)
    BY DEF TellMove
  <1>6. \A a \in Devices : conn'[a] = conn[a] => ConnMove(a)
    BY DEF ConnMove
  <1>7. \A a \in Devices : toServer'[a] = toServer[a] => ServeMove(a)
    BY DEF ServeMove, SysTypeOK
  <1>8. UNCHANGED conn => conn' = [a \in Devices |-> conn'[a]]
    BY DEF SysTypeOK
  <1>9. UNCHANGED toServer => toServer' = [a \in Devices |-> toServer'[a]]
    BY DEF SysTypeOK
  <1>10. UNCHANGED toDevice => toDevice' = [a \in Devices |-> toDevice'[a]]
    BY DEF SysTypeOK
  <1> QED BY <1>1, <1>2, <1>3, <1>4, <1>5, <1>6, <1>7, <1>8, <1>9, <1>10

\* The one message of a step that sends one.
LEMMA Tells ==
    ASSUME SysTypeOK, NEW a \in Devices, NEW m, Send(a, m), m \in Downlink(a)', Truthful(a, m)
    PROVE  toDevice' = [b \in Devices |-> toDevice'[b]] /\ \A b \in Devices : TellMove(b)
  <1>1. \A b \in Devices \ {a} : TellMove(b)
    BY SendEffect, SameParts
  <1>2. TellMove(a)
    BY SendEffect DEF TellMove
  <1> QED BY <1>1, <1>2, SendEffect

-----------------------------------------------------------------------------
(* The steps of the server are such moves.                                 *)

\* The rows keep their leases, or the step says whose it ends.
LEMMA KeptRows ==
    ASSUME IInv, NEW j \in Jobs, NEW r, SetRow(j, r),
           \A l \in granted : SameLease(rows[j], l) => SameLease(r, l)
    PROVE  RowsMove
  <1> SUFFICES ASSUME NEW l \in granted, SameLease(rows[l.job], l)
               PROVE  SameLease(rows'[l.job], l)
    BY DEF RowsMove, LeaseKept, Mine
  <1>1. rows' = [rows EXCEPT ![j] = r] /\ DOMAIN rows = Jobs /\ l.job \in Jobs
    BY LeaseFacts DEF SetRow, IInv, TypeOK
  <1> QED BY <1>1

LEMMA ServeHelloMoves ==
    ASSUME SysInv, NEW a \in Devices, ServeHello(a)
    PROVE  ServerMove
  <1>1. IInv /\ SysTypeOK /\ GrantedOnce /\ DOMAIN conn = Devices
    BY SysParts DEF SysInv
  <1>2. /\ dev' = dev /\ posts' = posts /\ release' = release /\ up
        /\ toServer' = [b \in Devices |-> toServer'[b]] /\ \A b \in Devices : ServeMove(b)
    BY <1>1, ServesEffect DEF ServeHello
  <1>3. /\ UNCHANGED <<granted, uploads, up>>
        /\ \E s \in {"ready", "refused"} : conn' = [conn EXCEPT ![a] = s]
        /\ conn'[a] = "refused" \/ (conn'[a] = "ready" /\ dev[a].version = release)
    BY <1>1 DEF ServeHello, vars, InvalidateClient
  <1>4. conn' = [b \in Devices |-> conn'[b]] /\ \A b \in Devices : ConnMove(b)
    BY <1>1, <1>2, <1>3, SameParts DEF SysTypeOK, ConnMove
  <1>5. PostsMove /\ UploadsMove /\ GrantsMove
    BY <1>1, <1>2, <1>3, SameParts
  <1>6. CASE dev[a].version = release
    <2>1. Send(a, [type |-> "WELCOME"]) /\ UNCHANGED vars
      BY <1>6 DEF ServeHello
    <2>2. [type |-> "WELCOME"] \in Downlink(a)' /\ Truthful(a, [type |-> "WELCOME"])
      BY DEF Downlink, Truthful
    <2>3. toDevice' = [b \in Devices |-> toDevice'[b]] /\ \A b \in Devices : TellMove(b)
      BY <1>1, <2>1, <2>2, Tells
    <2>4. RowsMove
      BY <1>1, <2>1, SameParts DEF vars
    <2> QED BY <1>2, <1>3, <1>4, <1>5, <2>3, <2>4 DEF ServerMove
  <1>7. CASE dev[a].version # release
    <2>1. Send(a, [type |-> "UPDATE_REQUIRED"]) /\ InvalidateClient(a)
      BY <1>7 DEF ServeHello
    <2>2. \A j \in Jobs : rows'[j] = IF rows[j].agent = a /\ rows[j].status \in Active
                                     THEN HandBack(rows[j]) ELSE rows[j]
      BY <2>1 DEF InvalidateClient
    <2>3. ASSUME NEW l \in granted, SameLease(rows[l.job], l)
          PROVE  rows'[l.job] = IF l.agent = a THEN HandBack(rows[l.job]) ELSE rows[l.job]
      BY <1>1, <2>2, <2>3, OwnLease, LeaseFacts
    <2>4. ASSUME NEW l \in Mine(a) PROVE Dropped(l)'
      <3>1. l \in granted /\ l.agent = a /\ rows[l.job] \in Row /\ l.token # NoToken
        BY <1>1, <2>4, LeaseFacts DEF Mine
      <3>2. CASE SameLease(rows[l.job], l)
        BY <2>3, <3>1, <3>2, ReleasedRows DEF Dropped, LiveLease
      <3>3. CASE ~ SameLease(rows[l.job], l)
        <4>1. rows[l.job] = rows'[l.job] \/ rows'[l.job] = HandBack(rows[l.job])
          BY <1>1, <2>2, <3>1, LeaseFacts
        <4> QED BY <3>1, <3>3, <4>1, ReleasedRows DEF Dropped, LiveLease
      <3> QED BY <3>2, <3>3
    <2>5. Retired(a)'
      BY <1>2, <1>3, <1>7, <2>4 DEF Retired, Mine
    <2>6. [type |-> "UPDATE_REQUIRED"] \in Downlink(a)' /\ Truthful(a, [type |-> "UPDATE_REQUIRED"])
      BY <2>5 DEF Downlink, Truthful
    <2>7. toDevice' = [b \in Devices |-> toDevice'[b]] /\ \A b \in Devices : TellMove(b)
      BY <1>1, <2>1, <2>6, Tells
    <2>8. RowsMove
      BY <1>7, <2>3 DEF RowsMove, LeaseKept, Mine
    <2> QED BY <1>2, <1>3, <1>4, <1>5, <2>7, <2>8 DEF ServerMove
  <1> QED BY <1>6, <1>7

\* The parts of a handler that sends its answer and leaves the uploads alone.
LEMMA AnsweringMoves ==
    ASSUME SysInv, NEW a \in Devices, NEW type, Serves(a, type), UNCHANGED <<conn, granted, uploads, up>>,
           NEW m, Send(a, m), m \in Downlink(a)', Truthful(a, m), RowsMove
    PROVE  ServerMove
  <1>1. IInv /\ SysTypeOK
    BY DEF SysInv
  <1>2. /\ dev' = dev /\ posts' = posts /\ release' = release
        /\ toServer' = [b \in Devices |-> toServer'[b]] /\ \A b \in Devices : ServeMove(b)
    BY <1>1, ServesEffect
  <1>3. /\ PostsMove /\ UploadsMove /\ GrantsMove /\ conn' = [b \in Devices |-> conn'[b]]
        /\ \A b \in Devices : ConnMove(b)
    BY <1>1, <1>2, SameParts
  <1>4. toDevice' = [b \in Devices |-> toDevice'[b]] /\ \A b \in Devices : TellMove(b)
    BY <1>1, Tells
  <1> QED BY <1>2, <1>3, <1>4 DEF ServerMove

LEMMA HeartbeatAnswered ==
    ASSUME SysInv, NEW a \in Devices, NEW l \in Mine(a), NEW accepted \in BOOLEAN, NEW m \in Downlink(a),
           Serves(a, "HEARTBEAT"), Send(a, m), UNCHANGED conn,
           accepted = (Owns(l) /\ CanHeartbeat(rows[l.job], l)),
           IF accepted THEN HeartbeatLease(l) ELSE UNCHANGED vars,
           m.type = "LEASE", m.lease = l, m.accepted = accepted,
           m.until = IF accepted THEN LeaseTicks ELSE Gone
    PROVE  ServerMove
  <1>1. IInv /\ SysTypeOK /\ GrantedOnce
    BY DEF SysInv
  <1>2. l \in granted /\ l.job \in Jobs /\ rows[l.job] \in Row /\ rows[l.job].ttl \in Int
        /\ DOMAIN rows = Jobs /\ l.token # NoToken
    BY <1>1, LeaseFacts DEF Mine, IInv, TypeOK
  <1>3. UNCHANGED <<granted, uploads, up>>
    BY DEF HeartbeatLease, vars
  <1>4. m \in Downlink(a)'
    BY <1>3 DEF Downlink, Mine
  <1>5. CASE accepted
    <2>1. SetRow(l.job, Heartbeat(rows[l.job], LeaseTicks))
      BY <1>5 DEF HeartbeatLease
    <2>2. rows'[l.job].ttl = LeaseTicks
      BY <1>2, <2>1 DEF SetRow, Heartbeat, Row
    <2>3. \A k \in granted : SameLease(rows[l.job], k) => SameLease(Heartbeat(rows[l.job], LeaseTicks), k)
      BY <1>1, <1>2, ReleasedRows, LeaseFacts
    <2>4. RowsMove
      BY <1>1, <1>2, <2>1, <2>3, KeptRows
    <2>5. SameLease(rows'[l.job], l)
      BY <1>2, <1>5, <2>1, <2>3 DEF CanHeartbeat, LiveLease, SetRow
    <2>6. Truthful(a, m)
      BY <1>5, <2>2, <2>5, Ticks DEF Truthful
    <2> QED BY <1>3, <1>4, <2>4, <2>6, AnsweringMoves
  <1>6. CASE ~ accepted
    <2>1. UNCHANGED vars
      BY <1>6
    <2>2. ~ LiveLease(rows[l.job], l)
      BY <1>1, <1>2, <1>6, OwnLease DEF Owns, CanHeartbeat, LiveLease
    <2>3. Dropped(l)'
      BY <2>1, <2>2 DEF Dropped, vars
    <2>4. RowsMove
      BY <1>1, <2>1, SameParts DEF vars
    <2>5. rows'[l.job].ttl \in Int /\ rows'[l.job].ttl >= -1
      BY <1>2, <2>1 DEF vars, Row, Expired
    <2>6. Truthful(a, m)
      BY <1>6, <2>3, <2>5, Ticks DEF Truthful, Gone
    <2> QED BY <1>3, <1>4, <2>4, <2>6, AnsweringMoves
  <1> QED BY <1>5, <1>6

LEMMA ServeHeartbeatMoves ==
    ASSUME SysInv, NEW a \in Devices, ServeHeartbeat(a)
    PROVE  ServerMove
  <1>1. PICK l : l = Head(toServer[a]).lease
    OBVIOUS
  <1>2. PICK accepted : accepted = (Owns(l) /\ CanHeartbeat(rows[l.job], l))
    OBVIOUS
  <1>3. PICK m : m = LeaseAnswer(l, accepted)
    OBVIOUS
  <1>4. /\ Serves(a, "HEARTBEAT") /\ Send(a, m) /\ UNCHANGED conn
        /\ IF accepted THEN HeartbeatLease(l) ELSE UNCHANGED vars
    BY <1>1, <1>2, <1>3 DEF ServeHeartbeat
  <1>5. l \in Mine(a)
    BY <1>1, <1>4, ServesEffect DEF SysInv, Uplink
  <1>6. accepted \in BOOLEAN
    BY <1>2 DEF Owns
  <1>7. /\ m.type = "LEASE" /\ m.lease = l /\ m.accepted = accepted
        /\ m.until = IF accepted THEN LeaseTicks ELSE Gone
        /\ m \in Downlink(a)
    BY <1>3, <1>5, <1>6, Ticks DEF LeaseAnswer, Downlink, Gone
  <1> QED BY <1>2, <1>4, <1>5, <1>6, <1>7, HeartbeatAnswered

LEMMA FinishAnswered ==
    ASSUME SysInv, NEW a \in Devices, NEW f \in Range(toServer[a]), NEW l \in Mine(a),
           NEW m \in Downlink(a), f.type = "FINISH", f.lease = l,
           Serves(a, "FINISH"), Send(a, m), UNCHANGED conn, m.type = "ACK", m.lease = l,
           IF Owns(l) /\ CanFinish(rows[l.job], l) THEN FinishLease(l, f.outcome) ELSE UNCHANGED vars
    PROVE  ServerMove
  <1>1. IInv /\ SysTypeOK /\ GrantedOnce
    BY DEF SysInv
  <1>2. l \in granted /\ l.agent = a /\ l.job \in Jobs /\ rows[l.job] \in Row /\ DOMAIN rows = Jobs
        /\ l.token # NoToken
    BY <1>1, LeaseFacts DEF Mine, IInv, TypeOK
  <1>3. UNCHANGED <<granted, uploads, up>>
    BY DEF FinishLease, vars
  <1>4. m \in Downlink(a)'
    BY <1>3 DEF Downlink, Mine
  <1>5. CASE Owns(l) /\ CanFinish(rows[l.job], l)
    <2>1. rows' = [rows EXCEPT ![l.job] = Finish(rows[l.job], f.outcome)]
          /\ SameLease(rows[l.job], l)
      BY <1>5 DEF FinishLease, SetRow, CanFinish, LiveLease
    <2>2. ~ SameLease(rows'[l.job], l)
      BY <1>2, <2>1, ReleasedRows
    <2>3. RowsMove
      <3> SUFFICES ASSUME NEW b \in Devices, NEW k \in Mine(b), SameLease(rows[k.job], k), Silent(b, k)
                   PROVE  SameLease(rows'[k.job], k)
        BY DEF RowsMove, LeaseKept
      <3>1. CASE k.job # l.job
        BY <1>1, <2>1, <3>1, LeaseFacts DEF Mine
      <3>2. CASE k.job = l.job
        <4>1. k = l
          BY <1>1, <1>2, <2>1, <3>2 DEF GrantedOnce, SameLease, Mine
        <4>2. b = a
          BY <1>2, <4>1 DEF Mine
        <4> QED BY <4>1, <4>2 DEF Silent
      <3> QED BY <3>1, <3>2
    <2>4. Truthful(a, m)
      BY <2>2 DEF Truthful, Dropped, LiveLease
    <2> QED BY <1>3, <1>4, <2>3, <2>4, AnsweringMoves
  <1>6. CASE ~ (Owns(l) /\ CanFinish(rows[l.job], l))
    <2>1. UNCHANGED vars
      BY <1>6
    <2>2. ~ LiveLease(rows[l.job], l) \/ rows[l.job].status = "CANCELLING"
      BY <1>1, <1>2, <1>6, OwnLease DEF Owns, CanFinish, LiveLease
    <2>3. Truthful(a, m)
      BY <2>1, <2>2 DEF Truthful, Dropped, vars
    <2>4. RowsMove
      BY <1>1, <2>1, SameParts DEF vars
    <2> QED BY <1>3, <1>4, <2>3, <2>4, AnsweringMoves
  <1> QED BY <1>5, <1>6

LEMMA ServeFinishMoves ==
    ASSUME SysInv, NEW a \in Devices, ServeFinish(a)
    PROVE  ServerMove
  <1>1. PICK f : f = Head(toServer[a])
    OBVIOUS
  <1>2. PICK m : m = [type |-> "ACK", lease |-> f.lease]
    OBVIOUS
  <1>3. /\ Serves(a, "FINISH") /\ Send(a, m) /\ UNCHANGED conn
        /\ IF Owns(f.lease) /\ CanFinish(rows[f.lease.job], f.lease)
           THEN FinishLease(f.lease, f.outcome) ELSE UNCHANGED vars
    BY <1>1, <1>2 DEF ServeFinish
  <1>4. f.lease \in Mine(a) /\ f \in Range(toServer[a]) /\ f.type = "FINISH"
    BY <1>1, <1>3, ServesEffect DEF SysInv, Uplink
  <1>5. m \in Downlink(a) /\ m.type = "ACK" /\ m.lease = f.lease
    BY <1>2, <1>4 DEF Downlink
  <1> QED BY <1>3, <1>4, <1>5, FinishAnswered

\* What the server pushes and has not been asked for.
LEMMA PushCancelMoves ==
    ASSUME SysInv, NEW a \in Devices, PushCancel(a)
    PROVE  ServerMove
  <1>1. IInv /\ SysTypeOK
    BY DEF SysInv
  <1>2. PICK j \in Jobs : /\ up /\ rows[j].agent = a /\ rows[j].status = "CANCELLING"
                          /\ Send(a, [type |-> "LEASE", accepted |-> TRUE, cancel |-> TRUE, until |-> Gone,
                                      lease |-> [job |-> j, attempt |-> rows[j].attempt,
                                                 token |-> rows[j].token, agent |-> a]])
    BY DEF PushCancel, Ready
  <1>3. UNCHANGED <<vars, dev, toServer, conn, posts, release>>
    BY DEF PushCancel, DevicesRest
  <1>4. PICK l : l = [job |-> j, attempt |-> rows[j].attempt, token |-> rows[j].token, agent |-> a]
    OBVIOUS
  <1>5. PICK m : m = [type |-> "LEASE", accepted |-> TRUE, cancel |-> TRUE, until |-> Gone, lease |-> l]
    OBVIOUS
  <1>6. l \in Mine(a) /\ l.job = j
    BY <1>1, <1>2, <1>4 DEF IInv, ActiveIsLeased, Active, Mine
  <1>7. Send(a, m)
    BY <1>2, <1>4, <1>5
  <1>8. rows'[j].ttl \in Int /\ rows'[j].ttl >= -1
    BY <1>1, <1>3 DEF IInv, TypeOK, Row, Expired, vars
  <1>9. m \in Downlink(a)'
    BY <1>3, <1>5, <1>6, Ticks DEF Downlink, Mine, vars, Gone
  <1>10. Truthful(a, m)
    BY <1>5, <1>6, <1>8 DEF Truthful, Gone
  <1>11. toDevice' = [b \in Devices |-> toDevice'[b]] /\ \A b \in Devices : TellMove(b)
    BY <1>1, <1>7, <1>9, <1>10, Tells
  <1>12. /\ PostsMove /\ UploadsMove /\ GrantsMove /\ RowsMove
         /\ conn' = [b \in Devices |-> conn'[b]] /\ toServer' = [b \in Devices |-> toServer'[b]]
         /\ \A b \in Devices : ConnMove(b) /\ ServeMove(b)
    BY <1>1, <1>3, SameParts DEF vars
  <1> QED BY <1>3, <1>11, <1>12 DEF ServerMove, vars

LEMMA GiveJobMoves ==
    ASSUME SysInv, NEW a \in Devices, NEW j \in Jobs, GiveJob(a, j)
    PROVE  ServerMove
  <1>1. IInv /\ SysTypeOK
    BY DEF SysInv
  <1>2. /\ conn[a] = "ready" /\ rows[j].status = "QUEUED"
        /\ issued' = [issued EXCEPT ![j] = issued[j] + 1]
        /\ SetRow(j, Claim(rows[j], a, issued'[j], LeaseTicks))
        /\ granted' = granted \cup {NewLease(a, j)}
        /\ Send(a, [type |-> "JOB", lease |-> NewLease(a, j), until |-> LeaseTicks])
        /\ UNCHANGED <<uploads, up, dev, toServer, conn, posts, release>>
    BY DEF GiveJob, ClaimJob, Claimable, DevicesRest
  <1>3. rows[j] \in Row /\ DOMAIN rows = Jobs /\ DOMAIN issued = Jobs /\ issued[j] \in Nat
    BY <1>1 DEF IInv, TypeOK
  <1>4. PICK l : l = NewLease(a, j)
    OBVIOUS
  <1>5. PICK m : m = [type |-> "JOB", lease |-> l, until |-> LeaseTicks]
    OBVIOUS
  <1>6. /\ l.job = j /\ l.agent = a /\ l.token = issued[j] + 1
        /\ l.attempt = rows'[j].attempt /\ rows'[j].token = l.token /\ rows'[j].ttl = LeaseTicks
    BY <1>2, <1>3, <1>4 DEF NewLease, SetRow, Claim, Row
  <1>7. ASSUME NEW k \in granted PROVE ~ (k.job = l.job /\ k.token = l.token)
    <2>1. k.token = k.attempt /\ k.attempt <= issued[k.job] /\ k.attempt \in Nat
      BY <1>1 DEF IInv, TokensAreFresh, TypeOK, Lease
    <2> QED BY <1>3, <1>6, <2>1
  <1>8. l \notin granted
    BY <1>7
  <1>9. GrantsMove
    BY <1>2, <1>4, <1>6, <1>7, <1>8 DEF GrantsMove
  <1>10. rows[j].token = NoToken
    BY <1>1, <1>2, LeaseFacts, RowInvs DEF RowInv, Active
  <1>11. \A k \in granted : ~ SameLease(rows[j], k)
    BY <1>1, <1>10, LeaseFacts DEF SameLease
  <1>12. RowsMove
    BY <1>1, <1>2, <1>11, KeptRows
  <1>13. m \in Downlink(a)'
    BY <1>2, <1>4, <1>5, <1>6, Ticks DEF Downlink, Mine, Gone
  <1>14. Truthful(a, m)
    BY <1>5, <1>6, <1>8, Ticks DEF Truthful, SameLease
  <1>15. toDevice' = [b \in Devices |-> toDevice'[b]] /\ \A b \in Devices : TellMove(b)
    BY <1>1, <1>2, <1>4, <1>5, <1>13, <1>14, Tells
  <1>16. /\ PostsMove /\ UploadsMove
         /\ conn' = [b \in Devices |-> conn'[b]] /\ toServer' = [b \in Devices |-> toServer'[b]]
         /\ \A b \in Devices : ConnMove(b) /\ ServeMove(b)
    BY <1>1, <1>2, SameParts
  <1> QED BY <1>2, <1>9, <1>12, <1>15, <1>16 DEF ServerMove

\* A step that says nothing to a device.
LEMMA SilentMoves ==
    ASSUME SysTypeOK, UNCHANGED <<dev, wires, granted>>,
           PostsMove, UploadsMove, RowsMove,
           (up' = up /\ release' = release) \/ (~ up)
    PROVE  ServerMove
  <1>1. /\ GrantsMove
        /\ conn' = [b \in Devices |-> conn'[b]] /\ toServer' = [b \in Devices |-> toServer'[b]]
        /\ toDevice' = [b \in Devices |-> toDevice'[b]]
        /\ \A b \in Devices : TellMove(b) /\ ConnMove(b) /\ ServeMove(b)
    BY SameParts DEF wires
  <1> QED BY <1>1 DEF ServerMove, wires

\* A request that is answered 200 or 409 will not be taken again.
LEMMA PostsAnswered ==
    ASSUME SysTypeOK, granted' = granted, NEW l, NEW state \in {"open", "done", "bad"},
           \A p \in posts' : p \in posts \/ \E x \in posts : x.lease = l /\ p = [x EXCEPT !.state = state],
           state = "done" => Dropped(l)'
    PROVE  PostsMove
  <1> SUFFICES ASSUME NEW p \in posts'
               PROVE  /\ p \in [lease : granted, state : {"sent", "open", "done", "bad"}]
                      /\ \E x \in posts : x.lease = p.lease
                                          /\ (p.state = "done" => x.state = "done" \/ Dropped(p.lease)')
    BY DEF PostsMove
  <1>1. \A x \in posts : x \in [lease : granted, state : {"sent", "open", "done", "bad"}]
    BY DEF SysTypeOK, PostTyped
  <1>2. CASE p \in posts
    BY <1>1, <1>2
  <1>3. ASSUME NEW x \in posts, x.lease = l, p = [x EXCEPT !.state = state] PROVE p.lease = l /\ p.state = state
               /\ p \in [lease : granted, state : {"sent", "open", "done", "bad"}]
    BY <1>1, <1>3
  <1> QED BY <1>2, <1>3

LEMMA ServePostMoves ==
    ASSUME SysInv, ServePost
    PROVE  ServerMove
  <1>1. IInv /\ SysTypeOK /\ GrantedOnce
    BY DEF SysInv
  <1>2. PICK p \in posts :
          IF Owns(p.lease) /\ CanHeartbeat(rows[p.lease.job], p.lease)
          THEN /\ StartUpload(p.lease)
               /\ Answered(p, IF rows[p.lease.job].status = "CANCELLING" THEN "done" ELSE "open")
          ELSE Ready /\ Answered(p, "done") /\ UNCHANGED vars
    BY DEF ServePost
  <1>3. UNCHANGED <<dev, wires, release>>
    BY DEF ServePost, DevicesRest
  <1>4. PICK l : l = p.lease
    OBVIOUS
  <1>5. l \in granted /\ l.job \in Jobs /\ rows[l.job] \in Row /\ DOMAIN rows = Jobs /\ l.token # NoToken
    BY <1>1, <1>4, LeaseFacts DEF SysTypeOK, PostTyped, IInv, TypeOK
  <1>6. CASE Owns(l) /\ CanHeartbeat(rows[l.job], l)
    <2>1. /\ SetRow(l.job, Heartbeat(rows[l.job], TransferTicks))
          /\ uploads' = uploads \/ uploads' = uploads \cup {NewUpload(l)}
          /\ UNCHANGED <<granted, up>>
      BY <1>2, <1>4, <1>6 DEF StartUpload
    <2>2. \A k \in granted : SameLease(rows[l.job], k) => SameLease(Heartbeat(rows[l.job], TransferTicks), k)
      BY <1>1, <1>5, ReleasedRows, LeaseFacts
    <2>3. RowsMove
      BY <1>1, <1>5, <2>1, <2>2, KeptRows
    <2>4. UploadsMove
      BY <1>4, <2>1 DEF UploadsMove, NewUpload, LeasesOf
    <2>5. CASE rows[l.job].status = "CANCELLING"
      <3>1. Dropped(l)'
        BY <1>5, <2>1, <2>5 DEF SetRow, Heartbeat, Row, Dropped
      <3>2. \A q \in posts' : q \in posts \/ \E x \in posts : x.lease = l /\ q = [x EXCEPT !.state = "done"]
        BY <1>2, <1>4, <1>6, <2>5 DEF Answered
      <3>3. PostsMove
        BY <1>1, <2>1, <3>1, <3>2, PostsAnswered
      <3> QED BY <1>1, <1>3, <2>1, <2>3, <2>4, <3>3, SilentMoves
    <2>6. CASE rows[l.job].status # "CANCELLING"
      <3>1. \A q \in posts' : q \in posts \/ \E x \in posts : x.lease = l /\ q = [x EXCEPT !.state = "open"]
        BY <1>2, <1>4, <1>6, <2>6 DEF Answered
      <3>2. PostsMove
        BY <1>1, <2>1, <3>1, PostsAnswered
      <3> QED BY <1>1, <1>3, <2>1, <2>3, <2>4, <3>2, SilentMoves
    <2> QED BY <2>5, <2>6
  <1>7. CASE ~ (Owns(l) /\ CanHeartbeat(rows[l.job], l))
    <2>1. UNCHANGED <<rows, granted, uploads, up>>
      BY <1>2, <1>4, <1>7 DEF vars
    <2>2. ~ LiveLease(rows[l.job], l)
      BY <1>1, <1>5, <1>7, OwnLease DEF Owns, CanHeartbeat, LiveLease
    <2>3. Dropped(l)'
      BY <2>1, <2>2 DEF Dropped
    <2>4. \A q \in posts' : q \in posts \/ \E x \in posts : x.lease = l /\ q = [x EXCEPT !.state = "done"]
      BY <1>2, <1>4, <1>7 DEF Answered
    <2>5. PostsMove
      BY <1>1, <2>1, <2>3, <2>4, PostsAnswered
    <2>6. RowsMove /\ UploadsMove
      BY <1>1, <2>1, SameParts
    <2> QED BY <1>1, <1>3, <2>1, <2>5, <2>6, SilentMoves
  <1> QED BY <1>6, <1>7

LEMMA EndImportMoves ==
    ASSUME SysInv, EndImport
    PROVE  ServerMove
  <1>1. IInv /\ SysTypeOK /\ GrantedOnce
    BY DEF SysInv
  <1>2. PICK u \in uploads : CommitImport(u) /\ posts' = AnswersOf(u, "done")
    BY DEF EndImport
  <1>3. UNCHANGED <<dev, wires, release>>
    BY DEF EndImport, DevicesRest
  <1>4. PICK l : l = u.lease
    OBVIOUS
  <1>5. l \in granted /\ l.job \in Jobs /\ rows[l.job] \in Row /\ DOMAIN rows = Jobs /\ l.token # NoToken
    BY <1>1, <1>4, LeaseFacts DEF IInv, TypeOK, UploadsAreGranted
  <1>6. UNCHANGED <<granted, up>> /\ uploads' \subseteq uploads
    BY <1>2 DEF CommitImport
  <1>7. \/ /\ CanComplete(rows[l.job], l, u.live)
           /\ \E r : SetRow(l.job, r) /\ ~ SameLease(r, l)
        \/ ~ CanComplete(rows[l.job], l, u.live) /\ rows' = rows
    BY <1>2, <1>4, <1>5, ReleasedRows DEF CommitImport
  <1>8. Dropped(l)'
    <2>1. CASE \E r : SetRow(l.job, r) /\ ~ SameLease(r, l)
      <3>1. ~ SameLease(rows'[l.job], l)
        BY <1>5, <2>1 DEF SetRow
      <3> QED BY <3>1 DEF Dropped, LiveLease
    <2>2. CASE ~ CanComplete(rows[l.job], l, u.live) /\ rows' = rows
      <3>1. u.live \/ ~ LiveLease(rows[l.job], l)
        BY <1>2, <1>4 DEF CommitImport, SysInv, AnswerInv
      <3>2. SameLease(rows[l.job], l) => rows[l.job].status \in Active
        BY <1>1, <1>5, OwnLease
      <3> QED BY <2>2, <3>1, <3>2 DEF CanComplete, Dropped, LiveLease, Active
    <2> QED BY <1>7, <2>1, <2>2
  <1>9. RowsMove
    <2>1. CASE rows' = rows
      BY <1>1, <2>1, SameParts
    <2>2. CASE CanComplete(rows[l.job], l, u.live) /\ \E r : SetRow(l.job, r)
      <3> SUFFICES ASSUME NEW b \in Devices, NEW k \in Mine(b), SameLease(rows[k.job], k), Silent(b, k)
                   PROVE  SameLease(rows'[k.job], k)
        BY DEF RowsMove, LeaseKept
      <3>1. k \in granted /\ k.job \in Jobs
        BY <1>1, LeaseFacts DEF Mine
      <3>2. k # l
        BY <1>4 DEF Silent, LeasesOf
      <3>3. k.job # l.job
        BY <1>1, <1>5, <2>2, <3>1, <3>2 DEF GrantedOnce, SameLease, CanComplete
      <3> QED BY <2>2, <3>1, <3>3, <1>5 DEF SetRow
    <2> QED BY <1>7, <2>1, <2>2
  <1>10. \A q \in posts' : q \in posts \/ \E x \in posts : x.lease = l /\ q = [x EXCEPT !.state = "done"]
    BY <1>2, <1>4 DEF AnswersOf
  <1>11. PostsMove
    BY <1>1, <1>6, <1>8, <1>10, PostsAnswered
  <1>12. UploadsMove
    BY <1>6 DEF UploadsMove
  <1> QED BY <1>1, <1>3, <1>6, <1>9, <1>11, <1>12, SilentMoves

LEMMA EndUploadMoves ==
    ASSUME SysInv, EndUpload
    PROVE  ServerMove
  <1>1. IInv /\ SysTypeOK
    BY DEF SysInv
  <1>2. PICK u \in uploads : AbortUpload(u) /\ posts' \subseteq AnswersOf(u, "bad")
    BY DEF EndUpload
  <1>3. UNCHANGED <<dev, wires, release>>
    BY DEF EndUpload
  <1>4. UNCHANGED <<granted, up, rows>> /\ uploads' \subseteq uploads
    BY <1>2 DEF AbortUpload
  <1>5. \A q \in posts' : q \in posts \/ \E x \in posts : x.lease = u.lease /\ q = [x EXCEPT !.state = "bad"]
    BY <1>2 DEF AnswersOf
  <1>6. PostsMove
    BY <1>1, <1>4, <1>5, PostsAnswered
  <1>7. UploadsMove
    BY <1>4 DEF UploadsMove
  <1>8. RowsMove
    BY <1>1, <1>4, SameParts
  <1> QED BY <1>1, <1>3, <1>4, <1>6, <1>7, <1>8, SilentMoves

\* What the server does by itself: a user's request, the sweep, an import.
LEMMA ServerAloneRows ==
    ASSUME IInv, GrantedOnce,
           UserNext \/ CancelWrite \/ SweepSelect \/ SweepApply \/ SweepBusy
             \/ (\E u \in uploads : RenewUpload(u) \/ RenewUploadBusy(u) \/ StartImport(u))
    PROVE  RowsMove
  <1>1. /\ DOMAIN rows = Jobs /\ \A j \in Jobs : rows[j] \in Row /\ RowInv(j)
        /\ main \in [at : {"idle", "sweep", "cancel"}, seen : SUBSET Seen]
        /\ \A u \in uploads : u.lease.job \in Jobs
    BY RowInvs DEF IInv, TypeOK, Upload, Lease
  <1>2. CASE rows' = rows
    BY <1>2 DEF RowsMove, LeaseKept
  <1>3. ASSUME NEW j \in Jobs, SubmitJob(j) PROVE RowsMove
    BY <1>1, <1>3, KeptRows DEF SubmitJob, Enqueue, SameLease, Row
  <1>4. ASSUME NEW j \in Jobs, DeleteJob(j) PROVE RowsMove
    <2>1. rows[j].token = NoToken
      BY <1>1, <1>4 DEF DeleteJob, RowInv, Active, Terminal
    <2>2. \A l \in granted : ~ SameLease(rows[j], l)
      BY <2>1, LeaseFacts DEF SameLease
    <2> QED BY <1>4, <2>2, KeptRows DEF DeleteJob
  <1>5. CASE CancelWrite
    <2>1. PICK s \in main.seen :
            \/ SetRow(s.job, [rows[s.job] EXCEPT !.status = CancelStatus(s.status)])
            \/ rows' = rows
      BY <1>5 DEF CancelWrite
    <2>2. s.job \in Jobs
      BY <1>1, <2>1 DEF Seen
    <2>3. \A l : SameLease(rows[s.job], l)
                   => SameLease([rows[s.job] EXCEPT !.status = CancelStatus(s.status)], l)
      BY <1>1, <2>2 DEF SameLease, Row
    <2> QED BY <1>2, <2>1, <2>2, <2>3, KeptRows
  <1>6. CASE SweepApply
    <2> SUFFICES ASSUME NEW l \in granted, SameLease(rows[l.job], l)
                 PROVE  SameLease(rows'[l.job], l) \/ rows[l.job].ttl = Expired
      BY DEF RowsMove, LeaseKept, Mine
    <2>1. l.job \in Jobs
      BY LeaseFacts
    <2>2. rows'[l.job] = Swept(l.job)
      BY <1>6, <2>1 DEF SweepApply
    <2>3. Swept(l.job) = rows[l.job] \/ \E s : CanExpire(rows[l.job], s)
      BY DEF Swept
    <2> QED BY <2>2, <2>3 DEF CanExpire
  <1>7. ASSUME NEW u \in uploads, RenewUpload(u) PROVE RowsMove
    <2>1. SetRow(u.lease.job, Heartbeat(rows[u.lease.job], TransferTicks)) \/ rows' = rows
      BY <1>7 DEF RenewUpload
    <2>2. \A l \in granted : SameLease(rows[u.lease.job], l)
            => SameLease(Heartbeat(rows[u.lease.job], TransferTicks), l)
      BY <1>1, ReleasedRows, LeaseFacts
    <2> QED BY <1>1, <1>2, <2>1, <2>2, KeptRows
  <1>8. ASSUME NEW u \in uploads, RenewUploadBusy(u) \/ StartImport(u) PROVE RowsMove
    BY <1>2, <1>8 DEF RenewUploadBusy, StartImport
  <1>9. CASE SweepSelect \/ SweepBusy
    BY <1>2, <1>9 DEF SweepSelect, SweepBusy
  <1>10. ASSUME NEW j \in Jobs, CancelRead(j) PROVE RowsMove
    BY <1>2, <1>10 DEF CancelRead
  <1> QED BY <1>3, <1>4, <1>5, <1>6, <1>7, <1>8, <1>9, <1>10 DEF UserNext

LEMMA ServerAloneMoves ==
    ASSUME SysInv, ServerAlone
    PROVE  ServerMove
  <1>1. IInv /\ SysTypeOK /\ GrantedOnce
    BY DEF SysInv
  <1>2. UNCHANGED <<dev, wires, posts, release, granted, up>>
    BY DEF ServerAlone, DevicesRest, UserNext, SubmitJob, CancelRead, DeleteJob, CancelWrite,
           SweepSelect, SweepApply, SweepBusy, RenewUpload, RenewUploadBusy, StartImport
  <1>3. RowsMove
    BY <1>1, ServerAloneRows DEF ServerAlone
  <1>4. UploadsMove
    <2>1. CASE uploads' = uploads
      BY <2>1 DEF UploadsMove
    <2>2. ASSUME NEW u \in uploads, RenewUpload(u) \/ RenewUploadBusy(u) PROVE UploadsMove
      <3>1. /\ u \in Upload
            /\ \E n \in 0..LeaseTicks : uploads' = (uploads \ {u})
                                       \cup {[u EXCEPT !.renewed = TRUE, !.missed = n]}
        BY <1>1, <2>2, RenewalMisses DEF Advance, IInv, TypeOK
      <3>n. PICK n \in 0..LeaseTicks :
              uploads' = (uploads \ {u}) \cup {[u EXCEPT !.renewed = TRUE, !.missed = n]}
        BY <3>1
      <3>2. PICK v : v = [u EXCEPT !.renewed = TRUE, !.missed = n]
        OBVIOUS
      <3>3. v.lease = u.lease /\ v.stage = u.stage /\ v.live = u.live
        BY <3>1, <3>2 DEF Upload
      <3> QED BY <3>n, <3>2, <3>3 DEF UploadsMove
    <2>3. ASSUME NEW u \in uploads, StartImport(u) PROVE UploadsMove
      <3>1. /\ uploads' = (uploads \ {u})
                 \cup {[u EXCEPT !.stage = "importing", !.live = LiveLease(rows[u.lease.job], u.lease)]}
            /\ u \in Upload /\ rows' = rows
        BY <1>1, <2>3 DEF StartImport, Advance, IInv, TypeOK
      <3>2. PICK v : v = [u EXCEPT !.stage = "importing", !.live = LiveLease(rows[u.lease.job], u.lease)]
        OBVIOUS
      <3>3. v.lease = u.lease /\ v.live = LiveLease(rows[u.lease.job], u.lease)
        BY <3>1, <3>2 DEF Upload
      <3> QED BY <3>1, <3>2, <3>3 DEF UploadsMove
    <2>4. CASE UserNext \/ CancelWrite \/ SweepSelect \/ SweepApply \/ SweepBusy
      BY <2>1, <2>4 DEF UserNext, SubmitJob, CancelRead, DeleteJob, CancelWrite, SweepSelect,
                        SweepApply, SweepBusy
    <2> QED BY <2>2, <2>3, <2>4 DEF ServerAlone
  <1>5. PostsMove
    BY <1>1, <1>2, SameParts
  <1> QED BY <1>1, <1>2, <1>3, <1>4, <1>5, SilentMoves

LEMMA SysBootMoves ==
    ASSUME SysInv, SysBoot
    PROVE  ServerMove
  <1>1. IInv /\ SysTypeOK
    BY DEF SysInv
  <1>2. /\ ~ up /\ UNCHANGED <<granted, uploads, dev, wires, posts>>
        /\ rows' = [j \in Jobs |-> Interrupt(rows[j])]
    BY DEF SysBoot, Boot, DevicesRest
  <1>3. RowsMove
    <2> SUFFICES ASSUME NEW l \in granted, SameLease(rows[l.job], l)
                 PROVE  SameLease(rows'[l.job], l)
      BY DEF RowsMove, LeaseKept, Mine
    <2>1. l.job \in Jobs /\ rows[l.job] \in Row
      BY <1>1, LeaseFacts
    <2>2. rows'[l.job] = Interrupt(rows[l.job])
      BY <1>2, <2>1
    <2> QED BY <2>1, <2>2 DEF Interrupt, SameLease, Row
  <1>4. PostsMove /\ UploadsMove
    BY <1>1, <1>2, SameParts
  <1> QED BY <1>1, <1>2, <1>3, <1>4, SilentMoves

LEMMA ServerSteps ==
    ASSUME SysInv, SysServerNext
    PROVE  ServerMove \/ SysCrash
  BY ServeHelloMoves, ServeHeartbeatMoves, ServeFinishMoves, PushCancelMoves, GiveJobMoves,
     ServePostMoves, EndImportMoves, EndUploadMoves, ServerAloneMoves, SysBootMoves
     DEF SysServerNext

-----------------------------------------------------------------------------
(* The steps of the system, four kinds of them, and what each leaves of    *)
(* the state.                                                              *)

LEMMA SysCases ==
    ASSUME SysInv, SysNext
    PROVE  (\E a \in Devices : DeviceMove(a)) \/ (SysServerNext /\ ServerMove) \/ SysCrash \/ SysTick
  BY DeviceSteps, ServerSteps DEF SysNext

LEMMA FrameEffect ==
    ASSUME SysTypeOK, NEW a \in Devices, DeviceMove(a)
    PROVE  /\ dev' = [b \in Devices |-> dev'[b]] /\ toServer' = [b \in Devices |-> toServer'[b]]
           /\ toDevice' = [b \in Devices |-> toDevice'[b]] /\ conn' = [b \in Devices |-> conn'[b]]
           /\ \A b \in Devices \ {a} : /\ dev'[b] = dev[b] /\ toServer'[b] = toServer[b]
                                       /\ toDevice'[b] = toDevice[b] /\ conn'[b] = conn[b]
           /\ UNCHANGED <<rows, granted, uploads, up, release>>
           /\ toDevice'[a] \in Seq(Downlink(a)) /\ Range(toDevice'[a]) \subseteq Range(toDevice[a])
           /\ dev'[a] \in Device(a) /\ toServer'[a] \in Seq(Uplink(a))
  <1>1. Frame(a) /\ TypedMove(a) /\ WireMove(a)
    BY DEF DeviceMove
  <1>2. /\ DOMAIN dev = Devices /\ DOMAIN toServer = Devices /\ DOMAIN toDevice = Devices
        /\ DOMAIN conn = Devices
    BY DEF SysTypeOK
  <1>3. toDevice'[a] \in Seq(Downlink(a)) /\ Range(toDevice'[a]) \subseteq Range(toDevice[a])
    <2>1. toDevice[a] \in Seq(Downlink(a))
      BY DEF SysTypeOK
    <2>2. <<>> \in Seq(Downlink(a)) /\ Range(<<>>) = {}
      BY EmptySeq, RangeOfEmpty
    <2> QED BY <1>1, <2>1, <2>2, Heads DEF WireMove
  <1>4. dev' = [b \in Devices |-> dev'[b]] /\ \A b \in Devices \ {a} : dev'[b] = dev[b]
    BY <1>1, <1>2 DEF Frame
  <1>5. toServer' = [b \in Devices |-> toServer'[b]]
        /\ \A b \in Devices \ {a} : toServer'[b] = toServer[b]
    BY <1>1, <1>2 DEF Frame
  <1>6. toDevice' = [b \in Devices |-> toDevice'[b]]
        /\ \A b \in Devices \ {a} : toDevice'[b] = toDevice[b]
    BY <1>1, <1>2 DEF Frame
  <1>7. conn' = [b \in Devices |-> conn'[b]] /\ \A b \in Devices \ {a} : conn'[b] = conn[b]
    BY <1>1, <1>2 DEF Frame
  <1>8. UNCHANGED <<rows, granted, uploads, up, release>>
    BY <1>1 DEF Frame, vars
  <1> QED BY <1>1, <1>3, <1>4, <1>5, <1>6, <1>7, <1>8 DEF TypedMove

\* What a device hears next was under way, or is true.
LEMMA TellEffect ==
    ASSUME SysTypeOK, granted \subseteq granted', NEW a \in Devices, TellMove(a)
    PROVE  /\ toDevice'[a] \in Seq(Downlink(a)')
           /\ \A m \in Range(toDevice'[a]) : m \in Range(toDevice[a]) \/ Truthful(a, m)
           /\ dev[a].link = "down" => toDevice'[a] = toDevice[a]
  <1>1. toDevice[a] \in Seq(Downlink(a))
    BY DEF SysTypeOK
  <1>2. Downlink(a) \subseteq Downlink(a)'
    BY DEF Downlink, Mine
  <1>3. toDevice[a] \in Seq(Downlink(a)')
    BY <1>1, <1>2, SeqMonotonic
  <1>4. CASE toDevice'[a] = toDevice[a]
    BY <1>3, <1>4
  <1>5. ASSUME NEW m \in Downlink(a)', toDevice'[a] = Append(toDevice[a], m), Truthful(a, m),
               dev[a].link # "down"
        PROVE  /\ toDevice'[a] \in Seq(Downlink(a)')
               /\ \A x \in Range(toDevice'[a]) : x \in Range(toDevice[a]) \/ Truthful(a, x)
    <2> DEFINE S == Downlink(a)'
    <2>1. m \in S /\ toDevice[a] \in Seq(S)
      BY <1>3
    <2> HIDE DEF S
    <2>2. Append(toDevice[a], m) \in Seq(S) /\ Range(Append(toDevice[a], m)) = Range(toDevice[a]) \cup {m}
      BY <2>1, RangeOfAppend
    <2> USE DEF S
    <2> QED BY <1>5, <2>2
  <1> QED BY <1>4, <1>5 DEF TellMove

LEMMA CrashEffect ==
    ASSUME IInv, SysTypeOK, SysCrash
    PROVE  /\ UNCHANGED <<rows, issued, granted, release>> /\ up' = FALSE /\ posts' = {}
           /\ \A u \in uploads' : \E x \in uploads : x.lease = u.lease /\ x.live = u.live
                                                     /\ x.stage # "receiving"
           /\ dev' = [a \in Devices |-> dev'[a]] /\ toServer' = [a \in Devices |-> toServer'[a]]
           /\ toDevice' = [a \in Devices |-> toDevice'[a]] /\ conn' = [a \in Devices |-> conn'[a]]
           /\ \A a \in Devices :
                /\ dev'[a] = [dev[a] EXCEPT !.link = "down"]
                /\ dev'[a] \in Device(a)
                /\ dev'[a].on = dev[a].on /\ dev'[a].version = dev[a].version /\ dev'[a].link = "down"
                /\ dev'[a].updating = dev[a].updating /\ dev'[a].runs = dev[a].runs
                /\ dev'[a].outbox = dev[a].outbox /\ dev'[a].disk = dev[a].disk
                /\ toServer'[a] = <<>> /\ toDevice'[a] = <<>> /\ conn'[a] = "none"
  <1>1. /\ UNCHANGED <<rows, issued, granted, release>> /\ up' = FALSE /\ posts' = {}
        /\ dev' = [a \in Devices |-> [dev[a] EXCEPT !.link = "down"]]
        /\ toServer' = [a \in Devices |-> <<>>] /\ toDevice' = [a \in Devices |-> <<>>]
        /\ conn' = [a \in Devices |-> "none"]
    BY DEF SysCrash, Crash
  <1>2. \A a \in Devices : dev[a] \in Device(a)
    BY DEF SysTypeOK
  <1>3. ASSUME NEW a \in Devices
        PROVE  /\ dev'[a] = [dev[a] EXCEPT !.link = "down"]
               /\ dev'[a] \in Device(a)
               /\ dev'[a].on = dev[a].on /\ dev'[a].version = dev[a].version /\ dev'[a].link = "down"
               /\ dev'[a].updating = dev[a].updating /\ dev'[a].runs = dev[a].runs
               /\ dev'[a].outbox = dev[a].outbox /\ dev'[a].disk = dev[a].disk
    <2>1. dev'[a] = [dev[a] EXCEPT !.link = "down"] /\ dev[a] \in Device(a)
      BY <1>1, <1>2
    <2> QED BY <2>1 DEF Device
  <1>4. ASSUME NEW u \in uploads'
        PROVE  \E x \in uploads : x.lease = u.lease /\ x.live = u.live /\ x.stage # "receiving"
    <2>1. PICK x \in uploads : x.stage \in {"importing", "orphan"} /\ u = [x EXCEPT !.stage = "orphan"]
      BY <1>4 DEF SysCrash, Crash
    <2>2. x \in Upload
      BY <1>4 DEF IInv, TypeOK
    <2> QED BY <2>1, <2>2 DEF Upload
  <1> QED BY <1>1, <1>3, <1>4

LEMMA TickEffect ==
    ASSUME IInv, SysTypeOK, SysTick
    PROVE  /\ UNCHANGED <<granted, release, up, posts, toServer, conn>>
           /\ \A u \in uploads' : \E x \in uploads : x.lease = u.lease /\ x.live = u.live
                                                     /\ x.stage = u.stage
           /\ dev' = [a \in Devices |-> dev'[a]] /\ toDevice' = [a \in Devices |-> toDevice'[a]]
           /\ \A a \in Devices :
                /\ dev'[a].on = dev[a].on /\ dev'[a].version = dev[a].version
                /\ dev'[a].link = dev[a].link /\ dev'[a].updating = dev[a].updating
                /\ dev'[a].outbox = dev[a].outbox /\ dev'[a].disk = dev[a].disk
                /\ dev'[a] = [dev[a] EXCEPT !.runs = dev'[a].runs]
                /\ \A r \in dev'[a].runs : \E x \in dev[a].runs :
                     r = [x EXCEPT !.until = Aged(x.until)]
                /\ toDevice'[a] = [i \in DOMAIN toDevice[a] |-> Older(toDevice[a][i])]
           /\ \A j \in Jobs : /\ rows'[j] = [rows[j] EXCEPT !.ttl = Aged(rows[j].ttl)]
  <1>1. /\ UNCHANGED <<granted, release, up, posts, toServer, conn>>
        /\ dev' = [a \in Devices |->
                [dev[a] EXCEPT !.runs = {[r EXCEPT !.until = Aged(r.until)] : r \in dev[a].runs}]]
        /\ toDevice' = [a \in Devices |-> [i \in DOMAIN toDevice[a] |-> Older(toDevice[a][i])]]
    BY DEF SysTick, Tick, vars
  <1>2. \A a \in Devices : dev[a] \in Device(a)
    BY DEF SysTypeOK
  <1>3. ASSUME NEW a \in Devices
        PROVE  /\ dev'[a].on = dev[a].on /\ dev'[a].version = dev[a].version
               /\ dev'[a].link = dev[a].link /\ dev'[a].updating = dev[a].updating
               /\ dev'[a].outbox = dev[a].outbox /\ dev'[a].disk = dev[a].disk
               /\ dev'[a] = [dev[a] EXCEPT !.runs = dev'[a].runs]
               /\ \A r \in dev'[a].runs : \E x \in dev[a].runs :
                     r = [x EXCEPT !.until = Aged(x.until)]
    <2>1. PICK runs : runs = {[r EXCEPT !.until = Aged(r.until)] : r \in dev[a].runs}
      OBVIOUS
    <2>2. dev'[a] = [dev[a] EXCEPT !.runs = runs] /\ dev[a] \in Device(a)
      BY <1>1, <1>2, <2>1
    <2> QED BY <2>1, <2>2 DEF Device
  <1>4. ASSUME NEW u \in uploads'
        PROVE  \E x \in uploads : x.lease = u.lease /\ x.live = u.live /\ x.stage = u.stage
    <2>1. CASE uploads' = uploads
      BY <1>4, <2>1
    <2>2. CASE uploads' = {[x EXCEPT !.renewed = FALSE] : x \in uploads}
      <3>1. PICK x \in uploads : u = [x EXCEPT !.renewed = FALSE]
        BY <1>4, <2>2
      <3>2. x \in Upload
        BY DEF IInv, TypeOK
      <3> QED BY <3>1, <3>2 DEF Upload
    <2> QED BY <2>1, <2>2 DEF SysTick, Tick, vars
  <1>5. ASSUME NEW j \in Jobs PROVE rows'[j] = [rows[j] EXCEPT !.ttl = Aged(rows[j].ttl)]
    <2>1. rows[j] \in Row /\ rows[j].ttl \in Int
      BY DEF IInv, TypeOK, Row, Expired
    <2>2. CASE Tick
      <3>1. rows'[j] = IF rows[j].ttl >= 0 THEN [rows[j] EXCEPT !.ttl = rows[j].ttl - 1] ELSE rows[j]
        BY <2>2 DEF Tick
      <3> QED BY <2>1, <3>1 DEF Aged, Row
    <2>3. CASE UNCHANGED vars /\ rows[j].ttl = Expired
      BY <2>1, <2>3 DEF Aged, Row, vars, Expired
    <2> QED BY <2>2, <2>3 DEF SysTick
  <1>6. \A a \in Devices : toDevice'[a] = [i \in DOMAIN toDevice[a] |-> Older(toDevice[a][i])]
    BY <1>1
  <1>7. dev' = [a \in Devices |-> dev'[a]] /\ toDevice' = [a \in Devices |-> toDevice'[a]]
    BY <1>1
  <1> QED BY <1>1, <1>3, <1>4, <1>5, <1>6, <1>7

\* The clock ages what is under way, and nothing else.
LEMMA OlderTyped ==
    ASSUME NEW a, NEW m \in Downlink(a)
    PROVE  /\ Older(m) \in Downlink(a) /\ Older(m).type = m.type
           /\ m.type \in {"LEASE", "JOB", "ACK"} => Older(m).lease = m.lease
           /\ m.type = "LEASE" => Older(m).accepted = m.accepted
           /\ m.type \in {"JOB", "LEASE"} => Older(m).until = Aged(m.until) /\ m.until \in Gone..LeaseTicks
  <1>1. \A n \in Gone..LeaseTicks : Aged(n) \in Gone..LeaseTicks
    BY Ticks DEF Aged
  <1>2. CASE m.type \in {"JOB", "LEASE"}
    <2>1. Older(m) = [m EXCEPT !.until = Aged(m.until)]
      BY <1>2 DEF Older
    <2>2. m.until \in Gone..LeaseTicks
      BY <1>2 DEF Downlink
    <2>3. PICK n : n = Aged(m.until)
      OBVIOUS
    <2>4. n \in Gone..LeaseTicks
      BY <1>1, <2>2, <2>3
    <2> QED BY <1>2, <2>1, <2>2, <2>3, <2>4 DEF Downlink
  <1>3. CASE m.type \notin {"JOB", "LEASE"}
    BY <1>3 DEF Older
  <1> QED BY <1>2, <1>3

LEMMA OlderWire ==
    ASSUME SysTypeOK, NEW a \in Devices,
           toDevice'[a] = [i \in DOMAIN toDevice[a] |-> Older(toDevice[a][i])]
    PROVE  /\ toDevice'[a] \in Seq(Downlink(a)) /\ DOMAIN toDevice'[a] = DOMAIN toDevice[a]
           /\ \A i \in DOMAIN toDevice[a] : /\ toDevice[a][i] \in Downlink(a)
                                            /\ toDevice'[a][i] = Older(toDevice[a][i])
           /\ \A m \in Range(toDevice'[a]) : \E x \in Range(toDevice[a]) :
                x \in Downlink(a) /\ m = Older(x)
           /\ toDevice[a] = <<>> => toDevice'[a] = <<>>
  <1>1. toDevice[a] \in Seq(Downlink(a))
    BY DEF SysTypeOK
  <1>2. Len(toDevice[a]) \in Nat /\ DOMAIN toDevice[a] = 1..Len(toDevice[a])
        /\ \A i \in 1..Len(toDevice[a]) : toDevice[a][i] \in Downlink(a)
    BY <1>1
  <1>3. \A i \in 1..Len(toDevice[a]) : Older(toDevice[a][i]) \in Downlink(a)
    BY <1>2, OlderTyped
  <1>4. toDevice'[a] \in Seq(Downlink(a)) /\ DOMAIN toDevice'[a] = DOMAIN toDevice[a]
    BY <1>2, <1>3
  <1>5. \A m \in Range(toDevice'[a]) : \E x \in Range(toDevice[a]) : x \in Downlink(a) /\ m = Older(x)
    BY <1>2 DEF Range
  <1>6. ASSUME toDevice[a] = <<>> PROVE toDevice'[a] = <<>>
    <2>1. DOMAIN toDevice'[a] = 1..0 /\ DOMAIN toDevice'[a] = 1..Len(toDevice'[a])
          /\ Len(toDevice'[a]) \in Nat
      BY <1>2, <1>4, <1>6
    <2>2. Len(toDevice'[a]) = 0
      BY <2>1
    <2> QED BY <1>4, <2>2, EmptySeq
  <1> QED BY <1>2, <1>4, <1>5, <1>6

-----------------------------------------------------------------------------
(* The parts of the invariant, each kept by the four kinds of steps.       *)

LEMMA TypesKept ==
    ASSUME SysInv, SysNext
    PROVE  SysTypeOK'
  <1>1. IInv /\ SysTypeOK /\ granted \subseteq granted' /\ release \in Nat /\ release' \in Nat
        /\ release <= release'
    BY SysGrows DEF SysInv, SysTypeOK
  <1>2. \A a : /\ Device(a) \subseteq Device(a)' /\ Seq(Uplink(a)) \subseteq Seq(Uplink(a))'
               /\ Seq(Downlink(a)) \subseteq Seq(Downlink(a))' /\ Mine(a) \subseteq Mine(a)'
    BY <1>1, TypesGrow
  <1>3. \A a \in Devices : /\ dev[a] \in Device(a) /\ toServer[a] \in Seq(Uplink(a))
                           /\ toDevice[a] \in Seq(Downlink(a))
    BY <1>1 DEF SysTypeOK
  <1>4. conn = [a \in Devices |-> conn[a]]
        /\ \A a \in Devices : conn[a] \in {"none", "new", "ready", "refused"}
    BY <1>1 DEF SysTypeOK
  <1>5. \A p \in posts : PostTyped(p)
    BY <1>1 DEF SysTypeOK
  <1>6. SUFFICES /\ dev' = [a \in Devices |-> dev'[a]] /\ toServer' = [a \in Devices |-> toServer'[a]]
                 /\ toDevice' = [a \in Devices |-> toDevice'[a]]
                 /\ conn' = [a \in Devices |-> conn'[a]]
                 /\ \A a \in Devices : conn'[a] \in {"none", "new", "ready", "refused"}
                 /\ \A a \in Devices : dev'[a] \in Device(a)' /\ toServer'[a] \in Seq(Uplink(a))'
                                       /\ toDevice'[a] \in Seq(Downlink(a))'
                 /\ \A p \in posts' : PostTyped(p)'
    BY <1>1 DEF SysTypeOK
  <1>7. ASSUME NEW a \in Devices, DeviceMove(a)
        PROVE  /\ dev' = [b \in Devices |-> dev'[b]] /\ toServer' = [b \in Devices |-> toServer'[b]]
               /\ toDevice' = [b \in Devices |-> toDevice'[b]] /\ conn' = [b \in Devices |-> conn'[b]]
               /\ \A b \in Devices : conn'[b] \in {"none", "new", "ready", "refused"}
               /\ \A b \in Devices : dev'[b] \in Device(b)' /\ toServer'[b] \in Seq(Uplink(b))'
                                     /\ toDevice'[b] \in Seq(Downlink(b))'
               /\ \A p \in posts' : PostTyped(p)'
    <2>1. /\ dev' = [b \in Devices |-> dev'[b]] /\ toServer' = [b \in Devices |-> toServer'[b]]
          /\ toDevice' = [b \in Devices |-> toDevice'[b]] /\ conn' = [b \in Devices |-> conn'[b]]
          /\ \A b \in Devices \ {a} : /\ dev'[b] = dev[b] /\ toServer'[b] = toServer[b]
                                       /\ toDevice'[b] = toDevice[b] /\ conn'[b] = conn[b]
          /\ toDevice'[a] \in Seq(Downlink(a)) /\ dev'[a] \in Device(a)
          /\ toServer'[a] \in Seq(Uplink(a)) /\ granted' = granted
      BY <1>1, <1>7, FrameEffect
    <2>2. \A b \in Devices : dev'[b] \in Device(b)' /\ toServer'[b] \in Seq(Uplink(b))'
                             /\ toDevice'[b] \in Seq(Downlink(b))'
      BY <1>2, <1>3, <2>1
    <2>3. conn'[a] \in {"none", "new", "ready", "refused"}
      BY <1>4, <1>7 DEF DeviceMove, LifeMove
    <2>4. ASSUME NEW p \in posts' PROVE PostTyped(p)'
      <3>1. CASE p \in posts
        BY <1>5, <2>1, <3>1 DEF PostTyped
      <3>2. CASE p \in [lease : Mine(a), state : {"sent"}]
        BY <2>1, <3>2 DEF PostTyped, Mine
      <3> QED BY <1>7, <3>1, <3>2 DEF DeviceMove, SendMove
    <2> QED BY <1>4, <2>1, <2>2, <2>3, <2>4
  <1>8. ASSUME ServerMove
        PROVE  /\ dev' = [b \in Devices |-> dev'[b]] /\ toServer' = [b \in Devices |-> toServer'[b]]
               /\ toDevice' = [b \in Devices |-> toDevice'[b]] /\ conn' = [b \in Devices |-> conn'[b]]
               /\ \A b \in Devices : conn'[b] \in {"none", "new", "ready", "refused"}
               /\ \A b \in Devices : dev'[b] \in Device(b)' /\ toServer'[b] \in Seq(Uplink(b))'
                                     /\ toDevice'[b] \in Seq(Downlink(b))'
               /\ \A p \in posts' : PostTyped(p)'
    <2>1. /\ toServer' = [a \in Devices |-> toServer'[a]]
          /\ toDevice' = [a \in Devices |-> toDevice'[a]] /\ conn' = [a \in Devices |-> conn'[a]]
          /\ dev' = dev /\ \A a \in Devices : TellMove(a) /\ ConnMove(a) /\ ServeMove(a)
          /\ PostsMove
      BY <1>8 DEF ServerMove
    <2>2. dev' = [b \in Devices |-> dev'[b]] /\ \A b \in Devices : dev'[b] \in Device(b)'
      BY <1>1, <1>2, <1>3, <2>1 DEF SysTypeOK
    <2>3. \A b \in Devices : toDevice'[b] \in Seq(Downlink(b))'
      BY <1>1, <2>1, TellEffect
    <2>4. \A b \in Devices : toServer'[b] \in Seq(Uplink(b))'
      BY <1>2, <2>1 DEF ServeMove
    <2>5. \A b \in Devices : conn'[b] \in {"none", "new", "ready", "refused"}
      BY <1>4, <2>1 DEF ConnMove
    <2>6. ASSUME NEW p \in posts' PROVE PostTyped(p)'
      <3>1. p \in [lease : granted, state : {"sent", "open", "done", "bad"}]
            /\ \E x \in posts : x.lease = p.lease
        BY <2>1 DEF PostsMove
      <3> QED BY <1>1, <1>5, <3>1 DEF PostTyped
    <2> QED BY <2>1, <2>2, <2>3, <2>4, <2>5, <2>6
  <1>9. CASE SysCrash
    <2>1. \A a \in Devices : toServer'[a] \in Seq(Uplink(a)) /\ toDevice'[a] \in Seq(Downlink(a))
                             /\ dev'[a] \in Device(a) /\ conn'[a] = "none"
      <3>1. \A a \in Devices : <<>> \in Seq(Uplink(a)) /\ <<>> \in Seq(Downlink(a))
        BY EmptySeq
      <3>2. \A a \in Devices : toServer'[a] = <<>> /\ toDevice'[a] = <<>>
                               /\ dev'[a] \in Device(a) /\ conn'[a] = "none"
        BY <1>1, <1>9, CrashEffect
      <3> QED BY <3>1, <3>2
    <2>2. /\ dev' = [b \in Devices |-> dev'[b]] /\ toServer' = [b \in Devices |-> toServer'[b]]
          /\ toDevice' = [b \in Devices |-> toDevice'[b]] /\ conn' = [b \in Devices |-> conn'[b]]
          /\ posts' = {}
      BY <1>1, <1>9, CrashEffect
    <2>3. \A b \in Devices : dev'[b] \in Device(b)' /\ toServer'[b] \in Seq(Uplink(b))'
                             /\ toDevice'[b] \in Seq(Downlink(b))'
      BY <1>2, <2>1
    <2>4. \A b \in Devices : conn'[b] \in {"none", "new", "ready", "refused"}
      BY <2>1
    <2> QED BY <2>2, <2>3, <2>4
  <1>10. CASE SysTick
    <2>1. ASSUME NEW a \in Devices PROVE dev'[a] \in Device(a)
      <3>1. \A n \in Gone..LeaseTicks : Aged(n) \in Gone..LeaseTicks
        BY Ticks DEF Aged
      <3>2. ASSUME NEW r \in dev'[a].runs PROVE r \in Run(a)
        <4>1. PICK x \in dev[a].runs : r = [x EXCEPT !.until = Aged(x.until)]
          BY <1>1, <1>10, <3>2, TickEffect
        <4>2. x \in Run(a)
          BY <1>3 DEF Device
        <4>3. PICK n \in Gone..LeaseTicks : r = [x EXCEPT !.until = n]
          BY <3>1, <4>1, <4>2 DEF Run
        <4> QED BY <4>2, <4>3 DEF Run
      <3>3. PICK runs \in SUBSET Run(a) : dev'[a] = [dev[a] EXCEPT !.runs = runs]
        BY <1>1, <1>10, <3>2, TickEffect
      <3> QED BY <1>3, <3>3 DEF Device
    <2>2. \A a \in Devices : toDevice'[a] \in Seq(Downlink(a))
      BY <1>1, <1>10, TickEffect, OlderWire
    <2>3. dev' = [a \in Devices |-> dev'[a]] /\ toDevice' = [a \in Devices |-> toDevice'[a]]
          /\ granted' = granted /\ toServer' = toServer /\ conn' = conn /\ posts' = posts
      BY <1>1, <1>10, TickEffect
    <2>4. toServer = [a \in Devices |-> toServer[a]]
      BY <1>1 DEF SysTypeOK
    <2>5. \A p \in posts' : PostTyped(p)'
      BY <1>5, <2>3 DEF PostTyped
    <2> QED BY <1>2, <1>3, <1>4, <2>1, <2>2, <2>3, <2>4, <2>5
  <1> QED BY SysCases, <1>7, <1>8, <1>9, <1>10

LEMMA GrantsKept ==
    ASSUME SysInv, SysNext
    PROVE  GrantedOnce'
  <1>1. IInv /\ SysTypeOK /\ GrantedOnce
    BY DEF SysInv
  <1>2. CASE granted' = granted
    BY <1>1, <1>2 DEF GrantedOnce
  <1>3. ASSUME NEW l, granted' = granted \cup {l}, \A k \in granted : ~ (k.job = l.job /\ k.token = l.token)
        PROVE  GrantedOnce'
    <2>1. IsFiniteSet(granted')
      BY <1>1, <1>3, FS_AddElement DEF GrantedOnce
    <2> QED BY <1>1, <1>3, <2>1 DEF GrantedOnce
  <1>4. CASE ServerMove
    BY <1>2, <1>3, <1>4 DEF ServerMove, GrantsMove
  <1> QED BY <1>1, <1>2, <1>4, SysCases, FrameEffect, CrashEffect, TickEffect

LEMMA LinksKept ==
    ASSUME SysInv, SysNext
    PROVE  LinkInv'
  <1>1. IInv /\ SysTypeOK /\ LinkInv
    BY DEF SysInv
  <1> SUFFICES ASSUME NEW b \in Devices
               PROVE  /\ ~ up' => conn'[b] = "none"
                      /\ dev'[b].link = "down" => toDevice'[b] = <<>>
                      /\ ~ dev'[b].on => /\ dev'[b].link = "down" /\ ~ dev'[b].updating
                                         /\ dev'[b].runs = {} /\ dev'[b].outbox = {}
    BY DEF LinkInv
  <1>2. /\ ~ up => conn[b] = "none"
        /\ dev[b].link = "down" => toDevice[b] = <<>>
        /\ ~ dev[b].on => /\ dev[b].link = "down" /\ ~ dev[b].updating
                          /\ dev[b].runs = {} /\ dev[b].outbox = {}
    BY <1>1 DEF LinkInv
  <1>3. ASSUME NEW a \in Devices, DeviceMove(a)
        PROVE  /\ ~ up' => conn'[b] = "none"
               /\ dev'[b].link = "down" => toDevice'[b] = <<>>
               /\ ~ dev'[b].on => /\ dev'[b].link = "down" /\ ~ dev'[b].updating
                                  /\ dev'[b].runs = {} /\ dev'[b].outbox = {}
    <2>1. up' = up
      BY <1>1, <1>3, FrameEffect
    <2>2. CASE b = a
      BY <1>2, <1>3, <2>1, <2>2 DEF DeviceMove, LifeMove
    <2>3. CASE b # a
      BY <1>1, <1>2, <1>3, <2>1, <2>3, FrameEffect
    <2> QED BY <2>2, <2>3
  <1>4. CASE ServerMove
    <2>1. dev' = dev /\ TellMove(b) /\ ConnMove(b)
          /\ (up' = up \/ (~ up /\ conn' = conn))
      BY <1>4 DEF ServerMove
    <2> QED BY <1>2, <2>1 DEF TellMove, ConnMove
  <1>5. CASE SysCrash
    BY <1>1, <1>2, <1>5, CrashEffect
  <1>6. CASE SysTick
    <2>1. toDevice[b] = <<>> => toDevice'[b] = <<>>
      BY <1>1, <1>6, TickEffect, OlderWire
    <2>2. \A r \in dev'[b].runs : \E x \in dev[b].runs : TRUE
      BY <1>1, <1>6, TickEffect
    <2> QED BY <1>1, <1>2, <1>6, <2>1, <2>2, TickEffect
  <1> QED BY SysCases, <1>3, <1>4, <1>5, <1>6

\* Releases go forward, and a release that passed a device by stays ahead.
LEMMA VersionsStayBehind ==
    ASSUME SysInv, SysNext, NEW a \in Devices, dev[a].version # release
    PROVE  dev[a].version # release'
  <1>1. dev[a].version \in 0..release /\ release \in Nat /\ release' \in Nat /\ release <= release'
    BY ReleasesGrow DEF SysInv, SysTypeOK, Device
  <1> QED BY <1>1

\* What is dropped for good.
LEMMA DroppedForGood ==
    ASSUME SysInv, SysNext, NEW l \in granted
    PROVE  /\ ~ LiveLease(rows[l.job], l) => ~ LiveLease(rows'[l.job], l)
           /\ Dropped(l) => Dropped(l)'
           /\ ~ SameLease(rows[l.job], l) => ~ SameLease(rows'[l.job], l)
  BY SysStepIsStep, DroppedStays DEF SysInv

\* A device that is not told of the release any more gets no lease.
LEMMA RetiredForGood ==
    ASSUME SysInv, ServerMove, SysNext, NEW a \in Devices, Retired(a)
    PROVE  Retired(a)'
  <1>1. dev' = dev /\ GrantsMove /\ dev[a].version # release
    BY DEF ServerMove, Retired
  <1>2. dev'[a].version # release'
    BY <1>1, VersionsStayBehind
  <1>3. Mine(a)' = Mine(a)
    BY <1>1 DEF GrantsMove, Mine, SysInv, UpdateInv
  <1>4. ASSUME NEW l \in Mine(a) PROVE Dropped(l)'
    BY DroppedForGood DEF Retired, Mine
  <1> QED BY <1>2, <1>3, <1>4 DEF Retired

LEMMA UpdatesKept ==
    ASSUME SysInv, SysNext
    PROVE  UpdateInv'
  <1>1. IInv /\ SysTypeOK /\ LinkInv /\ UpdateInv
    BY DEF SysInv
  <1> SUFFICES ASSUME NEW b \in Devices
               PROVE  /\ conn'[b] = "ready" => dev'[b].version = release'
                      /\ dev'[b].updating => Retired(b)'
                      /\ \A m \in Range(toDevice'[b]) : m.type = "UPDATE_REQUIRED" => Retired(b)'
    BY DEF UpdateInv
  <1>2. /\ conn[b] = "ready" => dev[b].version = release
        /\ dev[b].updating => Retired(b)
        /\ \A m \in Range(toDevice[b]) : m.type = "UPDATE_REQUIRED" => Retired(b)
    BY <1>1 DEF UpdateInv
  <1>3. ASSUME NEW a \in Devices, DeviceMove(a)
        PROVE  /\ conn'[b] = "ready" => dev'[b].version = release'
               /\ dev'[b].updating => Retired(b)'
               /\ \A m \in Range(toDevice'[b]) : m.type = "UPDATE_REQUIRED" => Retired(b)'
    <2>1. UNCHANGED <<rows, granted, release>>
      BY <1>1, <1>3, FrameEffect
    <2>2. Retired(b) /\ dev'[b].version = dev[b].version => Retired(b)'
      BY <2>1 DEF Retired, Mine, Dropped
    <2>3. CASE b = a
      <3>1. LifeMove(b) /\ dev'[b] \in Device(b) /\ dev[b] \in Device(b)
            /\ Range(toDevice'[b]) \subseteq Range(toDevice[b]) /\ release \in Nat
        BY <1>1, <1>3, <2>3, FrameEffect DEF DeviceMove, SysTypeOK
      <3>2. dev'[b].version <= release /\ dev'[b].version \in Nat /\ dev[b].version \in Nat
        BY <3>1 DEF Device
      <3>3. conn'[b] = "ready" => dev'[b].version = release'
        BY <1>2, <2>1, <3>1, <3>2 DEF LifeMove
      <3>4. CASE dev'[b].version = dev[b].version
        <4>1. dev'[b].updating => dev[b].updating \/ Retired(b)
          BY <3>1 DEF LifeMove
        <4> QED BY <1>2, <2>2, <3>1, <3>3, <3>4, <4>1
      <3>5. CASE dev'[b].version # dev[b].version
        BY <3>1, <3>3, <3>5, RangeOfEmpty DEF LifeMove
      <3> QED BY <3>4, <3>5
    <2>4. CASE b # a
      <3>1. dev'[b] = dev[b] /\ toDevice'[b] = toDevice[b] /\ conn'[b] = conn[b]
        BY <1>1, <1>3, <2>4, FrameEffect
      <3> QED BY <1>2, <2>1, <2>2, <3>1
    <2> QED BY <2>3, <2>4
  <1>4. CASE ServerMove
    <2>1. /\ dev' = dev /\ TellMove(b) /\ ConnMove(b)
          /\ up' = up \/ (~ up /\ conn' = conn)
          /\ release' = release \/ (~ up /\ conn' = conn)
      BY <1>4 DEF ServerMove
    <2>2. Retired(b) => Retired(b)'
      BY <1>4, RetiredForGood
    <2>3. ~ up => conn[b] = "none"
      BY <1>1 DEF LinkInv
    <2>4. conn'[b] = "ready" => dev'[b].version = release'
      BY <1>2, <2>1, <2>3 DEF ConnMove
    <2>5. granted \subseteq granted'
      BY <1>1, SysGrows
    <2>6. \A m \in Range(toDevice'[b]) : m \in Range(toDevice[b]) \/ Truthful(b, m)
      BY <1>1, <2>1, <2>5, TellEffect
    <2>7. \A m \in Range(toDevice'[b]) : m.type = "UPDATE_REQUIRED" => Retired(b)'
      BY <1>2, <2>2, <2>6 DEF Truthful
    <2> QED BY <1>2, <2>1, <2>2, <2>4, <2>7
  <1>5. CASE SysCrash
    <2>1. /\ UNCHANGED <<rows, granted, release>> /\ dev'[b].version = dev[b].version
          /\ dev'[b].updating = dev[b].updating /\ conn'[b] = "none" /\ toDevice'[b] = <<>>
      BY <1>1, <1>5, CrashEffect
    <2>2. Retired(b) => Retired(b)'
      BY <2>1 DEF Retired, Mine, Dropped
    <2> QED BY <1>2, <2>1, <2>2, RangeOfEmpty
  <1>6. CASE SysTick
    <2>1. /\ UNCHANGED <<granted, release, conn>> /\ dev'[b].version = dev[b].version
          /\ dev'[b].updating = dev[b].updating
      BY <1>1, <1>6, TickEffect
    <2>2. Retired(b) => Retired(b)'
      <3>1. \A l \in Mine(b) : Dropped(l) => Dropped(l)'
        BY DroppedForGood DEF Mine
      <3> QED BY <2>1, <3>1 DEF Retired, Mine
    <2>3. \A m \in Range(toDevice'[b]) : \E x \in Range(toDevice[b]) : x.type = m.type
      BY <1>1, <1>6, TickEffect, OlderWire, OlderTyped
    <2> QED BY <1>2, <2>1, <2>2, <2>3
  <1> QED BY SysCases, <1>3, <1>4, <1>5, <1>6

LEMMA AnswersKept ==
    ASSUME SysInv, SysNext
    PROVE  AnswerInv'
  <1>1. IInv /\ SysTypeOK /\ AnswerInv
    BY DEF SysInv
  <1>2. /\ \A a \in Devices : \A m \in Range(toDevice[a]) :
             m.type = "ACK" \/ (m.type = "LEASE" /\ ~ m.accepted) => Dropped(m.lease)
        /\ \A p \in posts :
             p.state = "done" \/ p.lease \notin LeasesOf(dev[p.lease.agent].outbox) => Dropped(p.lease)
        /\ \A u \in uploads :
             u.stage # "receiving" /\ ~ u.live => ~ LiveLease(rows[u.lease.job], u.lease)
        /\ \A a \in Devices : dev[a].on => \A e \in dev[a].disk :
             e.lease \notin LeasesOf(dev[a].outbox) => Dropped(e.lease)
    BY <1>1 DEF AnswerInv
  <1>3. /\ \A l \in granted : Dropped(l) => Dropped(l)'
        /\ \A l \in granted : ~ LiveLease(rows[l.job], l) => ~ LiveLease(rows'[l.job], l)
        /\ granted \subseteq granted'
    BY <1>1, DroppedForGood, SysGrows
  <1>4. /\ \A a \in Devices : \A m \in Range(toDevice[a]) :
             m \in Downlink(a) /\ (m.type \in {"ACK", "LEASE"} => m.lease \in granted)
        /\ \A p \in posts : p.lease \in granted /\ p.lease.agent \in Devices
        /\ \A u \in uploads : u.lease \in granted
        /\ \A a \in Devices : \A e \in dev[a].disk : e.lease \in granted
    <2>1. ASSUME NEW a \in Devices, NEW m \in Range(toDevice[a])
          PROVE  m \in Downlink(a) /\ (m.type \in {"ACK", "LEASE"} => m.lease \in granted)
      <3>1. m \in Downlink(a)
        BY <1>1, ElementsOfSeq DEF SysTypeOK
      <3> QED BY <3>1 DEF Downlink, Mine
    <2>2. \A p \in posts : p.lease \in granted /\ p.lease.agent \in Devices
      BY <1>1 DEF SysTypeOK, PostTyped
    <2>3. \A u \in uploads : u.lease \in granted
      BY <1>1 DEF IInv, UploadsAreGranted
    <2>4. \A a \in Devices : \A e \in dev[a].disk : e.lease \in granted
      BY <1>1 DEF SysTypeOK, Device, Entry, Mine
    <2> QED BY <2>1, <2>2, <2>3, <2>4
  <1>5. ASSUME NEW a \in Devices, NEW m \in Range(toDevice'[a]),
               m.type = "ACK" \/ (m.type = "LEASE" /\ ~ m.accepted)
        PROVE  Dropped(m.lease)'
    <2>1. CASE m \in Range(toDevice[a])
      BY <1>2, <1>3, <1>4, <1>5, <2>1
    <2>2. ASSUME NEW b \in Devices, DeviceMove(b) PROVE m \in Range(toDevice[a])
      BY <1>1, <2>2, FrameEffect
    <2>3. CASE ServerMove
      <3>1. TellMove(a)
        BY <2>3 DEF ServerMove
      <3>2. m \in Range(toDevice[a]) \/ Truthful(a, m)
        BY <1>1, <1>3, <3>1, TellEffect
      <3> QED BY <1>5, <2>1, <3>2 DEF Truthful
    <2>4. CASE SysCrash
      BY <1>1, <2>4, CrashEffect, RangeOfEmpty
    <2>5. CASE SysTick
      <3>1. PICK x \in Range(toDevice[a]) : x \in Downlink(a) /\ m = Older(x)
        BY <1>1, <2>5, TickEffect, OlderWire
      <3>2. /\ x.type = m.type /\ (x.type \in {"ACK", "LEASE"} => x.lease = m.lease)
            /\ (x.type = "LEASE" => x.accepted = m.accepted)
        BY <3>1, OlderTyped
      <3> QED BY <1>2, <1>3, <1>4, <1>5, <3>1, <3>2
    <2> QED BY SysCases, <2>1, <2>2, <2>3, <2>4, <2>5
  <1>6. ASSUME NEW p \in posts',
               p.state = "done" \/ p.lease \notin LeasesOf(dev'[p.lease.agent].outbox)
        PROVE  Dropped(p.lease)'
    <2>1. ASSUME NEW b \in Devices, DeviceMove(b) PROVE Dropped(p.lease)'
      <3>1. /\ UNCHANGED <<rows, granted>> /\ \A c \in Devices \ {b} : dev'[c] = dev[c]
        BY <1>1, <2>1, FrameEffect
      <3>2. CASE p \in posts
        <4>1. p.lease \in granted /\ p.lease.agent \in Devices
          BY <1>4, <3>2
        <4>2. Dropped(p.lease) \/ (p.lease.agent = b /\ p.lease \in LeasesOf(dev[b].outbox)
                                    /\ p.lease \notin LeasesOf(dev'[b].outbox))
          BY <1>2, <1>6, <3>1, <3>2, <4>1
        <4>3. CASE p.lease.agent = b /\ p.lease \in LeasesOf(dev[b].outbox)
                   /\ p.lease \notin LeasesOf(dev'[b].outbox)
          <5>1. Dropped(p.lease) \/ PostsOf(b)' = {}
            BY <2>1, <4>3 DEF DeviceMove, LostMove
          <5>2. p \in PostsOf(b)'
            BY <4>3 DEF PostsOf
          <5> QED BY <1>3, <4>1, <5>1, <5>2
        <4> QED BY <1>3, <4>1, <4>2, <4>3
      <3>3. CASE p \in [lease : Mine(b), state : {"sent"}] /\ p.lease \in LeasesOf(dev'[b].outbox)
        BY <1>6, <3>3 DEF Mine
      <3> QED BY <2>1, <3>2, <3>3 DEF DeviceMove, SendMove
    <2>2. CASE ServerMove
      <3>1. dev' = dev /\ PostsMove
        BY <2>2 DEF ServerMove
      <3>2. PICK x \in posts : x.lease = p.lease /\ (p.state = "done" => x.state = "done" \/ Dropped(p.lease)')
        BY <3>1 DEF PostsMove
      <3>3. Dropped(x.lease) \/ Dropped(p.lease)'
        BY <1>2, <1>6, <3>1, <3>2
      <3> QED BY <1>3, <1>4, <3>2, <3>3
    <2>3. CASE SysCrash
      BY <1>1, <2>3, CrashEffect
    <2>4. CASE SysTick
      BY <1>1, <1>2, <1>3, <1>4, <1>6, <2>4, TickEffect
    <2> QED BY SysCases, <2>1, <2>2, <2>3, <2>4
  <1>7. ASSUME NEW u \in uploads', u.stage # "receiving", ~ u.live
        PROVE  ~ LiveLease(rows'[u.lease.job], u.lease)
    <2>1. ASSUME NEW x \in uploads, x.lease = u.lease, x.stage # "receiving", ~ x.live
          PROVE  ~ LiveLease(rows'[u.lease.job], u.lease)
      BY <1>2, <1>3, <1>4, <2>1
    <2>2. ASSUME NEW b \in Devices, DeviceMove(b) PROVE u \in uploads
      BY <1>1, <2>2, FrameEffect
    <2>3. CASE ServerMove
      BY <1>7, <2>1, <2>3 DEF ServerMove, UploadsMove
    <2>4. CASE SysCrash
      BY <1>1, <1>7, <2>1, <2>4, CrashEffect
    <2>5. CASE SysTick
      BY <1>1, <1>7, <2>1, <2>5, TickEffect
    <2> QED BY SysCases, <1>7, <2>1, <2>2, <2>3, <2>4, <2>5
  <1>8. ASSUME NEW a \in Devices, dev'[a].on, NEW e \in dev'[a].disk,
               e.lease \notin LeasesOf(dev'[a].outbox)
        PROVE  Dropped(e.lease)'
    <2>1. CASE /\ dev[a].on /\ e \in dev[a].disk /\ e.lease \notin LeasesOf(dev[a].outbox)
      BY <1>2, <1>3, <1>4, <2>1
    <2>2. ASSUME NEW b \in Devices, DeviceMove(b) PROVE Dropped(e.lease)'
      <3>1. CASE a = b
        <4>1. Dropped(e.lease) /\ rows' = rows
          BY <1>1, <1>8, <2>2, <3>1, FrameEffect DEF DeviceMove, DiskMove
        <4> QED BY <4>1 DEF Dropped
      <3>2. CASE a # b
        BY <1>1, <1>8, <2>1, <2>2, <3>2, FrameEffect
      <3> QED BY <3>1, <3>2
    <2>3. CASE ServerMove
      BY <1>8, <2>1, <2>3 DEF ServerMove
    <2>4. CASE SysCrash
      BY <1>1, <1>8, <2>1, <2>4, CrashEffect
    <2>5. CASE SysTick
      BY <1>1, <1>8, <2>1, <2>5, TickEffect
    <2> QED BY SysCases, <2>2, <2>3, <2>4, <2>5
  <1> QED BY <1>5, <1>6, <1>7, <1>8 DEF AnswerInv

\* What a step of the server leaves of a lease's expiry.
LEMMA ServerExpiry ==
    ASSUME SysInv, SysServerNext, NEW l \in granted, SameLease(rows'[l.job], l)
    PROVE  /\ SameLease(rows[l.job], l)
           /\ rows'[l.job].ttl = rows[l.job].ttl \/ rows'[l.job].ttl >= LeaseTicks
  <1>1. IInv /\ SysTypeOK /\ l.job \in Jobs
    BY LeaseFacts DEF SysInv
  <1>2. CASE Work
    BY <1>1, <1>2, WorkWrites, LeaseWritten
  <1>3. CASE UNCHANGED vars
    BY <1>3 DEF vars
  <1> QED BY <1>1, <1>2, <1>3, SysStepIsWork

\* What the types say of the copies of an expiry.
LEMMA Copies ==
    ASSUME SysTypeOK, NEW a \in Devices
    PROVE  /\ \A r \in dev[a].runs : r.lease \in Mine(a) /\ r.until \in Gone..LeaseTicks
           /\ \A e \in dev[a].outbox : e.lease \in Mine(a)
           /\ \A m \in Range(toDevice[a]) :
                /\ m \in Downlink(a)
                /\ m.type \in {"JOB", "LEASE"} => m.lease \in Mine(a) /\ m.until \in Gone..LeaseTicks
           /\ \A m \in Range(toServer[a]) :
                m \in Uplink(a) /\ (m.type = "FINISH" => m.lease \in Mine(a))
  <1>1. dev[a] \in Device(a) /\ toDevice[a] \in Seq(Downlink(a)) /\ toServer[a] \in Seq(Uplink(a))
    BY DEF SysTypeOK
  <1>2. /\ \A r \in dev[a].runs : r.lease \in Mine(a) /\ r.until \in Gone..LeaseTicks
        /\ \A e \in dev[a].outbox : e.lease \in Mine(a)
    BY <1>1 DEF Device, Run, Entry
  <1>3. ASSUME NEW m \in Range(toDevice[a])
        PROVE  /\ m \in Downlink(a)
               /\ m.type \in {"JOB", "LEASE"} => m.lease \in Mine(a) /\ m.until \in Gone..LeaseTicks
    <2>1. m \in Downlink(a)
      BY <1>1, ElementsOfSeq
    <2> QED BY <2>1 DEF Downlink
  <1>4. ASSUME NEW m \in Range(toServer[a])
        PROVE  m \in Uplink(a) /\ (m.type = "FINISH" => m.lease \in Mine(a))
    <2>1. m \in Uplink(a)
      BY <1>1, ElementsOfSeq
    <2> QED BY <2>1 DEF Uplink
  <1> QED BY <1>2, <1>3, <1>4

LEMMA ExpiriesKept ==
    ASSUME SysInv, SysNext
    PROVE  ExpiryInv'
  <1>1. IInv /\ SysTypeOK /\ ExpiryInv /\ granted \subseteq granted'
    BY SysGrows DEF SysInv
  <1> SUFFICES ASSUME NEW b \in Devices, NEW l \in Mine(b)', SameLease(rows'[l.job], l)
               PROVE  /\ \A r \in dev'[b].runs : r.lease = l => r.until <= rows'[l.job].ttl
                      /\ \A m \in Range(toDevice'[b]) :
                           m.type \in {"JOB", "LEASE"} /\ m.lease = l => m.until <= rows'[l.job].ttl
    BY DEF ExpiryInv
  <1>2. ASSUME l \in Mine(b), SameLease(rows[l.job], l)
        PROVE  /\ \A r \in dev[b].runs : r.lease = l => r.until <= rows[l.job].ttl
               /\ \A m \in Range(toDevice[b]) :
                    m.type \in {"JOB", "LEASE"} /\ m.lease = l => m.until <= rows[l.job].ttl
    BY <1>1, <1>2 DEF ExpiryInv
  <1>3. /\ \A r \in dev[b].runs : r.lease \in Mine(b) /\ r.until \in Gone..LeaseTicks
        /\ \A m \in Range(toDevice[b]) :
             /\ m \in Downlink(b)
             /\ m.type \in {"JOB", "LEASE"} => m.lease \in Mine(b) /\ m.until \in Gone..LeaseTicks
    BY <1>1, Copies
  <1>4. l \in Mine(b) => l \in granted /\ l.job \in Jobs /\ rows[l.job] \in Row /\ rows[l.job].ttl \in Int
                         /\ rows[l.job].ttl >= -1
    BY <1>1, LeaseFacts DEF Mine, Row, Expired
  <1>5. ASSUME NEW a \in Devices, DeviceMove(a)
        PROVE  /\ \A r \in dev'[b].runs : r.lease = l => r.until <= rows'[l.job].ttl
               /\ \A m \in Range(toDevice'[b]) :
                    m.type \in {"JOB", "LEASE"} /\ m.lease = l => m.until <= rows'[l.job].ttl
    <2>1. /\ UNCHANGED <<rows, granted>> /\ Range(toDevice'[a]) \subseteq Range(toDevice[a])
          /\ b # a => dev'[b] = dev[b] /\ toDevice'[b] = toDevice[b]
      BY <1>1, <1>5, FrameEffect
    <2>2. l \in Mine(b) /\ SameLease(rows[l.job], l)
      BY <2>1 DEF Mine
    <2>3. CASE b # a
      BY <1>2, <2>1, <2>2, <2>3
    <2>4. CASE b = a
      <3>1. ASSUME NEW r \in dev'[b].runs, r.lease = l PROVE r.until <= rows'[l.job].ttl
        <4>1. \/ \E x \in dev[b].runs : x.lease = r.lease /\ x.until = r.until
              \/ /\ toDevice[b] # <<>> /\ Head(toDevice[b]).lease = r.lease
                 /\ Head(toDevice[b]).until = r.until /\ Head(toDevice[b]).type \in {"JOB", "LEASE"}
          BY <1>5, <2>4, <3>1 DEF DeviceMove, RunsFrom
        <4>2. toDevice[b] # <<>> => Head(toDevice[b]) \in Range(toDevice[b])
          BY <1>1, Heads
        <4> QED BY <1>2, <2>1, <2>2, <3>1, <4>1, <4>2
      <3> QED BY <1>2, <2>1, <2>2, <2>4, <3>1
    <2> QED BY <2>3, <2>4
  <1>6. CASE SysServerNext /\ ServerMove
    <2>1. dev' = dev /\ TellMove(b)
      BY <1>6 DEF ServerMove
    <2>2. \A m \in Range(toDevice'[b]) : m \in Range(toDevice[b]) \/ Truthful(b, m)
      BY <1>1, <2>1, TellEffect
    <2>3. rows'[l.job].ttl \in Int /\ rows'[l.job].ttl >= -1
      <3>1. IInv' /\ l \in granted'
        BY <1>1, SysGrows DEF Mine
      <3> QED BY <3>1 DEF IInv, TypeOK, Lease, Row, Expired
    <2>4. ASSUME l \in Mine(b), NEW n \in Gone..LeaseTicks, n <= rows[l.job].ttl
          PROVE  n <= rows'[l.job].ttl
      <3>1. rows'[l.job].ttl = rows[l.job].ttl \/ rows'[l.job].ttl >= LeaseTicks
        BY <1>4, <1>6, <2>4, ServerExpiry
      <3> QED BY <2>3, <2>4, <3>1, Ticks
    <2>5. l \in Mine(b) => SameLease(rows[l.job], l)
      BY <1>4, <1>6, ServerExpiry
    <2>6. ASSUME NEW r \in dev'[b].runs, r.lease = l PROVE r.until <= rows'[l.job].ttl
      BY <1>2, <1>3, <2>1, <2>4, <2>5, <2>6
    <2>7. ASSUME NEW m \in Range(toDevice'[b]), m.type \in {"JOB", "LEASE"}, m.lease = l
          PROVE  m.until <= rows'[l.job].ttl
      <3>1. CASE m \in Range(toDevice[b])
        BY <1>2, <1>3, <2>4, <2>5, <2>7, <3>1
      <3>2. CASE Truthful(b, m)
        <4>1. m.until < 0 \/ m.until <= rows'[l.job].ttl
          BY <2>7, <3>2 DEF Truthful
        <4>2. m.until \in Int
          <5>1. SysTypeOK'
            BY TypesKept
          <5>2. toDevice'[b] \in Seq(Downlink(b)')
            BY <5>1 DEF SysTypeOK
          <5>3. m \in Downlink(b)'
            <6> DEFINE S == Downlink(b)'
            <6>1. toDevice'[b] \in Seq(S)
              BY <5>2
            <6> HIDE DEF S
            <6>2. Range(toDevice'[b]) \subseteq S
              BY <6>1, ElementsOfSeq
            <6> USE DEF S
            <6> QED BY <2>7, <6>2
          <5> QED BY <2>7, <5>3, Ticks DEF Downlink
        <4> QED BY <2>3, <4>1, <4>2
      <3> QED BY <2>2, <3>1, <3>2
    <2> QED BY <2>6, <2>7
  <1>7. CASE SysCrash
    <2>1. UNCHANGED <<rows, granted>> /\ dev'[b].runs = dev[b].runs /\ toDevice'[b] = <<>>
      BY <1>1, <1>7, CrashEffect
    <2> QED BY <1>2, <2>1, RangeOfEmpty DEF Mine
  <1>8. CASE SysTick
    <2>1. granted' = granted /\ \A j \in Jobs : rows'[j] = [rows[j] EXCEPT !.ttl = Aged(rows[j].ttl)]
      BY <1>1, <1>8, TickEffect
    <2>2. l \in Mine(b)
      BY <2>1 DEF Mine
    <2>3. rows'[l.job].ttl = Aged(rows[l.job].ttl) /\ SameLease(rows[l.job], l)
      BY <1>4, <2>1, <2>2 DEF Row, SameLease
    <2>4. ASSUME NEW n \in Gone..LeaseTicks, n <= rows[l.job].ttl PROVE Aged(n) <= rows'[l.job].ttl
      BY <1>4, <2>2, <2>3, <2>4, Ticks DEF Aged
    <2>5. ASSUME NEW r \in dev'[b].runs, r.lease = l PROVE r.until <= rows'[l.job].ttl
      <3>1. PICK x \in dev[b].runs : r = [x EXCEPT !.until = Aged(x.until)]
        BY <1>1, <1>8, <2>5, TickEffect
      <3>2. x \in Run(b)
        BY <1>1 DEF SysTypeOK, Device
      <3>3. x.lease = l /\ r.until = Aged(x.until)
        BY <2>5, <3>1, <3>2 DEF Run
      <3> QED BY <1>2, <1>3, <2>2, <2>3, <2>4, <3>3
    <2>6. ASSUME NEW m \in Range(toDevice'[b]), m.type \in {"JOB", "LEASE"}, m.lease = l
          PROVE  m.until <= rows'[l.job].ttl
      <3>1. PICK x \in Range(toDevice[b]) : x \in Downlink(b) /\ m = Older(x)
        BY <1>1, <1>8, <2>6, TickEffect, OlderWire
      <3>2. x.type = m.type /\ x.lease = l /\ m.until = Aged(x.until) /\ x.until \in Gone..LeaseTicks
        BY <2>6, <3>1, OlderTyped
      <3> QED BY <1>2, <2>2, <2>3, <2>4, <2>6, <3>2
    <2> QED BY <2>5, <2>6
  <1> QED BY SysCases, <1>5, <1>6, <1>7, <1>8

LEMMA JobsKept ==
    ASSUME SysInv, SysNext
    PROVE  JobInv'
  <1>1. IInv /\ SysTypeOK /\ JobInv /\ granted \subseteq granted'
    BY SysGrows DEF SysInv
  <1> SUFFICES ASSUME NEW b \in Devices, NEW i \in DOMAIN toDevice'[b], toDevice'[b][i].type = "JOB"
               PROVE  /\ toDevice'[b][i].lease \notin LeasesOf(dev'[b].runs)
                      /\ \A k \in DOMAIN toDevice'[b] :
                           IsJob(toDevice'[b][k], toDevice'[b][i].lease) => k = i
    BY DEF JobInv
  <1>2. ASSUME NEW n \in DOMAIN toDevice[b], toDevice[b][n].type = "JOB"
        PROVE  /\ toDevice[b][n].lease \notin LeasesOf(dev[b].runs)
               /\ \A k \in DOMAIN toDevice[b] : IsJob(toDevice[b][k], toDevice[b][n].lease) => k = n
    BY <1>1, <1>2 DEF JobInv
  <1>3. /\ toDevice[b] \in Seq(Downlink(b)) /\ Len(toDevice[b]) \in Nat
        /\ DOMAIN toDevice[b] = 1..Len(toDevice[b])
    BY <1>1 DEF SysTypeOK
  <1>4. ASSUME NEW a \in Devices, DeviceMove(a)
        PROVE  /\ toDevice'[b][i].lease \notin LeasesOf(dev'[b].runs)
               /\ \A k \in DOMAIN toDevice'[b] : IsJob(toDevice'[b][k], toDevice'[b][i].lease) => k = i
    <2>1. CASE b # a
      <3>1. dev'[b] = dev[b] /\ toDevice'[b] = toDevice[b]
        BY <1>1, <1>4, <2>1, FrameEffect
      <3> QED BY <1>2, <3>1
    <2>2. CASE b = a /\ toDevice'[b] = toDevice[b] /\ ~ (toDevice[b] # <<>> /\ toDevice'[b] = Tail(toDevice[b]))
      <3>1. \A r \in dev'[b].runs : \E x \in dev[b].runs : x.lease = r.lease
        BY <1>4, <2>2 DEF DeviceMove, RunsFrom
      <3> QED BY <1>2, <2>2, <3>1 DEF LeasesOf
    <2>3. CASE b = a /\ toDevice[b] # <<>> /\ toDevice'[b] = Tail(toDevice[b])
      <3>1. /\ DOMAIN toDevice'[b] = 1..(Len(toDevice[b]) - 1) /\ Len(toDevice[b]) >= 1
            /\ \A k \in 1..(Len(toDevice[b]) - 1) : toDevice'[b][k] = toDevice[b][k + 1]
            /\ Head(toDevice[b]) = toDevice[b][1]
        BY <1>3, <2>3, HeadTailProperties
      <3>2. /\ i + 1 \in DOMAIN toDevice[b] /\ 1 \in DOMAIN toDevice[b] /\ i + 1 # 1
            /\ toDevice'[b][i] = toDevice[b][i + 1] /\ i \in Nat
        BY <1>3, <3>1
      <3>3. toDevice[b][i + 1].lease \notin LeasesOf(dev[b].runs)
            /\ ~ IsJob(toDevice[b][1], toDevice[b][i + 1].lease)
        BY <1>2, <3>2
      <3>4. ASSUME NEW r \in dev'[b].runs PROVE r.lease # toDevice'[b][i].lease
        <4>1. (\E x \in dev[b].runs : x.lease = r.lease) \/ IsJob(toDevice[b][1], r.lease)
          BY <1>4, <2>3, <3>1, <3>4 DEF DeviceMove, RunsFrom, IsJob
        <4> QED BY <3>2, <3>3, <4>1 DEF LeasesOf
      <3>5. ASSUME NEW k \in DOMAIN toDevice'[b], IsJob(toDevice'[b][k], toDevice'[b][i].lease)
            PROVE  k = i
        <4>1. k + 1 \in DOMAIN toDevice[b] /\ toDevice'[b][k] = toDevice[b][k + 1] /\ k \in Nat
          BY <1>3, <3>1
        <4>2. k + 1 = i + 1
          BY <1>2, <3>2, <3>5, <4>1
        <4> QED BY <3>2, <4>1, <4>2
      <3> QED BY <3>4, <3>5 DEF LeasesOf
    <2>4. CASE b = a /\ toDevice'[b] = <<>>
      BY <2>4
    <2> QED BY <1>4, <2>1, <2>2, <2>3, <2>4 DEF DeviceMove, WireMove
  <1>5. CASE ServerMove
    <2>1. dev' = dev /\ TellMove(b)
      BY <1>5 DEF ServerMove
    <2>2. CASE toDevice'[b] = toDevice[b]
      BY <1>2, <2>1, <2>2
    <2>3. ASSUME NEW m, toDevice'[b] = Append(toDevice[b], m), Truthful(b, m)
          PROVE  /\ toDevice'[b][i].lease \notin LeasesOf(dev'[b].runs)
                 /\ \A k \in DOMAIN toDevice'[b] :
                      IsJob(toDevice'[b][k], toDevice'[b][i].lease) => k = i
      <3>1. /\ DOMAIN toDevice'[b] = 1..(Len(toDevice[b]) + 1)
            /\ \A k \in 1..Len(toDevice[b]) : toDevice'[b][k] = toDevice[b][k]
            /\ toDevice'[b][Len(toDevice[b]) + 1] = m
        BY <1>3, <2>3
      <3>2. m.type = "JOB" => m.lease \notin granted
        BY <2>3 DEF Truthful
      <3>3. \A r \in dev[b].runs : r.lease \in granted
        BY <1>1, Copies DEF Mine
      <3>4. \A k \in 1..Len(toDevice[b]) : toDevice[b][k].type = "JOB" => toDevice[b][k].lease \in granted
        <4>1. \A k \in 1..Len(toDevice[b]) : toDevice[b][k] \in Downlink(b)
          BY <1>3
        <4> QED BY <4>1 DEF Downlink, Mine
      <3>5. CASE i \in 1..Len(toDevice[b])
        <4>1. toDevice'[b][i].lease \in granted /\ toDevice'[b][i] = toDevice[b][i]
          BY <3>1, <3>4, <3>5
        <4>2. \A k \in DOMAIN toDevice'[b] : IsJob(toDevice'[b][k], toDevice'[b][i].lease) =>
                 k \in 1..Len(toDevice[b])
          BY <1>3, <3>1, <3>2, <4>1 DEF IsJob
        <4> QED BY <1>2, <1>3, <2>1, <3>1, <3>5, <4>1, <4>2
      <3>6. CASE i = Len(toDevice[b]) + 1
        <4>1. toDevice'[b][i] = m /\ m.lease \notin granted
          BY <3>1, <3>2, <3>6
        <4>2. \A k \in DOMAIN toDevice'[b] : IsJob(toDevice'[b][k], m.lease) => k \notin 1..Len(toDevice[b])
          BY <3>1, <3>4, <4>1 DEF IsJob
        <4> QED BY <1>3, <2>1, <3>1, <3>3, <3>6, <4>1, <4>2 DEF LeasesOf
      <3> QED BY <1>3, <3>1, <3>5, <3>6
    <2> QED BY <2>1, <2>2, <2>3 DEF TellMove
  <1>6. CASE SysCrash
    BY <1>1, <1>6, CrashEffect
  <1>7. CASE SysTick
    <2>1. /\ DOMAIN toDevice'[b] = DOMAIN toDevice[b]
          /\ \A n \in DOMAIN toDevice[b] : /\ toDevice[b][n] \in Downlink(b)
                                           /\ toDevice'[b][n] = Older(toDevice[b][n])
      BY <1>1, <1>7, TickEffect, OlderWire
    <2>2. \A n \in DOMAIN toDevice[b] :
            /\ toDevice'[b][n].type = toDevice[b][n].type
            /\ toDevice[b][n].type = "JOB" => toDevice'[b][n].lease = toDevice[b][n].lease
      BY <2>1, OlderTyped
    <2>3. LeasesOf(dev'[b].runs) \subseteq LeasesOf(dev[b].runs)
      <3> SUFFICES ASSUME NEW r \in dev'[b].runs PROVE \E x \in dev[b].runs : x.lease = r.lease
        BY DEF LeasesOf
      <3>1. PICK x \in dev[b].runs : r = [x EXCEPT !.until = Aged(x.until)]
        BY <1>1, <1>7, TickEffect
      <3>2. x \in Run(b)
        BY <1>1 DEF SysTypeOK, Device
      <3> QED BY <3>1, <3>2 DEF Run
    <2> QED BY <1>2, <2>1, <2>2, <2>3 DEF IsJob
  <1> QED BY SysCases, <1>4, <1>5, <1>6, <1>7

\* What is computed was computed before, or has just been assigned.
LEMMA UnderwayBefore ==
    ASSUME SysInv, NEW a \in Devices, NEW l, NEW b \in Devices, DeviceMove(b), Underway(a, l)'
    PROVE  Underway(a, l)
  <1>1. SysTypeOK
    BY DEF SysInv
  <1>2. /\ a # b => dev'[a] = dev[a] /\ toDevice'[a] = toDevice[a]
        /\ Range(toDevice'[b]) \subseteq Range(toDevice[b])
        /\ toDevice[b] # <<>> => Head(toDevice[b]) \in Range(toDevice[b])
    BY <1>1, FrameEffect, Heads
  <1>3. CASE a # b
    BY <1>2, <1>3 DEF Underway
  <1>4. CASE a = b
    <2>1. ASSUME NEW r \in dev'[a].runs, r.lease = l, r.phase = "computing" PROVE Underway(a, l)
      BY <1>2, <1>4, <2>1 DEF DeviceMove, RunsFrom, Underway, IsJob
    <2> QED BY <1>2, <1>4, <2>1 DEF Underway
  <1> QED BY <1>3, <1>4

LEMMA UnderwayIsMine ==
    ASSUME SysTypeOK, NEW a \in Devices, NEW l, Underway(a, l)
    PROVE  l \in Mine(a)
  BY Copies DEF Underway, IsJob

\* A step of the server starts nothing but what it has just granted.
LEMMA UnderwayServed ==
    ASSUME SysInv, SysNext, ServerMove, NEW a \in Devices, NEW l, Underway(a, l)'
    PROVE  Underway(a, l) \/ (l \notin granted /\ SameLease(rows'[l.job], l))
  <1>1. SysTypeOK /\ granted \subseteq granted' /\ dev' = dev /\ TellMove(a)
    BY SysGrows DEF SysInv, ServerMove
  <1>2. \A m \in Range(toDevice'[a]) : m \in Range(toDevice[a]) \/ Truthful(a, m)
    BY <1>1, TellEffect
  <1> QED BY <1>1, <1>2 DEF Underway, IsJob, Truthful

LEMMA SilenceKept ==
    ASSUME SysInv, SysNext
    PROVE  SilenceInv'
  <1>1. IInv /\ SysTypeOK /\ SilenceInv /\ granted \subseteq granted'
    BY SysGrows DEF SysInv
  <1> SUFFICES ASSUME NEW b \in Devices, NEW l \in Mine(b)', Underway(b, l)'
               PROVE  Silent(b, l)'
    BY DEF SilenceInv
  <1>2. ASSUME Underway(b, l)
        PROVE  /\ l \in Mine(b) /\ l \in granted /\ l.agent = b /\ Silent(b, l)
               /\ l \notin LeasesOf(dev[b].outbox) /\ l \notin LeasesOf(posts) /\ l \notin LeasesOf(uploads)
               /\ \A m \in Range(toServer[b]) : m.type = "FINISH" => m.lease # l
    <2>1. l \in Mine(b)
      BY <1>1, <1>2, UnderwayIsMine
    <2>2. Silent(b, l)
      BY <1>1, <1>2, <2>1 DEF SilenceInv
    <2> QED BY <2>1, <2>2 DEF Silent, Mine
  <1>3. ASSUME NEW a \in Devices, DeviceMove(a) PROVE Silent(b, l)'
    <2>1. Underway(b, l)
      BY <1>3, UnderwayBefore
    <2>2. /\ UNCHANGED <<uploads, granted>>
          /\ b # a => dev'[b] = dev[b] /\ toServer'[b] = toServer[b]
      BY <1>1, <1>3, FrameEffect
    <2>3. l \notin LeasesOf(dev'[b].outbox)
      <3>1. CASE b # a
        BY <1>2, <2>1, <2>2, <3>1
      <3>2. CASE b = a
        <4> SUFFICES ASSUME l \in LeasesOf(dev'[b].outbox) PROVE FALSE
          OBVIOUS
        <4>1. l \in LeasesOf(dev'[b].outbox) \ LeasesOf(dev[b].outbox)
          BY <1>2, <2>1
        <4>2. l \notin LeasesOf(dev'[b].runs) /\ \A m \in Range(toDevice'[b]) : ~ IsJob(m, l)
          BY <1>3, <3>2, <4>1 DEF DeviceMove, OutboxFrom
        <4> QED BY <4>2 DEF Underway, LeasesOf
      <3> QED BY <3>1, <3>2
    <2>4. l \notin LeasesOf(posts')
      <3> SUFFICES ASSUME NEW p \in posts', p.lease = l PROVE FALSE
        BY DEF LeasesOf
      <3>1. p \notin posts
        BY <1>2, <2>1 DEF LeasesOf
      <3>2. p.lease \in Mine(a) /\ p.lease \in LeasesOf(dev'[a].outbox)
        BY <1>3, <3>1 DEF DeviceMove, SendMove
      <3>3. a = b
        BY <1>2, <2>1, <3>2 DEF Mine
      <3> QED BY <2>3, <3>2, <3>3
    <2>5. ASSUME NEW m \in Range(toServer'[b]), m.type = "FINISH" PROVE m.lease # l
      <3>1. CASE m \in Range(toServer[b])
        BY <1>2, <2>1, <2>5, <3>1
      <3>2. CASE a = b /\ m.lease \in LeasesOf(dev'[b].outbox) \cup LeasesOf(posts)
        BY <1>2, <2>1, <2>3, <3>2
      <3> QED BY <1>3, <2>2, <2>5, <3>1, <3>2 DEF DeviceMove, SendMove
    <2> QED BY <1>2, <2>1, <2>2, <2>3, <2>4, <2>5 DEF Silent
  <1>4. CASE ServerMove
    <2>1. dev' = dev /\ ServeMove(b) /\ PostsMove /\ UploadsMove
      BY <1>4 DEF ServerMove
    <2>2. LeasesOf(posts') \subseteq LeasesOf(posts)
      BY <2>1 DEF PostsMove, LeasesOf
    <2>3. LeasesOf(uploads') \subseteq LeasesOf(uploads) \cup LeasesOf(posts)
      BY <2>1 DEF UploadsMove, LeasesOf
    <2>4. Range(toServer'[b]) \subseteq Range(toServer[b])
      BY <2>1 DEF ServeMove
    <2>5. CASE Underway(b, l)
      BY <1>2, <2>1, <2>2, <2>3, <2>4, <2>5 DEF Silent
    <2>6. CASE l \notin granted
      <3>1. LeasesOf(posts) \subseteq granted
        BY <1>1 DEF SysTypeOK, PostTyped, LeasesOf
      <3>2. LeasesOf(uploads) \subseteq granted
        BY <1>1 DEF IInv, UploadsAreGranted, LeasesOf
      <3>3. LeasesOf(dev[b].outbox) \subseteq granted
            /\ \A m \in Range(toServer[b]) : m.type = "FINISH" => m.lease \in granted
        BY <1>1, Copies DEF Mine, LeasesOf
      <3> QED BY <2>1, <2>2, <2>3, <2>4, <2>6, <3>1, <3>2, <3>3 DEF Silent
    <2> QED BY <1>4, <2>5, <2>6, UnderwayServed
  <1>5. CASE SysCrash
    <2>1. /\ dev'[b].runs = dev[b].runs /\ dev'[b].outbox = dev[b].outbox /\ posts' = {}
          /\ toDevice'[b] = <<>> /\ toServer'[b] = <<>>
          /\ \A u \in uploads' : \E x \in uploads : x.lease = u.lease
      BY <1>1, <1>5, CrashEffect
    <2>2. Underway(b, l)
      BY <2>1, RangeOfEmpty DEF Underway
    <2>3. LeasesOf(uploads') \subseteq LeasesOf(uploads) /\ LeasesOf(posts') = {}
      BY <2>1 DEF LeasesOf
    <2> QED BY <1>2, <2>1, <2>2, <2>3, RangeOfEmpty DEF Silent
  <1>6. CASE SysTick
    <2>1. /\ dev'[b].outbox = dev[b].outbox /\ posts' = posts /\ toServer' = toServer
          /\ \A u \in uploads' : \E x \in uploads : x.lease = u.lease
      BY <1>1, <1>6, TickEffect
    <2>2. Underway(b, l)
      <3>1. ASSUME NEW r \in dev'[b].runs, r.lease = l, r.phase = "computing" PROVE Underway(b, l)
        <4>1. PICK x \in dev[b].runs : r = [x EXCEPT !.until = Aged(x.until)]
          BY <1>1, <1>6, <3>1, TickEffect
        <4>2. x \in Run(b)
          BY <1>1 DEF SysTypeOK, Device
        <4> QED BY <3>1, <4>1, <4>2 DEF Run, Underway
      <3>2. ASSUME NEW m \in Range(toDevice'[b]), IsJob(m, l) PROVE Underway(b, l)
        <4>1. PICK x \in Range(toDevice[b]) : x \in Downlink(b) /\ m = Older(x)
          BY <1>1, <1>6, <3>2, TickEffect, OlderWire
        <4> QED BY <3>2, <4>1, OlderTyped DEF IsJob, Underway
      <3> QED BY <3>1, <3>2 DEF Underway
    <2>3. LeasesOf(uploads') \subseteq LeasesOf(uploads)
      BY <2>1 DEF LeasesOf
    <2> QED BY <1>2, <2>1, <2>2, <2>3 DEF Silent
  <1> QED BY SysCases, <1>3, <1>4, <1>5, <1>6

LEMMA LeasesKept ==
    ASSUME SysInv, SysNext
    PROVE  LeaseInv'
  <1>1. /\ IInv /\ SysTypeOK /\ SilenceInv /\ LeaseInv /\ ExpiryInv
        /\ granted \subseteq granted'
    BY SysGrows DEF SysInv
  <1> SUFFICES ASSUME NEW b \in Devices, NEW l \in Mine(b)', Underway(b, l)'
               PROVE  SameLease(rows'[l.job], l) \/ dev'[b].version # release' \/ Late(b, l)'
    BY DEF LeaseInv
  <1>2. ASSUME Underway(b, l)
        PROVE  /\ l \in Mine(b) /\ l \in granted /\ l.job \in Jobs /\ Silent(b, l)
               /\ SameLease(rows[l.job], l) \/ dev[b].version # release \/ Late(b, l)
    <2>1. l \in Mine(b)
      BY <1>1, <1>2, UnderwayIsMine
    <2>2. SameLease(rows[l.job], l) \/ dev[b].version # release \/ Late(b, l)
      BY <1>1, <1>2, <2>1 DEF LeaseInv
    <2>3. Silent(b, l)
      BY <1>1, <1>2, <2>1 DEF SilenceInv
    <2> QED BY <1>1, <2>1, <2>2, <2>3, LeaseFacts DEF Mine
  <1>3. ASSUME NEW a \in Devices, DeviceMove(a)
        PROVE  SameLease(rows'[l.job], l) \/ dev'[b].version # release' \/ Late(b, l)'
    <2>1. Underway(b, l)
      BY <1>3, UnderwayBefore
    <2>2. /\ UNCHANGED <<rows, release>> /\ Range(toDevice'[a]) \subseteq Range(toDevice[a])
          /\ b # a => dev'[b] = dev[b] /\ toDevice'[b] = toDevice[b]
          /\ toDevice[b] # <<>> => Head(toDevice[b]) \in Range(toDevice[b])
      BY <1>1, <1>3, FrameEffect, Heads
    <2>3. CASE b # a
      BY <1>2, <2>1, <2>2, <2>3 DEF Late
    <2>4. CASE b = a
      <3>1. dev'[b].version = dev[b].version \/ (dev'[b].runs = {} /\ toDevice'[b] = <<>>)
        BY <1>3, <2>4 DEF DeviceMove, LifeMove
      <3>2. dev'[b].version = dev[b].version
        BY <3>1, RangeOfEmpty DEF Underway
      <3>3. ASSUME Late(b, l) PROVE Late(b, l)'
        <4>1. ASSUME NEW r \in dev'[b].runs, r.lease = l, r.phase = "computing" PROVE r.until < 0
          <5>1. \/ \E x \in dev[b].runs : x.lease = l /\ x.until = r.until /\ x.phase = "computing"
                \/ /\ toDevice[b] # <<>> /\ Head(toDevice[b]).lease = l
                   /\ Head(toDevice[b]).until = r.until /\ Head(toDevice[b]).type \in {"JOB", "LEASE"}
            BY <1>3, <2>4, <4>1 DEF DeviceMove, RunsFrom
          <5> QED BY <2>2, <3>3, <5>1 DEF Late
        <4> QED BY <2>2, <2>4, <3>3, <4>1 DEF Late
      <3> QED BY <1>2, <2>1, <2>2, <3>2, <3>3
    <2> QED BY <2>3, <2>4
  <1>4. CASE ServerMove
    <2>1. dev' = dev /\ TellMove(b) /\ RowsMove
      BY <1>4 DEF ServerMove
    <2>2. \A m \in Range(toDevice'[b]) : m \in Range(toDevice[b]) \/ Truthful(b, m)
      BY <1>1, <2>1, TellEffect
    <2>3. SUFFICES ASSUME Underway(b, l), ~ SameLease(rows'[l.job], l), dev[b].version = release
                   PROVE  Late(b, l)'
      BY <1>4, <2>1, UnderwayServed, VersionsStayBehind
    <2>4. Late(b, l)
      <3>1. CASE SameLease(rows[l.job], l)
        <4>1. rows[l.job].ttl = Expired
          BY <1>2, <2>1, <2>3, <3>1 DEF RowsMove, LeaseKept
        <4>2. /\ \A r \in dev[b].runs : r.lease = l => r.until <= -1 /\ r.until \in Int
              /\ \A m \in Range(toDevice[b]) :
                   m.type \in {"JOB", "LEASE"} /\ m.lease = l => m.until <= -1 /\ m.until \in Int
          BY <1>1, <1>2, <2>3, <3>1, <4>1, Copies, Ticks DEF ExpiryInv
        <4> QED BY <4>2 DEF Late
      <3> QED BY <1>2, <2>3, <3>1
    <2>5. ASSUME NEW m \in Range(toDevice'[b]), m.type \in {"JOB", "LEASE"}, m.lease = l PROVE m.until < 0
      BY <2>2, <2>3, <2>4, <2>5 DEF Late, Truthful
    <2> QED BY <2>1, <2>4, <2>5 DEF Late
  <1>5. CASE SysCrash
    <2>1. /\ dev'[b].runs = dev[b].runs /\ dev'[b].version = dev[b].version
          /\ toDevice'[b] = <<>> /\ rows' = rows /\ release' = release
      BY <1>1, <1>5, CrashEffect
    <2>2. Underway(b, l)
      BY <2>1, RangeOfEmpty DEF Underway
    <2> QED BY <1>2, <2>1, <2>2, RangeOfEmpty DEF Late
  <1>6. CASE SysTick
    <2>1. /\ dev'[b].version = dev[b].version /\ release' = release
          /\ \A j \in Jobs : rows'[j] = [rows[j] EXCEPT !.ttl = Aged(rows[j].ttl)]
      BY <1>1, <1>6, TickEffect
    <2>2. ASSUME NEW r \in dev'[b].runs
          PROVE  \E x \in dev[b].runs : /\ x.lease = r.lease /\ x.phase = r.phase
                                        /\ x.until < 0 => r.until < 0
      <3>1. PICK x \in dev[b].runs : r = [x EXCEPT !.until = Aged(x.until)]
        BY <1>1, <1>6, <2>2, TickEffect
      <3>2. x \in Run(b)
        BY <1>1 DEF SysTypeOK, Device
      <3>3. PICK n : n = Aged(x.until)
        OBVIOUS
      <3>4. x.until < 0 => n < 0
        BY <3>2, <3>3, Ticks DEF Run, Aged
      <3> QED BY <3>1, <3>2, <3>3, <3>4 DEF Run
    <2>3. ASSUME NEW m \in Range(toDevice'[b]), m.type \in {"JOB", "LEASE"}
          PROVE  \E x \in Range(toDevice[b]) : /\ x.type = m.type /\ x.lease = m.lease
                                               /\ x.until < 0 => m.until < 0
      <3>1. PICK x \in Range(toDevice[b]) : x \in Downlink(b) /\ m = Older(x)
        BY <1>1, <1>6, <2>3, TickEffect, OlderWire
      <3>2. x.type = m.type /\ x.lease = m.lease /\ m.until = Aged(x.until) /\ x.until \in Gone..LeaseTicks
        BY <2>3, <3>1, OlderTyped
      <3> QED BY <3>2, Ticks DEF Aged
    <2>4. Underway(b, l)
      BY <2>2, <2>3 DEF Underway, IsJob
    <2>5. SameLease(rows[l.job], l) => SameLease(rows'[l.job], l)
      <3>1. l.job \in Jobs /\ rows[l.job] \in Row
        BY <1>1, <1>2, <2>4, LeaseFacts
      <3> QED BY <2>1, <3>1 DEF SameLease, Row
    <2>6. Late(b, l) => Late(b, l)'
      BY <2>2, <2>3 DEF Late
    <2> QED BY <1>2, <2>1, <2>4, <2>5, <2>6
  <1> QED BY SysCases, <1>3, <1>4, <1>5, <1>6

-----------------------------------------------------------------------------
(* The invariant, and what it shows.                                       *)

LEMMA SysInitInv == SysInit => SysInv
  <1> SUFFICES ASSUME SysInit PROVE SysInv
    OBVIOUS
  <1>1. IInv
    BY InitIInv DEF SysInit
  <1>2. /\ granted = {} /\ uploads = {} /\ posts = {} /\ release = 0
        /\ dev = [a \in Devices |-> NoDevice]
        /\ toServer = [a \in Devices |-> <<>>] /\ toDevice = [a \in Devices |-> <<>>]
        /\ conn = [a \in Devices |-> "none"]
    BY DEF SysInit, Init
  <1>3. \A a : NoDevice \in Device(a)
    BY <1>2 DEF NoDevice, Device
  <1>4. \A a : <<>> \in Seq(Uplink(a)) /\ <<>> \in Seq(Downlink(a))
    BY EmptySeq
  <1>5. SysTypeOK
    BY <1>2, <1>3, <1>4 DEF SysTypeOK
  <1>6. GrantedOnce
    BY <1>2, FS_EmptySet DEF GrantedOnce
  <1>7. \A a : Mine(a) = {}
    BY <1>2 DEF Mine
  <1>8. LinkInv /\ UpdateInv
    BY <1>2, RangeOfEmpty DEF LinkInv, UpdateInv, NoDevice
  <1>9. AnswerInv /\ ExpiryInv
    BY <1>2, <1>7, RangeOfEmpty DEF AnswerInv, ExpiryInv, NoDevice
  <1>10. JobInv
    BY <1>2 DEF JobInv
  <1>11. SilenceInv /\ LeaseInv
    BY <1>7 DEF SilenceInv, LeaseInv
  <1> QED BY <1>1, <1>5, <1>6, <1>8, <1>9, <1>10, <1>11 DEF SysInv

LEMMA SysStepKeepsInv ==
    ASSUME SysInv, SysNext
    PROVE  SysInv'
  <1>1. IInv'
    BY SysGrows DEF SysInv
  <1> QED BY <1>1, TypesKept, GrantsKept, LinksKept, UpdatesKept, AnswersKept, ExpiriesKept,
             JobsKept, SilenceKept, LeasesKept DEF SysInv

LEMMA SysStutterKeepsInv ==
    ASSUME SysInv, UNCHANGED sysVars
    PROVE  SysInv'
  <1>1. /\ UNCHANGED <<vars, rows, granted, uploads, up, dev, toServer, toDevice, conn, posts, release>>
        /\ IInv /\ SysTypeOK /\ GrantedOnce /\ LinkInv /\ UpdateInv /\ AnswerInv
        /\ ExpiryInv /\ JobInv /\ SilenceInv /\ LeaseInv
    BY DEF SysInv, sysVars, vars, wires
  <1>2. IInv'
    BY <1>1, StutterKeepsIInv
  <1>3. \A a : Mine(a)' = Mine(a) /\ Device(a)' = Device(a) /\ Uplink(a)' = Uplink(a)
               /\ Downlink(a)' = Downlink(a)
    BY <1>1 DEF Mine, Device, Uplink, Downlink, Run, Entry
  <1>4. SysTypeOK'
    BY <1>1, <1>3 DEF SysTypeOK, PostTyped
  <1>5. GrantedOnce' /\ LinkInv'
    BY <1>1 DEF GrantedOnce, LinkInv
  <1>6. UpdateInv' /\ AnswerInv'
    BY <1>1, <1>3 DEF UpdateInv, AnswerInv, Retired, Dropped
  <1>7. ExpiryInv' /\ JobInv'
    BY <1>1, <1>3 DEF ExpiryInv, JobInv
  <1>8. SilenceInv' /\ LeaseInv'
    BY <1>1, <1>3 DEF SilenceInv, LeaseInv, Underway, Silent, Late
  <1> QED BY <1>2, <1>4, <1>5, <1>6, <1>7, <1>8 DEF SysInv

\* The inductive invariant of the devices and the server together, for any
\* number of devices, jobs, faults and releases.
THEOREM SysInductive == SysSpec => []SysInv
  <1>1. SysInv /\ [SysNext]_sysVars => SysInv'
    BY SysStepKeepsInv, SysStutterKeepsInv
  <1> QED BY <1>1, SysInitInv, PTL DEF SysSpec

\* What the devices hold, and what is under way to and from them, is made of
\* leases that the server granted to that very device.
THEOREM DevicesHoldTheirLeases == SysSpec => []SysTypeOK
  <1>1. SysInv => SysTypeOK
    BY DEF SysInv
  <1> QED BY <1>1, SysInductive, PTL

\* The server of AgentSystem does nothing a server of BacktestLease would not
\* do: whatever is shown of leases under arbitrary agents holds of devices
\* that follow client.ts.
THEOREM SystemImplementsLeases == SysSpec => ImplementsBacktestLease
  <1>1. SysInit => Init
    BY DEF SysInit
  <1>2. SysInv /\ [SysNext]_sysVars => [Next]_vars
    <2>1. ASSUME SysInv, SysNext PROVE [Next]_vars
      BY <2>1, SysStepIsStep DEF SysInv
    <2>2. UNCHANGED sysVars => UNCHANGED vars
      BY DEF sysVars
    <2> QED BY <2>1, <2>2
  <1> QED BY <1>1, <1>2, SysInductive, PTL DEF SysSpec, Spec, ImplementsBacktestLease

\* A device's copy of an expiry never runs ahead of the server's.
THEOREM ExpiriesNeverRunAhead == SysSpec => []DeviceExpiresFirst
  <1>1. SysInv => DeviceExpiresFirst
    <2> SUFFICES ASSUME SysInv, NEW a \in Devices, NEW r \in dev[a].runs,
                        SameLease(rows[r.lease.job], r.lease)
                 PROVE  r.until <= rows[r.lease.job].ttl
      BY DEF DeviceExpiresFirst
    <2>1. r.lease \in Mine(a)
      BY Copies DEF SysInv
    <2> QED BY <2>1 DEF SysInv, ExpiryInv
  <1> QED BY <1>1, SysInductive, PTL

\* A device that computes and trusts its lease is the one that has the job.
THEOREM OneExecutorPerJob == SysSpec => []OneExecutor
  <1>1. SysInv => OneExecutor
    <2> SUFFICES ASSUME SysInv, NEW a \in Devices, NEW r \in dev[a].runs, Computes(r),
                        dev[a].version = release
                 PROVE  SameLease(rows[r.lease.job], r.lease)
      BY DEF OneExecutor
    <2>1. r.lease \in Mine(a) /\ r.until \in Int
      BY Copies, Ticks DEF SysInv
    <2>2. Underway(a, r.lease) /\ ~ Late(a, r.lease)
      BY <2>1 DEF Underway, Late, Computes
    <2> QED BY <2>1, <2>2 DEF SysInv, LeaseInv
  <1> QED BY <1>1, SysInductive, PTL

\* What was saved before a crash or a stop is taken up again.
THEOREM SavedReportsAreTakenUp == SysSpec => []SavedReportsAreSent
  <1>1. SysInv => SavedReportsAreSent
    BY DEF SysInv, AnswerInv, SavedReportsAreSent, Dropped
  <1> QED BY <1>1, SysInductive, PTL

\* A computed result leaves the outbox of a running device only when the
\* server has it, or will never take it.
THEOREM ResultsStayInTheOutbox == SysSpec => ResultsAreNotDropped
  <1>1. ASSUME SysInv, SysNext, NEW a \in Devices, NEW e \in dev[a].outbox, dev'[a].on,
               e.lease \notin LeasesOf(dev'[a].outbox)
        PROVE  Dropped(e.lease)
    <2>1. SysTypeOK /\ IInv /\ e.lease \in LeasesOf(dev[a].outbox)
      BY <1>1 DEF SysInv, LeasesOf
    <2>2. dev'[a].outbox # dev[a].outbox
      BY <1>1, <2>1
    <2>3. ASSUME NEW b \in Devices, DeviceMove(b) PROVE Dropped(e.lease)
      <3>1. b = a
        BY <2>1, <2>2, <2>3, FrameEffect
      <3> QED BY <1>1, <2>1, <2>3, <3>1 DEF DeviceMove, LostMove
    <2>4. CASE ServerMove
      BY <2>2, <2>4 DEF ServerMove
    <2>5. CASE SysCrash
      BY <2>1, <2>2, <2>5, CrashEffect
    <2>6. CASE SysTick
      BY <2>1, <2>2, <2>6, TickEffect
    <2> QED BY <1>1, SysCases, <2>3, <2>4, <2>5, <2>6
  <1> DEFINE Kept ==
        \A a \in Devices : \A e \in dev[a].outbox :
          e.report = "ARTIFACT" /\ dev'[a].on /\ e.lease \notin LeasesOf(dev'[a].outbox)
          => \/ ~ LiveLease(rows[e.lease.job], e.lease)
             \/ rows[e.lease.job].status = "CANCELLING"
  <1>2. SysInv /\ [SysNext]_sysVars => [Kept]_sysVars
    BY <1>1 DEF Dropped
  <1> HIDE DEF Kept
  <1>3. SysSpec => [][Kept]_sysVars
    BY <1>2, SysInductive, PTL DEF SysSpec
  <1> QED BY <1>3 DEF Kept, ResultsAreNotDropped
=============================================================================
