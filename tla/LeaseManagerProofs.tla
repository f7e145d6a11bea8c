-------------------------- MODULE LeaseManagerProofs --------------------------
(***************************************************************************)
(* Proofs about LeaseManager for every set of sessions and pids, every TTL *)
(* and every bound.                                                        *)
(***************************************************************************)
EXTENDS LeaseManager, TLAPS

-----------------------------------------------------------------------------
(* The inductive invariant. *)

\* Generations are handed out in order, and nothing happens to a record before
\* its generation starts.
BornInOrder ==
    \A l \in Lease :
        /\ record[l].op # "none" <=> l[2] <= generation[l[1]]
        /\ record[l].op = "none" => record[l] = UnbornRecord

\* A record in the map is live and of the pid's last generation.
MappedIsLive ==
    \A p \in Pid :
        /\ leases[p] # 0 => leases[p] = generation[p] /\ Live(<<p, leases[p]>>)
        /\ disposed => leases[p] = 0 /\ owners[p] = {}

LiveIsMapped ==
    \A l \in Lease : Live(l) => leases[l[1]] = l[2] /\ IsPidDesired(l[1])

\* How the fields of a record go together.
Shape(r) ==
    /\ r.active <=> r.op \in {"idle", "renew", "renewed"} /\ r.release = "none"
    /\ r.timer # NoTime => r.active /\ r.op = "idle"
    /\ r.active /\ r.timer = NoTime => r.op # "idle"
    /\ r.restart => r.release # "none"
    /\ r.release = "done" => r.op \in {"idle", "failed"}

RecordShape == \A l \in Lease : Shape(record[l])

LeaseInv == BornInOrder /\ MappedIsLive /\ LiveIsMapped /\ RecordShape /\ ReleasedLeaseLeavesNoFile

SessionInv ==
    /\ OwnersMatchSessions
    /\ disposed => \A s \in Session : sessions[s] = None /\ intent[s] = None
    /\ disposed => ~enabled
    /\ \A m \in moves :
         /\ m.gen <= sessionGeneration[m.session]
         /\ m.gen = sessionGeneration[m.session] /\ ~disposed =>
              sessions[m.session] = None /\ intent[m.session] = m.pid
    /\ \A m, k \in moves : m.session = k.session /\ m.gen = k.gen => m = k
    /\ LatestCallWins

-----------------------------------------------------------------------------
(* Types. *)

LEMMA LeasePairs ==
    /\ \A l \in Lease : l = <<l[1], l[2]>> /\ l[1] \in Pid /\ l[2] \in 1..MaxLease
    /\ \A p \in Pid, g \in 1..MaxLease : <<p, g>> \in Lease
    /\ NoLease \notin Lease
    /\ \A p \in Pid, g \in Nat : <<p, g>> # NoLease
  BY LeaseAssumption DEF Lease, NoLease

LEMMA HeartbeatDueType ==
    ASSUME NEW e \in 0..(MaxTime + TTL), now \in Time, now < e
    PROVE  HeartbeatDue(e) \in 0..(MaxTime + TTL)
  BY LeaseAssumption DEF HeartbeatDue, Smaller, Larger, Time

LEMMA RecordTypes ==
    /\ UnbornRecord \in LeaseRecord
    /\ NewRecord \in LeaseRecord
    /\ NewRecord.op = "acquire" /\ NewRecord.release = "none" /\ ~NewRecord.active
    /\ NewRecord.timer = NoTime /\ ~NewRecord.restart /\ ~NewRecord.leaked
  <1>1. UnbornRecord \in LeaseRecord
    BY LeaseAssumption DEF UnbornRecord, LeaseRecord, Operation
  <1>2. NewRecord \in LeaseRecord
    BY <1>1 DEF NewRecord, LeaseRecord, Operation
  <1> QED  BY <1>1, <1>2 DEF NewRecord, UnbornRecord

\* The functions ensureLease writes keep their types.
LEMMA EnsureLeasesType ==
    ASSUME TypeOK, NEW P, P \subseteq Pid, EnsureLeases(P)
    PROVE  /\ leases' \in [Pid -> 0..MaxLease]
           /\ generation' \in [Pid -> 0..MaxLease]
           /\ record' \in [Lease -> LeaseRecord]
  <1> QED  BY RecordTypes, LeaseAssumption DEF TypeOK, EnsureLeases

LEMMA RetireLeasesType ==
    ASSUME TypeOK, NEW L, RetireLeases(L)
    PROVE  /\ leases' \in [Pid -> 0..MaxLease]
           /\ generation' \in [Pid -> 0..MaxLease]
           /\ record' \in [Lease -> LeaseRecord]
  <1>1. \A r \in LeaseRecord : RetiredRecord(r) \in LeaseRecord
    BY LeaseAssumption DEF RetiredRecord, LeaseRecord
  <1> QED  BY <1>1, LeaseAssumption DEF TypeOK, RetireLeases

LEMMA ScheduleType ==
    ASSUME NEW r \in LeaseRecord, now \in Time, now < r.expiresAt
    PROVE  ScheduleHeartbeat(r) \in LeaseRecord
  <1>1. r.expiresAt \in 0..(MaxTime + TTL)
    BY DEF LeaseRecord
  <1>2. HeartbeatDue(r.expiresAt) \in 0..(MaxTime + TTL)
    BY <1>1, HeartbeatDueType
  <1> QED  BY <1>2 DEF ScheduleHeartbeat, LeaseRecord

LEMMA RetiredType == \A r \in LeaseRecord : RetiredRecord(r) \in LeaseRecord
  BY DEF RetiredRecord, LeaseRecord

LEMMA LeaseLeftType ==
    ASSUME TypeOK, NEW s \in Session, NEW p \in Pid
    PROVE  LeaseLeft(s, p) \in Lease \cup {NoLease}
  <1>1. leases[p] \in 0..MaxLease
    BY DEF TypeOK
  <1>2. leases[p] # 0 => leases[p] \in 1..MaxLease
    BY <1>1, LeaseAssumption, Z3
  <1>3. leases[p] # 0 => <<p, leases[p]>> \in Lease
    BY <1>2, LeasePairs
  <1> QED  BY <1>3 DEF LeaseLeft

\* Every field of every record, and every map, keeps its type.
THEOREM TypeCorrect == Spec => []TypeOK
  <1>1. Init => TypeOK
    <2> SUFFICES ASSUME Init PROVE TypeOK
      OBVIOUS
    <2>1. record \in [Lease -> LeaseRecord]
      BY RecordTypes DEF Init
    <2>2. now \in Time /\ leaseFile \in [Lease -> {NoTime} \cup Time]
      BY LeaseAssumption DEF Init, Time
    <2>3. /\ leases \in [Pid -> 0..MaxLease] /\ generation \in [Pid -> 0..MaxLease]
          /\ sessionGeneration \in [Session -> 0..MaxCalls]
      BY LeaseAssumption DEF Init
    <2> QED  BY <2>1, <2>2, <2>3 DEF Init, TypeOK
  <1>2. TypeOK /\ [Next]_vars => TypeOK'
    <2> SUFFICES ASSUME TypeOK, [Next]_vars PROVE TypeOK'
      OBVIOUS
    <2> USE LeaseAssumption
    <2>1. ASSUME NEW s \in Session, NEW p \in Pid, RegisterSession(s, p) PROVE TypeOK'
      <3>1. enabled => EnsureLeases({p})
        BY <2>1 DEF RegisterSession, EnsureIfEnabled
      <3>2. /\ leases' \in [Pid -> 0..MaxLease]
            /\ generation' \in [Pid -> 0..MaxLease]
            /\ record' \in [Lease -> LeaseRecord]
        <4>1. CASE enabled  BY <3>1, <4>1, EnsureLeasesType
        <4>2. CASE ~enabled BY <2>1, <4>2 DEF RegisterSession, EnsureIfEnabled, TypeOK
        <4> QED  BY <4>1, <4>2
      <3>3. sessions' \in [Session -> Pid \cup {None}] /\ owners' \in [Pid -> SUBSET Session]
        BY <2>1 DEF RegisterSession, AttachOwner, TypeOK
      <3>4. sessionGeneration' \in [Session -> 0..MaxCalls]
        BY <2>1 DEF RegisterSession, NextSessionGeneration, TypeOK
      <3>5. intent' \in [Session -> Pid \cup {None}]
        BY <2>1 DEF RegisterSession, TypeOK
      <3> QED  BY <2>1, <3>2, <3>3, <3>4, <3>5 DEF RegisterSession, TypeOK, transportVars
    <2>2. ASSUME NEW s \in Session, NEW p \in Pid, MoveSession(s, p) PROVE TypeOK'
      <3>1. sessions[s] \in Pid
        BY <2>2 DEF MoveSession, TypeOK
      <3>2. RetireLeases({LeaseLeft(s, sessions[s])})
        BY <2>2 DEF MoveSession, DetachOwner
      <3>3. [session |-> s, pid |-> p, gen |-> sessionGeneration[s] + 1,
             await |-> LeaseLeft(s, sessions[s])] \in Move
        BY <2>2, <3>1, LeaseLeftType DEF MoveSession, NextSessionGeneration, Move, TypeOK
      <3> QED  BY <2>2, <3>1, <3>2, <3>3, RetireLeasesType
               DEF MoveSession, DetachOwner, NextSessionGeneration, TypeOK, transportVars
    <2>3. ASSUME NEW m \in moves, FinishMove(m) PROVE TypeOK'
      <3>1. m \in Move /\ m.session \in Session /\ m.pid \in Pid
        BY DEF TypeOK, Move
      <3>2. CASE MoveIsCurrent(m) /\ enabled
        BY <2>3, <3>1, <3>2, EnsureLeasesType
           DEF FinishMove, AttachOwner, EnsureIfEnabled, TypeOK, transportVars
      <3>3. CASE ~(MoveIsCurrent(m) /\ enabled)
        BY <2>3, <3>1, <3>3 DEF FinishMove, AttachOwner, EnsureIfEnabled, TypeOK, transportVars
      <3> QED  BY <3>2, <3>3
    <2>4. ASSUME NEW s \in Session, UnregisterSession(s) PROVE TypeOK'
      <3>1. CASE sessions[s] = None
        BY <2>4, <3>1 DEF UnregisterSession, NextSessionGeneration, TypeOK, transportVars
      <3>2. CASE sessions[s] # None
        <4>1. sessions[s] \in Pid
          BY <3>2 DEF TypeOK
        <4>2. RetireLeases({LeaseLeft(s, sessions[s])})
          BY <2>4, <3>2 DEF UnregisterSession, DetachOwner
        <4> QED  BY <2>4, <3>2, <4>1, <4>2, RetireLeasesType
                 DEF UnregisterSession, DetachOwner, NextSessionGeneration, TypeOK, transportVars
      <3> QED  BY <3>1, <3>2
    <2>5. CASE Reconcile
      BY <2>5, EnsureLeasesType DEF Reconcile, TypeOK, transportVars
    <2>6. CASE Enable
      BY <2>6, EnsureLeasesType DEF Enable, TypeOK, transportVars
    <2>7. CASE Disable
      BY <2>7, RetireLeasesType DEF Disable, TypeOK, transportVars
    <2>8. CASE Dispose
      <3>1. sessionGeneration' \in [Session -> 0..MaxCalls]
        BY <2>8 DEF Dispose, TypeOK
      <3>2. RetireLeases(MappedLeases)
        BY <2>8 DEF Dispose
      <3> QED  BY <2>8, <3>1, <3>2, RetireLeasesType DEF Dispose, TypeOK, transportVars
    <2>9. ASSUME NEW l \in Lease, PublishLease(l) PROVE TypeOK'
      <3>1. [record[l] EXCEPT !.op = "published"] \in LeaseRecord
        BY DEF TypeOK, LeaseRecord, Operation
      <3> QED  BY <2>9, <3>1 DEF PublishLease, SetRecord, OnlyRecord, TypeOK
    <2>10. ASSUME NEW l \in Lease, TargetAccepts(l) PROVE TypeOK'
      <3>1. [record[l] EXCEPT !.op = "acked"] \in LeaseRecord
        BY DEF TypeOK, LeaseRecord, Operation
      <3>2. record' \in [Lease -> LeaseRecord] /\ UNCHANGED <<leases, generation>>
        BY <2>10, <3>1 DEF TargetAccepts, SetRecord, TypeOK
      <3>3. accepted' \in SUBSET Lease /\ leaseFile' \in [Lease -> {NoTime} \cup Time]
        BY <2>10 DEF TargetAccepts, Prune, TypeOK
      <3> QED  BY <2>10, <3>2, <3>3 DEF TargetAccepts, OnlyRecord, TypeOK
    <2>11. ASSUME NEW l \in Lease, AcquireOk(l) PROVE TypeOK'
      <3> DEFINE r == [record[l] EXCEPT !.op = "idle", !.active = TRUE, !.expiresAt = now + TTL]
      <3>1. [record[l] EXCEPT !.op = "idle"] \in LeaseRecord
        BY DEF TypeOK, LeaseRecord, Operation
      <3>a. record[l] \in LeaseRecord /\ now \in Time /\ now + TTL \in 0..(MaxTime + TTL)
        BY DEF TypeOK, Time
      <3>2. r \in LeaseRecord /\ now < r.expiresAt /\ now \in Time
        <4>1. r.expiresAt = now + TTL /\ now < now + TTL
          BY <3>a DEF LeaseRecord, Time
        <4>2. r \in LeaseRecord
          BY <3>a DEF LeaseRecord, Operation
        <4> QED  BY <3>a, <4>1, <4>2
      <3>3. record' \in [Lease -> LeaseRecord]
        BY <2>11, <3>1, <3>2, ScheduleType, RetiredType DEF AcquireOk, SetRecord, TypeOK
      <3> QED  BY <2>11, <3>3 DEF AcquireOk, SetRecord, OnlyRecord, TypeOK, transportVars
    <2>12. ASSUME NEW l \in Lease, AcquireFails(l) PROVE TypeOK'
      <3>1. \A leak \in BOOLEAN : [record[l] EXCEPT !.op = "failed", !.leaked = leak] \in LeaseRecord
        BY DEF TypeOK, LeaseRecord, Operation
      <3>2. PICK leak \in BOOLEAN :
              /\ record' = [record EXCEPT ![l] = [@ EXCEPT !.op = "failed", !.leaked = leak]]
              /\ leaseFile' = IF leak THEN leaseFile ELSE [leaseFile EXCEPT ![l] = NoTime]
        BY <2>12 DEF AcquireFails
      <3>3. record' \in [Lease -> LeaseRecord]
        BY <3>1, <3>2 DEF TypeOK
      <3>4. leaseFile' \in [Lease -> {NoTime} \cup Time]
        BY <3>2 DEF TypeOK
      <3>5. leases' \in [Pid -> 0..MaxLease]
        BY <2>12, LeasePairs DEF AcquireFails, TypeOK
      <3> QED  BY <2>12, <3>3, <3>4, <3>5 DEF AcquireFails, OnlyRecord, TypeOK
    <2>13. ASSUME NEW l \in Lease, Heartbeat(l) PROVE TypeOK'
      <3> DEFINE r == [record[l] EXCEPT !.timer = NoTime]
      <3>1. r \in LeaseRecord /\ [r EXCEPT !.op = "renew"] \in LeaseRecord
            /\ [r EXCEPT !.restart = TRUE] \in LeaseRecord
        BY DEF TypeOK, LeaseRecord, Operation
      <3>2. record' \in [Lease -> LeaseRecord]
        BY <2>13, <3>1, RetiredType DEF Heartbeat, SetRecord, RetireExpired, TypeOK
      <3>3. leases' \in [Pid -> 0..MaxLease] /\ UNCHANGED generation
        BY <2>13, LeasePairs DEF Heartbeat, SetRecord, RetireExpired, TypeOK
      <3> QED  BY <2>13, <3>2, <3>3 DEF Heartbeat, OnlyRecord, TypeOK, transportVars
    <2>14. ASSUME NEW l \in Lease, RenewPublishes(l) PROVE TypeOK'
      <3>1. [record[l] EXCEPT !.op = "renewed"] \in LeaseRecord
        BY DEF TypeOK, LeaseRecord, Operation
      <3> QED  BY <2>14, <3>1 DEF RenewPublishes, SetRecord, OnlyRecord, TypeOK
    <2>15. ASSUME NEW l \in Lease, RenewOk(l) PROVE TypeOK'
      <3> DEFINE r == [record[l] EXCEPT !.op = "idle", !.expiresAt = now + TTL]
      <3>1. [record[l] EXCEPT !.op = "idle"] \in LeaseRecord
        BY DEF TypeOK, LeaseRecord, Operation
      <3>a. record[l] \in LeaseRecord /\ now \in Time /\ now + TTL \in 0..(MaxTime + TTL)
        BY DEF TypeOK, Time
      <3>2. r \in LeaseRecord /\ now < r.expiresAt /\ now \in Time
        <4>1. r.expiresAt = now + TTL /\ now < now + TTL
          BY <3>a DEF LeaseRecord, Time
        <4>2. r \in LeaseRecord
          BY <3>a DEF LeaseRecord, Operation
        <4> QED  BY <3>a, <4>1, <4>2
      <3>3. record' \in [Lease -> LeaseRecord]
        BY <2>15, <3>1, <3>2, ScheduleType DEF RenewOk, SetRecord, TypeOK
      <3> QED  BY <2>15, <3>3 DEF RenewOk, SetRecord, OnlyRecord, TypeOK, transportVars
    <2>16. ASSUME NEW l \in Lease, RenewFails(l) PROVE TypeOK'
      <3> DEFINE r == [record[l] EXCEPT !.op = "idle"]
      <3>1. r \in LeaseRecord /\ [r EXCEPT !.restart = TRUE] \in LeaseRecord /\ now \in Time
        BY DEF TypeOK, LeaseRecord, Operation
      <3>2. record' \in [Lease -> LeaseRecord]
        BY <2>16, <3>1, ScheduleType, RetiredType DEF RenewFails, SetRecord, RetireExpired, TypeOK
      <3>3. leases' \in [Pid -> 0..MaxLease] /\ UNCHANGED generation
        BY <2>16, LeasePairs DEF RenewFails, SetRecord, RetireExpired, TypeOK
      <3> QED  BY <2>16, <3>2, <3>3 DEF RenewFails, OnlyRecord, TypeOK, transportVars
    <2>17. ASSUME NEW l \in Lease, ReleaseLease(l) PROVE TypeOK'
      <3>1. \A leak \in BOOLEAN : /\ [record[l] EXCEPT !.release = "done", !.leaked = leak] \in LeaseRecord
                                  /\ [record[l] EXCEPT !.release = "done"] \in LeaseRecord
        BY DEF TypeOK, LeaseRecord
      <3>2. record' \in [Lease -> LeaseRecord] /\ UNCHANGED <<leases, generation>>
        <4>1. CASE ~Acquired(l)
          BY <2>17, <3>1, <4>1 DEF ReleaseLease, SetRecord, TypeOK
        <4>2. CASE Acquired(l)
          <5>1. PICK leak \in BOOLEAN :
                  SetRecord(l, [record[l] EXCEPT !.release = "done", !.leaked = leak])
            BY <2>17, <4>2 DEF ReleaseLease
          <5> QED  BY <3>1, <5>1 DEF SetRecord, TypeOK
        <4> QED  BY <4>1, <4>2
      <3>3. leaseFile' \in [Lease -> {NoTime} \cup Time]
        BY <2>17 DEF ReleaseLease, TypeOK
      <3> QED  BY <2>17, <3>2, <3>3 DEF ReleaseLease, OnlyRecord, TypeOK
    <2>18. ASSUME NEW l \in Lease, RestartLease(l) PROVE TypeOK'
      <3>a. record[l] \in LeaseRecord /\ l[1] \in Pid
        BY LeasePairs DEF TypeOK
      <3>1. [record[l] EXCEPT !.restart = FALSE] \in LeaseRecord /\ l[1] \in Pid
        BY <3>a DEF LeaseRecord
      <3>2. record' \in [Lease -> LeaseRecord]
        BY <2>18, <3>1, RecordTypes DEF RestartLease, TypeOK
      <3>3. leases' \in [Pid -> 0..MaxLease] /\ generation' \in [Pid -> 0..MaxLease]
        BY <2>18, <3>1 DEF RestartLease, TypeOK
      <3> QED  BY <2>18, <3>2, <3>3 DEF RestartLease, OnlyRecord, TypeOK, transportVars
    <2>19. ASSUME NEW p \in Pid, TargetPrunes(p) PROVE TypeOK'
      BY <2>19 DEF TargetPrunes, Prune, Stale, TypeOK, managerVars
    <2>20. CASE Tick
      BY <2>20 DEF Tick, TypeOK, managerVars, transportVars, Time
    <2>21. CASE UNCHANGED vars
      BY <2>21 DEF vars, managerVars, transportVars, TypeOK
    <2> QED
      BY <2>1, <2>2, <2>3, <2>4, <2>5, <2>6, <2>7, <2>8, <2>9, <2>10, <2>11, <2>12, <2>13,
         <2>14, <2>15, <2>16, <2>17, <2>18, <2>19, <2>20, <2>21 DEF Next, Settle
  <1> QED  BY <1>1, <1>2, PTL DEF Spec

-----------------------------------------------------------------------------
(* The lease invariant. *)

\* ensureLease for pids that are wanted once the call returns.
LEMMA EnsureLeasesInv ==
    ASSUME TypeOK, LeaseInv, NEW P, P \subseteq Pid, EnsureLeases(P),
           ~disposed', \A p \in P : IsPidDesired(p)',
           \A p \in Pid : IsPidDesired(p) => IsPidDesired(p)',
           leaseFile' = leaseFile
    PROVE  LeaseInv'
  <1> DEFINE Absent == {p \in P : leases[p] = 0}
             Starts(l) == l[1] \in Absent /\ l[2] = generation[l[1]] + 1
  <1> USE LeaseAssumption
  <1>1. /\ \A p \in Absent : generation[p] < MaxLease
        /\ generation' = [p \in Pid |-> IF p \in Absent THEN generation[p] + 1 ELSE generation[p]]
        /\ leases' = [p \in Pid |-> IF p \in Absent THEN generation[p] + 1 ELSE leases[p]]
        /\ record' = [l \in Lease |-> IF Starts(l) THEN NewRecord ELSE record[l]]
    <2>1. \A p \in P : (leases[p] = 0 \/ Retired(<<p, leases[p]>>)) <=> leases[p] = 0
      BY DEF LeaseInv, MappedIsLive, Live
    <2>2. {p \in P : leases[p] = 0 \/ Retired(<<p, leases[p]>>)} = Absent
      BY <2>1
    <2> QED  BY <2>2 DEF EnsureLeases
  <1>2. \A p \in Pid : generation[p] \in 0..MaxLease /\ leases[p] \in 0..MaxLease
    BY DEF TypeOK
  <1>3. \A l \in Lease : l[1] \in Pid /\ l[2] \in 1..MaxLease
    BY LeasePairs
  <1> HIDE DEF Absent, Starts
  <1>4. BornInOrder'
    <2> SUFFICES ASSUME NEW l \in Lease
                 PROVE  /\ record'[l].op # "none" <=> l[2] <= generation'[l[1]]
                        /\ record'[l].op = "none" => record'[l] = UnbornRecord
      BY DEF BornInOrder
    <2>1. CASE Starts(l)
      <3>1. record'[l] = NewRecord /\ generation'[l[1]] = l[2]
        BY <1>1, <1>3, <2>1 DEF Starts
      <3> QED  BY <3>1, <1>3, RecordTypes
    <2>2. CASE ~Starts(l)
      <3>1. record'[l] = record[l]
        BY <1>1, <2>2
      <3>2. l[2] <= generation'[l[1]] <=> l[2] <= generation[l[1]]
        BY <1>1, <1>2, <1>3, <2>2 DEF Starts
      <3> QED  BY <3>1, <3>2 DEF LeaseInv, BornInOrder
    <2> QED  BY <2>1, <2>2
  <1>5. MappedIsLive'
    <2> SUFFICES ASSUME NEW p \in Pid, leases'[p] # 0
                 PROVE  leases'[p] = generation'[p] /\ Live(<<p, leases[p]>>)'
      BY DEF MappedIsLive
    <2>1. CASE p \in Absent
      <3>1. generation[p] + 1 \in 1..MaxLease /\ leases'[p] = generation[p] + 1
            /\ generation'[p] = generation[p] + 1
        BY <1>1, <1>2, <2>1
      <3>2. <<p, generation[p] + 1>> \in Lease /\ Starts(<<p, generation[p] + 1>>)
        BY <3>1, <2>1, LeasePairs DEF Starts
      <3>3. record'[<<p, generation[p] + 1>>] = NewRecord
        BY <1>1, <3>2
      <3> QED  BY <3>1, <3>3, RecordTypes DEF Live, Retired
    <2>2. CASE p \notin Absent
      <3>1. leases'[p] = leases[p] /\ generation'[p] = generation[p] /\ leases[p] # 0
        BY <1>1, <2>2
      <3>2. <<p, leases[p]>> \in Lease /\ ~Starts(<<p, leases[p]>>)
        BY <3>1, <1>2, <2>2, LeasePairs DEF Starts
      <3>3. record'[<<p, leases[p]>>] = record[<<p, leases[p]>>]
        BY <1>1, <3>2
      <3>4. leases[p] = generation[p] /\ Live(<<p, leases[p]>>)
        BY <3>1 DEF LeaseInv, MappedIsLive
      <3> QED  BY <3>1, <3>3, <3>4 DEF Live, Retired
    <2> QED  BY <2>1, <2>2
  <1>6. LiveIsMapped'
    <2> SUFFICES ASSUME NEW l \in Lease, Live(l)'
                 PROVE  leases'[l[1]] = l[2] /\ IsPidDesired(l[1])'
      BY DEF LiveIsMapped
    <2>1. CASE Starts(l)
      BY <1>1, <1>3, <2>1 DEF Starts, Absent
    <2>2. CASE ~Starts(l)
      <3>1. record'[l] = record[l]
        BY <1>1, <2>2
      <3>2. Live(l)
        BY <3>1 DEF Live, Retired
      <3>3. leases[l[1]] = l[2] /\ IsPidDesired(l[1])
        BY <3>2 DEF LeaseInv, LiveIsMapped
      <3>4. l[1] \notin Absent
        BY <3>3, <1>3 DEF Absent
      <3> QED  BY <1>1, <1>3, <3>3, <3>4
    <2> QED  BY <2>1, <2>2
  <1>7. RecordShape' /\ ReleasedLeaseLeavesNoFile'
    <2> SUFFICES ASSUME NEW l \in Lease
                 PROVE  /\ Shape(record'[l])
                        /\ (record'[l].release = "done" \/ record'[l].op = "failed")
                              /\ ~record'[l].leaked => leaseFile'[l] = NoTime
      BY DEF RecordShape, ReleasedLeaseLeavesNoFile
    <2>1. CASE Starts(l)
      BY <1>1, <2>1, RecordTypes DEF Shape
    <2>2. CASE ~Starts(l)
      BY <1>1, <2>2 DEF LeaseInv, RecordShape, ReleasedLeaseLeavesNoFile
    <2> QED  BY <2>1, <2>2
  <1> QED  BY <1>4, <1>5, <1>6, <1>7 DEF LeaseInv

\* A step that leaves the records and the maps of leases alone.
LEMMA SameLeasesInv ==
    ASSUME TypeOK, LeaseInv, UNCHANGED <<record, leases, generation, disposed>>,
           \A l \in Lease : leaseFile'[l] \in {leaseFile[l], NoTime},
           \A p \in Pid : IsPidDesired(p) => IsPidDesired(p)',
           disposed => owners' = owners
    PROVE  LeaseInv'
  <1>1. BornInOrder' /\ RecordShape'
    BY DEF LeaseInv, BornInOrder, RecordShape
  <1>2. MappedIsLive'
    BY DEF LeaseInv, MappedIsLive, Live, Retired
  <1>3. LiveIsMapped'
    BY LeasePairs DEF LeaseInv, LiveIsMapped, Live, Retired
  <1>4. ReleasedLeaseLeavesNoFile'
    BY DEF LeaseInv, ReleasedLeaseLeavesNoFile
  <1> QED  BY <1>1, <1>2, <1>3, <1>4 DEF LeaseInv

\* retireLease of leases that are in the map.
LEMMA RetireLeasesInv ==
    ASSUME TypeOK, LeaseInv, NEW L, RetireLeases(L), leaseFile' = leaseFile,
           \A l \in L \cap Lease : leases[l[1]] = l[2],
           \A p \in Pid : leases[p] # 0 /\ <<p, leases[p]>> \notin L => IsPidDesired(p)',
           disposed' => \A p \in Pid : owners'[p] = {} /\ leases'[p] = 0
    PROVE  LeaseInv'
  <1> USE LeaseAssumption
  <1>1. /\ record' = [l \in Lease |-> IF l \in L THEN RetiredRecord(record[l]) ELSE record[l]]
        /\ leases' = [p \in Pid |-> IF <<p, leases[p]>> \in L THEN 0 ELSE leases[p]]
        /\ generation' = generation
    BY DEF RetireLeases
  <1>2. \A p \in Pid : leases[p] # 0 => leases[p] \in 1..MaxLease /\ <<p, leases[p]>> \in Lease
    <2>1. \A p \in Pid : leases[p] \in 0..MaxLease
      BY DEF TypeOK
    <2>2. \A p \in Pid : leases[p] # 0 => leases[p] \in 1..MaxLease
      BY <2>1, Z3
    <2> QED  BY <2>2, LeasePairs
  <1>3. \A l \in L \cap Lease : /\ Live(l)
                              /\ record'[l].release = "waiting" /\ ~record'[l].active
                              /\ record'[l].timer = NoTime
                              /\ record'[l].op = record[l].op
                              /\ record'[l].restart = record[l].restart
    <2> SUFFICES ASSUME NEW l \in L \cap Lease
                 PROVE  /\ Live(l)
                        /\ record'[l].release = "waiting" /\ ~record'[l].active
                        /\ record'[l].timer = NoTime
                        /\ record'[l].op = record[l].op
                        /\ record'[l].restart = record[l].restart
      OBVIOUS
    <2>1. l[1] \in Pid /\ l[2] # 0 /\ l = <<l[1], leases[l[1]]>>
      BY LeasePairs
    <2>2. Live(l)
      BY <2>1 DEF LeaseInv, MappedIsLive
    <2>3. record[l].release = "none" /\ record'[l] = RetiredRecord(record[l])
      BY <1>1, <2>2 DEF Live, Retired
    <2>4. record[l] \in LeaseRecord
      BY DEF TypeOK
    <2> QED  BY <2>2, <2>3, <2>4 DEF RetiredRecord, LeaseRecord
  <1>4. \A l \in Lease \ L : record'[l] = record[l]
    BY <1>1
  <1>5. BornInOrder'
    <2> SUFFICES ASSUME NEW l \in Lease
                 PROVE  /\ record'[l].op # "none" <=> l[2] <= generation'[l[1]]
                        /\ record'[l].op = "none" => record'[l] = UnbornRecord
      BY DEF BornInOrder
    <2>1. CASE l \in L
      BY <1>1, <1>3, <2>1 DEF Live, LeaseInv, BornInOrder
    <2>2. CASE l \notin L
      BY <1>1, <1>4, <2>2 DEF LeaseInv, BornInOrder
    <2> QED  BY <2>1, <2>2
  <1>6. MappedIsLive'
    <2> SUFFICES ASSUME NEW p \in Pid, leases'[p] # 0
                 PROVE  leases'[p] = generation'[p] /\ Live(<<p, leases[p]>>)'
      BY DEF MappedIsLive
    <2>1. leases'[p] = leases[p] /\ <<p, leases[p]>> \in Lease \ L /\ generation'[p] = generation[p]
      BY <1>1, <1>2
    <2>2. leases[p] = generation[p] /\ Live(<<p, leases[p]>>)
      BY <2>1 DEF LeaseInv, MappedIsLive
    <2> QED  BY <1>4, <2>1, <2>2 DEF Live, Retired
  <1>7. LiveIsMapped'
    <2> SUFFICES ASSUME NEW l \in Lease, Live(l)'
                 PROVE  leases'[l[1]] = l[2] /\ IsPidDesired(l[1])'
      BY DEF LiveIsMapped
    <2>1. l \notin L
      BY <1>3 DEF Live, Retired
    <2>2. Live(l)
      BY <1>4, <2>1 DEF Live, Retired
    <2>3. l[1] \in Pid /\ leases[l[1]] = l[2] /\ l[2] # 0 /\ <<l[1], leases[l[1]]>> \notin L
      BY <2>1, <2>2, LeasePairs DEF LeaseInv, LiveIsMapped
    <2> QED  BY <1>1, <2>3
  <1>8. RecordShape'
    <2> SUFFICES ASSUME NEW l \in Lease PROVE Shape(record'[l])
      BY DEF RecordShape
    <2>1. CASE l \in L
      BY <1>3, <2>1 DEF Shape
    <2>2. CASE l \notin L
      BY <1>4, <2>2 DEF LeaseInv, RecordShape
    <2> QED  BY <2>1, <2>2
  <1>9. ReleasedLeaseLeavesNoFile'
    <2> SUFFICES ASSUME NEW l \in Lease,
                        record'[l].release = "done" \/ record'[l].op = "failed",
                        ~record'[l].leaked
                 PROVE  leaseFile'[l] = NoTime
      BY DEF ReleasedLeaseLeavesNoFile
    <2>1. l \notin L
      BY <1>3 DEF Live
    <2> QED  BY <1>4, <2>1 DEF LeaseInv, ReleasedLeaseLeavesNoFile
  <1> QED  BY <1>5, <1>6, <1>7, <1>8, <1>9 DEF LeaseInv

\* A step of one lease that has begun: its record changes to r, it stays as live
\* as it was, or it dies and leaves the map; its file may change, those of others
\* only go.
LEMMA OneLeaseInv ==
    ASSUME TypeOK, LeaseInv, NEW l \in Lease, NEW r,
           record' = [record EXCEPT ![l] = r],
           UNCHANGED <<generation, owners, enabled, disposed>>,
           record[l].op # "none", r.op # "none", Shape(r),
           \A k \in Lease \ {l} : leaseFile'[k] \in {leaseFile[k], NoTime},
           (r.release = "done" \/ r.op = "failed") /\ ~r.leaked => leaseFile'[l] = NoTime,
           \/ /\ leases' = leases
              /\ (r.op # "failed" /\ r.release = "none") <=> Live(l)
           \/ /\ leases' = [leases EXCEPT ![l[1]] = IF @ = l[2] THEN 0 ELSE @]
              /\ r.op = "failed" \/ r.release # "none"
    PROVE  LeaseInv'
  <1>1. record'[l] = r /\ \A k \in Lease \ {l} : record'[k] = record[k]
    BY DEF TypeOK
  <1>2. l[1] \in Pid /\ l = <<l[1], l[2]>>
    BY LeasePairs
  <1>3. \A p \in Pid : leases'[p] # 0 => leases'[p] = leases[p]
    BY <1>2 DEF TypeOK
  <1>4. \A k \in Lease \ {l} : leases[k[1]] = k[2] => leases'[k[1]] = k[2]
    <2> SUFFICES ASSUME NEW k \in Lease \ {l}, leases[k[1]] = k[2] PROVE leases'[k[1]] = k[2]
      OBVIOUS
    <2>1. k[1] \in Pid /\ k = <<k[1], k[2]>>
      BY LeasePairs
    <2>2. k[1] = l[1] => k[2] # l[2]
      BY <1>2, <2>1
    <2> QED  BY <2>1, <2>2 DEF TypeOK
  <1>5. BornInOrder' /\ RecordShape'
    BY <1>1 DEF LeaseInv, BornInOrder, RecordShape
  <1>6. MappedIsLive'
    <2>1. \A p \in Pid : disposed => leases'[p] = 0 /\ owners'[p] = {}
      BY <1>3 DEF LeaseInv, MappedIsLive
    <2> SUFFICES ASSUME NEW p \in Pid, leases'[p] # 0
                 PROVE  leases'[p] = generation'[p] /\ Live(<<p, leases[p]>>)'
      BY <2>1 DEF MappedIsLive
    <2>2. leases'[p] = leases[p] /\ leases[p] = generation[p] /\ Live(<<p, leases[p]>>)
      BY <1>3 DEF LeaseInv, MappedIsLive
    <2>3. CASE <<p, leases[p]>> = l
      <3>1. leases'[l[1]] # 0 /\ leases[l[1]] = l[2]
        BY <1>2, <2>2, <2>3
      <3>2. leases' = leases /\ r.op # "failed" /\ r.release = "none"
        BY <1>2, <2>2, <2>3, <3>1 DEF TypeOK
      <3> QED  BY <1>1, <2>2, <2>3, <3>2 DEF Live, Retired
    <2>4. CASE <<p, leases[p]>> # l
      <3>1. leases[p] \in 0..MaxLease /\ leases[p] # 0
        BY <2>2 DEF TypeOK
      <3>2. leases[p] \in 1..MaxLease
        BY <3>1, LeaseAssumption, Z3
      <3>3. <<p, leases[p]>> \in Lease
        BY <3>2, LeasePairs
      <3> QED  BY <1>1, <2>2, <2>4, <3>3 DEF Live, Retired
    <2> QED  BY <2>3, <2>4
  <1>7. LiveIsMapped'
    <2> SUFFICES ASSUME NEW k \in Lease, Live(k)'
                 PROVE  leases'[k[1]] = k[2] /\ IsPidDesired(k[1])'
      BY DEF LiveIsMapped
    <2>1. CASE k = l
      <3>1. leases' = leases /\ Live(l)
        BY <1>1, <2>1 DEF Live, Retired
      <3> QED  BY <2>1, <3>1 DEF LeaseInv, LiveIsMapped, IsPidDesired
    <2>2. CASE k # l
      <3>1. Live(k)
        BY <1>1, <2>2 DEF Live, Retired
      <3> QED  BY <1>4, <2>2, <3>1 DEF LeaseInv, LiveIsMapped, IsPidDesired
    <2> QED  BY <2>1, <2>2
  <1>8. ReleasedLeaseLeavesNoFile'
    BY <1>1 DEF LeaseInv, ReleasedLeaseLeavesNoFile
  <1> QED  BY <1>5, <1>6, <1>7, <1>8 DEF LeaseInv

\* Under the invariant the test of the code and liveness of a record agree.
LEMMA LiveIsDesired ==
    ASSUME TypeOK, LeaseInv, NEW l \in Lease
    PROVE  /\ Live(l) <=> IsRecordDesired(l)
           /\ l[1] \in Pid /\ l[2] # 0 /\ l = <<l[1], l[2]>>
  <1>1. l[1] \in Pid /\ l[2] # 0 /\ l = <<l[1], l[2]>>
    BY LeasePairs
  <1>2. Live(l) => leases[l[1]] = l[2] /\ IsPidDesired(l[1])
    BY DEF LeaseInv, LiveIsMapped
  <1>3. leases[l[1]] = l[2] => generation[l[1]] = l[2] /\ Live(l)
    BY <1>1 DEF LeaseInv, MappedIsLive
  <1> QED  BY <1>1, <1>2, <1>3 DEF IsRecordDesired, Live

\* restartExpiredLease after its await: the old record is done with, and the
\* pid may get a new one.
LEMMA RestartInv ==
    ASSUME TypeOK, LeaseInv, NEW l \in Lease, RestartLease(l)
    PROVE  LeaseInv'
  <1> USE LeaseAssumption
  <1> DEFINE p == l[1]
             r == [record[l] EXCEPT !.restart = FALSE]
             g == generation[p] + 1
             again == IsPidDesired(p) /\ leases[p] = 0
             new == <<p, g>>
  <1>1. /\ p \in Pid /\ l = <<p, l[2]>> /\ l[2] \in 1..MaxLease
        /\ record[l] \in LeaseRecord /\ generation[p] \in 0..MaxLease
    BY LeasePairs DEF TypeOK
  <1>2. /\ r.op = record[l].op /\ r.active = record[l].active /\ r.release = record[l].release
        /\ r.leaked = record[l].leaked /\ r.timer = record[l].timer /\ ~r.restart
    BY <1>1 DEF LeaseRecord
  <1>3. record[l].release = "done" /\ record[l].op \in {"idle", "failed"} /\ ~Live(l)
    BY DEF RestartLease, LeaseInv, RecordShape, Shape, Live, Retired
  <1>4. Shape(r)
    BY <1>2 DEF LeaseInv, RecordShape, Shape
  <1>5. ~r.leaked => leaseFile[l] = NoTime
    BY <1>2, <1>3 DEF LeaseInv, ReleasedLeaseLeavesNoFile
  <1>6. UNCHANGED <<enabled, disposed, owners, leaseFile>>
    BY DEF RestartLease, OnlyRecord, transportVars
  <1>7. CASE ~again
    <2>1. record' = [record EXCEPT ![l] = r] /\ UNCHANGED <<leases, generation>>
      BY <1>7 DEF RestartLease
    <2> HIDE DEF r
    <2> QED  BY OneLeaseInv, <1>2, <1>3, <1>4, <1>5, <1>6, <2>1
  <1>8. CASE again
    <2>1. /\ record' = [[record EXCEPT ![l] = r] EXCEPT ![new] = NewRecord]
          /\ generation' = [generation EXCEPT ![p] = g]
          /\ leases' = [leases EXCEPT ![p] = g]
          /\ generation[p] < MaxLease
      BY <1>8 DEF RestartLease
    <2>2. g \in 1..MaxLease /\ new \in Lease
      BY <1>1, <2>1, LeasePairs
    <2>3. l[2] <= generation[p]
      BY <1>3 DEF LeaseInv, BornInOrder
    <2>4. new # l
      BY <1>1, <2>3
    <2> HIDE DEF r, g
    <2>5. /\ record'[new] = NewRecord /\ record'[l] = r
          /\ \A k \in Lease \ {l, new} : record'[k] = record[k]
      BY <2>1, <2>2, <2>4 DEF TypeOK
    <2>6. \A k \in Lease : /\ k[1] \in Pid /\ k = <<k[1], k[2]>> /\ k[2] \in 1..MaxLease
                           /\ k # new /\ k[1] = p => k[2] # g
      BY LeasePairs
    <2>7. /\ generation'[p] = g /\ leases'[p] = g
          /\ \A q \in Pid \ {p} : generation'[q] = generation[q] /\ leases'[q] = leases[q]
      BY <1>1, <2>1 DEF TypeOK
    <2>8. \A k \in Lease \ {new} : Live(k)' => Live(k) /\ k # l
      BY <1>2, <1>3, <2>5 DEF Live, Retired
    <2>9. \A k \in Lease : Live(k) => k[1] # p
      <3> SUFFICES ASSUME NEW k \in Lease, Live(k), k[1] = p PROVE FALSE
        OBVIOUS
      <3>1. leases[p] = k[2]
        BY DEF LeaseInv, LiveIsMapped
      <3> QED  BY <1>8, <2>6, <3>1
    <2>10. BornInOrder'
      <3> SUFFICES ASSUME NEW k \in Lease
                   PROVE  /\ record'[k].op # "none" <=> k[2] <= generation'[k[1]]
                          /\ record'[k].op = "none" => record'[k] = UnbornRecord
        BY DEF BornInOrder
      <3>1. /\ record[k].op # "none" <=> k[2] <= generation[k[1]]
            /\ record[k].op = "none" => record[k] = UnbornRecord
        BY DEF LeaseInv, BornInOrder
      <3>2. CASE k = new
        BY <2>5, <2>7, <2>2, <3>2, RecordTypes
      <3>3. CASE k # new
        <4>1. k[2] <= generation'[k[1]] <=> k[2] <= generation[k[1]]
          BY <1>1, <2>6, <2>7, <3>3 DEF g
        <4>2. k # l => record'[k] = record[k]
          BY <2>5, <3>3
        <4> QED  BY <1>2, <1>3, <2>5, <3>1, <4>1, <4>2
      <3> QED  BY <3>2, <3>3
    <2>11. MappedIsLive'
      <3> SUFFICES ASSUME NEW q \in Pid
                   PROVE  /\ leases'[q] # 0 => leases'[q] = generation'[q] /\ Live(<<q, leases[q]>>)'
                          /\ ~disposed'
        BY DEF MappedIsLive
      <3>1. ~disposed'
        BY <1>6, <1>8 DEF IsPidDesired
      <3>2. CASE q = p
        BY <2>5, <2>7, <3>1, <3>2, RecordTypes DEF Live, Retired
      <3>3. ASSUME q # p, leases'[q] # 0
            PROVE  leases'[q] = generation'[q] /\ Live(<<q, leases[q]>>)'
        <4>1. leases[q] = generation[q] /\ Live(<<q, leases[q]>>) /\ leases'[q] = leases[q]
          BY <2>7, <3>3 DEF LeaseInv, MappedIsLive
        <4>2. leases[q] \in 1..MaxLease
          <5>1. leases[q] \in 0..MaxLease /\ leases[q] # 0
            BY <3>3, <4>1 DEF TypeOK
          <5> QED  BY <5>1, Z3
        <4>3. <<q, leases[q]>> \in Lease /\ <<q, leases[q]>> # new
          BY <3>3, <4>2, LeasePairs
        <4>4. <<q, leases[q]>> # l
          BY <1>1, <3>3
        <4> QED  BY <2>5, <2>7, <3>3, <4>1, <4>3, <4>4 DEF Live, Retired
      <3> QED  BY <3>1, <3>2, <3>3
    <2>12. LiveIsMapped'
      <3> SUFFICES ASSUME NEW k \in Lease, Live(k)'
                   PROVE  leases'[k[1]] = k[2] /\ IsPidDesired(k[1])'
        BY DEF LiveIsMapped
      <3>1. CASE k = new
        BY <1>6, <1>8, <2>7, <3>1 DEF IsPidDesired
      <3>2. CASE k # new
        <4>1. Live(k) /\ k[1] \in Pid \ {p}
          BY <2>6, <2>8, <2>9, <3>2
        <4> QED  BY <1>6, <2>7, <4>1 DEF LeaseInv, LiveIsMapped, IsPidDesired
      <3> QED  BY <3>1, <3>2
    <2>13. RecordShape'
      <3>1. Shape(NewRecord)
        BY RecordTypes DEF Shape
      <3> QED  BY <1>4, <2>5, <3>1 DEF LeaseInv, RecordShape
    <2>14. ReleasedLeaseLeavesNoFile'
      <3> SUFFICES ASSUME NEW k \in Lease,
                          record'[k].release = "done" \/ record'[k].op = "failed",
                          ~record'[k].leaked
                   PROVE  leaseFile[k] = NoTime
        BY <1>6 DEF ReleasedLeaseLeavesNoFile
      <3>1. k # new
        BY <2>5, RecordTypes
      <3> QED  BY <1>5, <2>5, <3>1 DEF LeaseInv, ReleasedLeaseLeavesNoFile
    <2> QED  BY <2>10, <2>11, <2>12, <2>13, <2>14 DEF LeaseInv
  <1> QED  BY <1>7, <1>8

\* Every step of the manager, the transport and the clock keeps the invariant.
LEMMA LeaseStep == TypeOK /\ LeaseInv /\ [Next]_vars => LeaseInv'
  <1> SUFFICES ASSUME TypeOK, LeaseInv, [Next]_vars PROVE LeaseInv'
    OBVIOUS
  <1> USE LeaseAssumption
  <1>a. disposed => \A p \in Pid : owners[p] = {} /\ leases[p] = 0
    BY DEF LeaseInv, MappedIsLive
  <1>1. ASSUME NEW s \in Session, NEW p \in Pid, RegisterSession(s, p) PROVE LeaseInv'
    <2>1. /\ ~disposed /\ UNCHANGED <<disposed, enabled, leaseFile>>
          /\ owners' = [owners EXCEPT ![p] = @ \cup {s}]
      BY <1>1 DEF RegisterSession, AttachOwner, transportVars
    <2>2. /\ enabled => IsPidDesired(p)'
          /\ \A q \in Pid : IsPidDesired(q) => IsPidDesired(q)'
      BY <2>1 DEF IsPidDesired, TypeOK
    <2>3. CASE enabled
      <3>1. EnsureLeases({p})
        BY <1>1, <2>3 DEF RegisterSession, EnsureIfEnabled
      <3> QED  BY <2>1, <2>2, <2>3, <3>1, EnsureLeasesInv
    <2>4. CASE ~enabled
      <3>1. UNCHANGED <<record, leases, generation>>
        BY <1>1, <2>4 DEF RegisterSession, EnsureIfEnabled
      <3> QED  BY <2>1, <2>2, <3>1, SameLeasesInv
    <2> QED  BY <2>3, <2>4
  <1>2. ASSUME NEW s \in Session, NEW p \in Pid, DetachOwner(s, p),
               UNCHANGED <<enabled, disposed, leaseFile>>
        PROVE  LeaseInv'
    <2> DEFINE L == {LeaseLeft(s, p)}
    <2>1. RetireLeases(L) /\ owners' = [owners EXCEPT ![p] = @ \ {s}]
      BY <1>2 DEF DetachOwner
    <2>2. \A l \in L \cap Lease : leases[l[1]] = l[2]
      BY LeasePairs DEF LeaseLeft
    <2>3. \A q \in Pid : leases[q] # 0 /\ <<q, leases[q]>> \notin L => IsPidDesired(q)'
      <3> SUFFICES ASSUME NEW q \in Pid, leases[q] # 0, <<q, leases[q]>> \notin L
                   PROVE  IsPidDesired(q)'
        OBVIOUS
      <3>1. Live(<<q, leases[q]>>) /\ <<q, leases[q]>> \in Lease
        <4>1. leases[q] \in 0..MaxLease
          BY DEF TypeOK
        <4>2. leases[q] \in 1..MaxLease
          BY <4>1, Z3
        <4> QED  BY <4>2, LeasePairs DEF LeaseInv, MappedIsLive
      <3>2. IsPidDesired(q)
        BY <3>1 DEF LeaseInv, LiveIsMapped
      <3>3. q = p => ~(owners[p] \subseteq {s})
        BY DEF LeaseLeft
      <3>4. owners'[q] # {}
        BY <2>1, <3>2, <3>3 DEF IsPidDesired, TypeOK
      <3> QED  BY <1>2, <3>2, <3>4 DEF IsPidDesired
    <2>4. disposed' => \A q \in Pid : owners'[q] = {} /\ leases'[q] = 0
      <3>1. \A q \in Pid : leases'[q] = leases[q] \/ leases'[q] = 0
        BY <2>1 DEF RetireLeases
      <3>2. \A q \in Pid : owners[q] = {} => owners'[q] = {}
        BY <2>1 DEF TypeOK
      <3> QED  BY <1>2, <1>a, <3>1, <3>2
    <2> HIDE DEF L
    <2> QED  BY <1>2, <2>1, <2>2, <2>3, <2>4, RetireLeasesInv
  <1>3. ASSUME NEW s \in Session, NEW p \in Pid, MoveSession(s, p) PROVE LeaseInv'
    <2>1. sessions[s] \in Pid /\ DetachOwner(s, sessions[s])
      BY <1>3 DEF MoveSession, TypeOK
    <2> QED  BY <1>2, <1>3, <2>1 DEF MoveSession, transportVars
  <1>4. ASSUME NEW m \in moves, FinishMove(m) PROVE LeaseInv'
    <2>1. m.session \in Session /\ m.pid \in Pid
      BY DEF TypeOK, Move
    <2>2. UNCHANGED <<disposed, enabled, leaseFile>>
      BY <1>4 DEF FinishMove, transportVars
    <2>3. CASE MoveIsCurrent(m)
      <3>1. /\ ~disposed /\ EnsureIfEnabled(m.pid)
            /\ owners' = [owners EXCEPT ![m.pid] = @ \cup {m.session}]
        BY <1>4, <2>3 DEF FinishMove, MoveIsCurrent, AttachOwner
      <3>2. /\ enabled => IsPidDesired(m.pid)'
            /\ \A q \in Pid : IsPidDesired(q) => IsPidDesired(q)'
        BY <2>1, <2>2, <3>1 DEF IsPidDesired, TypeOK
      <3>3. CASE enabled
        <4>1. EnsureLeases({m.pid})
          BY <3>1, <3>3 DEF EnsureIfEnabled
        <4> QED  BY <2>1, <2>2, <3>1, <3>2, <3>3, <4>1, EnsureLeasesInv
      <3>4. CASE ~enabled
        <4>1. UNCHANGED <<record, leases, generation>>
          BY <3>1, <3>4 DEF EnsureIfEnabled
        <4> QED  BY <2>2, <3>1, <3>2, <4>1, SameLeasesInv
      <3> QED  BY <3>3, <3>4
    <2>4. CASE ~MoveIsCurrent(m)
      <3>1. UNCHANGED <<record, leases, generation, owners>>
        BY <1>4, <2>4 DEF FinishMove
      <3> QED  BY <2>2, <3>1, SameLeasesInv DEF IsPidDesired
    <2> QED  BY <2>3, <2>4
  <1>5. ASSUME NEW s \in Session, UnregisterSession(s) PROVE LeaseInv'
    <2>1. UNCHANGED <<enabled, disposed, leaseFile>>
      BY <1>5 DEF UnregisterSession, transportVars
    <2>2. CASE sessions[s] = None
      <3>1. UNCHANGED <<record, leases, generation, owners>>
        BY <1>5, <2>2 DEF UnregisterSession
      <3> QED  BY <2>1, <3>1, SameLeasesInv DEF IsPidDesired
    <2>3. CASE sessions[s] # None
      <3>1. sessions[s] \in Pid /\ DetachOwner(s, sessions[s])
        BY <1>5, <2>3 DEF UnregisterSession, TypeOK
      <3> QED  BY <1>2, <2>1, <3>1
    <2> QED  BY <2>2, <2>3
  <1>6. CASE Reconcile \/ Enable
    <2> DEFINE P == {p \in Pid : owners[p] # {}}
    <2>1. /\ ~disposed /\ ~disposed' /\ enabled' /\ UNCHANGED <<owners, leaseFile>>
          /\ EnsureLeases(P)
      BY <1>6 DEF Reconcile, Enable, transportVars, TypeOK
    <2>2. /\ \A p \in P : IsPidDesired(p)'
          /\ \A p \in Pid : IsPidDesired(p) => IsPidDesired(p)'
      BY <2>1 DEF IsPidDesired
    <2>3. P \subseteq Pid
      OBVIOUS
    <2> HIDE DEF P
    <2> QED  BY <2>1, <2>2, <2>3, EnsureLeasesInv
  <1>7. CASE Disable \/ Dispose
    <2>1. RetireLeases(MappedLeases) /\ leaseFile' = leaseFile
      BY <1>7 DEF Disable, Dispose, transportVars
    <2>2. \A p \in Pid : leases[p] # 0 => <<p, leases[p]>> \in MappedLeases
      <3> SUFFICES ASSUME NEW p \in Pid, leases[p] # 0 PROVE <<p, leases[p]>> \in MappedLeases
        OBVIOUS
      <3>1. leases[p] \in 0..MaxLease
        BY DEF TypeOK
      <3>2. leases[p] \in 1..MaxLease
        BY <3>1, Z3
      <3> QED  BY <3>2, LeasePairs DEF MappedLeases
    <2>3. \A l \in MappedLeases \cap Lease : leases[l[1]] = l[2]
      BY DEF MappedLeases
    <2>4. disposed' => \A p \in Pid : owners'[p] = {} /\ leases'[p] = 0
      <3>1. \A p \in Pid : leases'[p] = 0
        BY <2>1, <2>2 DEF RetireLeases
      <3>2. disposed' => \A p \in Pid : owners'[p] = {}
        BY <1>7 DEF Disable, Dispose
      <3> QED  BY <3>1, <3>2
    <2> QED  BY <2>1, <2>2, <2>3, <2>4, RetireLeasesInv
  <1>8. ASSUME NEW l \in Lease
        PROVE  /\ record[l] \in LeaseRecord /\ Shape(record[l])
               /\ (record[l].release = "done" \/ record[l].op = "failed") /\ ~record[l].leaked
                     => leaseFile[l] = NoTime
               /\ Live(l) <=> record[l].op \notin {"none", "failed"} /\ record[l].release = "none"
               /\ Live(l) <=> IsRecordDesired(l)
               /\ l[1] \in Pid /\ l[2] # 0
    BY LiveIsDesired
       DEF TypeOK, LeaseInv, RecordShape, ReleasedLeaseLeavesNoFile, Live, Retired
  <1>9. ASSUME NEW l \in Lease, PublishLease(l) PROVE LeaseInv'
    <2> DEFINE r == [record[l] EXCEPT !.op = "published"]
    <2>1. /\ record' = [record EXCEPT ![l] = r] /\ record[l].op = "acquire"
          /\ leaseFile' = [leaseFile EXCEPT ![l] = now]
          /\ UNCHANGED <<leases, generation, owners, enabled, disposed>>
      BY <1>9 DEF PublishLease, SetRecord, OnlyRecord
    <2>2. /\ r.op = "published" /\ r.active = record[l].active /\ r.release = record[l].release
          /\ r.timer = record[l].timer /\ r.restart = record[l].restart
      BY <1>8 DEF LeaseRecord
    <2> HIDE DEF r
    <2>3. Shape(r) /\ r.release # "done" /\ (Live(l) <=> r.release = "none")
      BY <1>8, <2>1, <2>2 DEF Shape
    <2>4. \A k \in Lease \ {l} : leaseFile'[k] = leaseFile[k]
      BY <2>1 DEF TypeOK
    <2> QED  BY <2>1, <2>2, <2>3, <2>4, OneLeaseInv
  <1>10. ASSUME NEW l \in Lease, TargetAccepts(l) PROVE LeaseInv'
    <2>1. /\ UNCHANGED <<leases, generation, owners, enabled, disposed>>
          /\ \A k \in Lease : leaseFile'[k] \in {leaseFile[k], NoTime}
      BY <1>10 DEF TargetAccepts, SetRecord, OnlyRecord, Prune
    <2>2. CASE record[l].op = "published"
      <3> DEFINE r == [record[l] EXCEPT !.op = "acked"]
      <3>1. record' = [record EXCEPT ![l] = r]
        BY <1>10, <2>2 DEF TargetAccepts, SetRecord
      <3>2. /\ r.op = "acked" /\ r.active = record[l].active /\ r.release = record[l].release
            /\ r.timer = record[l].timer /\ r.restart = record[l].restart
        BY <1>8 DEF LeaseRecord
      <3> HIDE DEF r
      <3>3. Shape(r) /\ r.release # "done" /\ (Live(l) <=> r.release = "none")
        BY <1>8, <2>2, <3>2 DEF Shape
      <3> QED  BY <2>1, <2>2, <3>1, <3>2, <3>3, OneLeaseInv
    <2>3. CASE record[l].op # "published"
      <3>1. record' = record
        BY <1>10, <2>3 DEF TargetAccepts
      <3> QED  BY <2>1, <3>1, SameLeasesInv DEF IsPidDesired
    <2> QED  BY <2>2, <2>3
  <1>11. ASSUME NEW l \in Lease, AcquireOk(l) PROVE LeaseInv'
    <2>1. /\ record[l].op = "acked"
          /\ UNCHANGED <<generation, owners, enabled, disposed, leaseFile>>
      BY <1>11 DEF AcquireOk, SetRecord, OnlyRecord, transportVars
    <2>2. CASE IsRecordDesired(l)
      <3> DEFINE q == [record[l] EXCEPT !.op = "idle", !.active = TRUE, !.expiresAt = now + TTL]
                 r == ScheduleHeartbeat(q)
      <3>1. record' = [record EXCEPT ![l] = r] /\ leases' = leases
        BY <1>11, <2>2 DEF AcquireOk, SetRecord
      <3>2. /\ q.op = "idle" /\ q.active /\ q.release = record[l].release
            /\ q.restart = record[l].restart /\ q.expiresAt = now + TTL
            /\ q \in LeaseRecord
        <4>1. now \in Time /\ now + TTL \in 0..(MaxTime + TTL)
          BY DEF TypeOK, Time
        <4> QED  BY <1>8, <4>1 DEF LeaseRecord, Operation
      <3> HIDE DEF q
      <3>3. HeartbeatDue(q.expiresAt) # NoTime
        <4>1. now \in Time /\ now < q.expiresAt /\ q.expiresAt \in 0..(MaxTime + TTL)
          BY <3>2 DEF TypeOK, Time
        <4> QED  BY <4>1, HeartbeatDueType DEF NoTime
      <3>4. /\ r.op = "idle" /\ r.active /\ r.release = record[l].release
            /\ r.restart = record[l].restart /\ r.timer # NoTime
        BY <3>2, <3>3 DEF ScheduleHeartbeat, LeaseRecord
      <3> HIDE DEF r
      <3>5. Shape(r) /\ r.release = "none" /\ Live(l)
        BY <1>8, <2>2, <3>4 DEF Shape
      <3>6. \A k \in Lease \ {l} : leaseFile'[k] = leaseFile[k]
        BY <2>1
      <3> QED  BY <2>1, <3>1, <3>4, <3>5, <3>6, OneLeaseInv
    <2>3. CASE ~IsRecordDesired(l)
      <3> DEFINE q == [record[l] EXCEPT !.op = "idle"]
                 r == RetiredRecord(q)
      <3>1. /\ record' = [record EXCEPT ![l] = r]
            /\ leases' = [leases EXCEPT ![l[1]] = IF @ = l[2] THEN 0 ELSE @]
        BY <1>11, <2>3 DEF AcquireOk, TypeOK
      <3>2. record[l].release = "waiting"
        BY <1>8, <2>1, <2>3 DEF Shape, LeaseRecord
      <3>3. /\ r.op = "idle" /\ r.active = record[l].active /\ r.release = "waiting"
            /\ r.restart = record[l].restart /\ r.timer = record[l].timer
        BY <1>8, <3>2 DEF RetiredRecord, LeaseRecord
      <3> HIDE DEF r
      <3>4. Shape(r)
        BY <1>8, <2>1, <3>2, <3>3 DEF Shape
      <3>5. \A k \in Lease \ {l} : leaseFile'[k] = leaseFile[k]
        BY <2>1
      <3> QED  BY <2>1, <3>1, <3>3, <3>4, <3>5, OneLeaseInv
    <2> QED  BY <2>2, <2>3
  <1>12. ASSUME NEW l \in Lease, AcquireFails(l) PROVE LeaseInv'
    <2>1. PICK leak \in BOOLEAN :
            /\ record' = [record EXCEPT ![l] = [@ EXCEPT !.op = "failed", !.leaked = leak]]
            /\ leaseFile' = IF leak THEN leaseFile ELSE [leaseFile EXCEPT ![l] = NoTime]
      BY <1>12 DEF AcquireFails
    <2> DEFINE r == [record[l] EXCEPT !.op = "failed", !.leaked = leak]
    <2>2. /\ record' = [record EXCEPT ![l] = r]
          /\ leases' = [leases EXCEPT ![l[1]] = IF @ = l[2] THEN 0 ELSE @]
          /\ record[l].op \in {"acquire", "published", "acked"}
          /\ UNCHANGED <<generation, owners, enabled, disposed>>
      BY <1>12, <2>1 DEF AcquireFails, OnlyRecord, TypeOK
    <2>3. /\ r.op = "failed" /\ r.active = record[l].active /\ r.release = record[l].release
          /\ r.timer = record[l].timer /\ r.restart = record[l].restart /\ r.leaked = leak
      BY <1>8 DEF LeaseRecord
    <2> HIDE DEF r
    <2>4. Shape(r)
      BY <1>8, <2>2, <2>3 DEF Shape
    <2>5. /\ ~leak => leaseFile'[l] = NoTime
          /\ \A k \in Lease \ {l} : leaseFile'[k] = leaseFile[k]
      BY <2>1 DEF TypeOK
    <2> QED  BY <2>2, <2>3, <2>4, <2>5, OneLeaseInv
  \* restartExpiredLease retires the record q of a lease that has become idle.
  <1>13. ASSUME NEW l \in Lease, NEW q, RetireExpired(l, q), IsRecordDesired(l),
                q \in LeaseRecord, q.op = "idle", q.release = "none",
                UNCHANGED <<owners, enabled, disposed, leaseFile>>
         PROVE  LeaseInv'
    <2> DEFINE r == RetiredRecord([q EXCEPT !.restart = TRUE])
    <2>1. /\ r.op = "idle" /\ r.release = "waiting" /\ ~r.active /\ r.timer = NoTime
      BY <1>13 DEF RetiredRecord, LeaseRecord
    <2>2. /\ record' = [record EXCEPT ![l] = r] /\ UNCHANGED generation
          /\ leases' = [leases EXCEPT ![l[1]] = IF @ = l[2] THEN 0 ELSE @]
      BY <1>13 DEF RetireExpired, IsRecordDesired
    <2>3. record[l].op # "none"
      BY <1>8, <1>13
    <2> HIDE DEF r
    <2>4. Shape(r)
      BY <2>1 DEF Shape
    <2>5. \A k \in Lease \ {l} : leaseFile'[k] = leaseFile[k]
      BY <1>13
    <2> QED  BY <1>13, <2>1, <2>2, <2>3, <2>4, <2>5, OneLeaseInv
  \* A wanted record becomes idle again with its heartbeat armed.
  <1>14. ASSUME NEW l \in Lease, NEW q,
                record' = [record EXCEPT ![l] = ScheduleHeartbeat(q)],
                UNCHANGED <<leases, generation, owners, enabled, disposed, leaseFile>>,
                IsRecordDesired(l), record[l].op \in {"renew", "renewed"},
                q \in LeaseRecord, q.op = "idle", now < q.expiresAt,
                q.active = record[l].active, q.release = record[l].release,
                q.restart = record[l].restart
         PROVE  LeaseInv'
    <2> DEFINE r == ScheduleHeartbeat(q)
    <2>1. HeartbeatDue(q.expiresAt) # NoTime
      <3>1. now \in Time /\ q.expiresAt \in 0..(MaxTime + TTL)
        BY <1>14 DEF TypeOK, LeaseRecord
      <3> QED  BY <1>14, <3>1, HeartbeatDueType DEF NoTime
    <2>2. /\ r.op = "idle" /\ r.active = record[l].active /\ r.release = record[l].release
          /\ r.restart = record[l].restart /\ r.timer # NoTime
      BY <1>14, <2>1 DEF ScheduleHeartbeat, LeaseRecord
    <2>3. record' = [record EXCEPT ![l] = r]
      BY <1>14
    <2> HIDE DEF r
    <2>4. Shape(r) /\ r.release = "none" /\ Live(l)
      BY <1>8, <1>14, <2>2 DEF Shape
    <2>5. \A k \in Lease \ {l} : leaseFile'[k] = leaseFile[k]
      BY <1>14
    <2> QED  BY <1>14, <2>2, <2>3, <2>4, <2>5, OneLeaseInv
  \* A retired record becomes idle: only its release is left to run.
  <1>15. ASSUME NEW l \in Lease,
                record' = [record EXCEPT ![l] = [record[l] EXCEPT !.op = "idle"]],
                UNCHANGED <<leases, generation, owners, enabled, disposed, leaseFile>>,
                ~IsRecordDesired(l), record[l].op \in {"renew", "renewed"}
         PROVE  LeaseInv'
    <2> DEFINE r == [record[l] EXCEPT !.op = "idle"]
    <2>1. /\ r.op = "idle" /\ r.active = record[l].active /\ r.release = record[l].release
          /\ r.restart = record[l].restart /\ r.timer = record[l].timer
      BY <1>8 DEF LeaseRecord
    <2>2. record' = [record EXCEPT ![l] = r]
      BY <1>15
    <2> HIDE DEF r
    <2>3. Shape(r) /\ r.release = "waiting" /\ ~Live(l)
      BY <1>8, <1>15, <2>1 DEF Shape, LeaseRecord
    <2>4. \A k \in Lease \ {l} : leaseFile'[k] = leaseFile[k]
      BY <1>15
    <2> QED  BY <1>15, <2>1, <2>2, <2>3, <2>4, OneLeaseInv
  <1>16. ASSUME NEW l \in Lease, Heartbeat(l) PROVE LeaseInv'
    <2> DEFINE q == [record[l] EXCEPT !.timer = NoTime]
    <2>1. /\ record[l].timer # NoTime
          /\ UNCHANGED <<owners, enabled, disposed, leaseFile>>
      BY <1>16 DEF Heartbeat, OnlyRecord, transportVars
    <2>2. record[l].active /\ record[l].op = "idle" /\ record[l].release = "none" /\ Live(l)
      BY <1>8, <2>1 DEF Shape
    <2>3. /\ q \in LeaseRecord /\ q.op = "idle" /\ q.active /\ q.release = "none"
          /\ q.timer = NoTime /\ q.restart = record[l].restart
      BY <1>8, <2>2 DEF LeaseRecord
    <2>4. IsRecordDesired(l)
      BY <1>8, <2>2
    <2>5. RetireExpired(l, q) \/ SetRecord(l, [q EXCEPT !.op = "renew"])
      BY <1>16, <2>4 DEF Heartbeat
    <2> HIDE DEF q
    <2>6. CASE RetireExpired(l, q)
      BY <1>13, <2>1, <2>3, <2>4, <2>6
    <2>7. CASE SetRecord(l, [q EXCEPT !.op = "renew"])
      <3> DEFINE r == [q EXCEPT !.op = "renew"]
      <3>1. record' = [record EXCEPT ![l] = r] /\ UNCHANGED <<leases, generation>>
        BY <2>7 DEF SetRecord
      <3>2. /\ r.op = "renew" /\ r.active /\ r.release = "none" /\ r.timer = NoTime
            /\ r.restart = record[l].restart
        BY <2>3 DEF LeaseRecord
      <3> HIDE DEF r
      <3>3. Shape(r)
        BY <1>8, <2>2, <3>2 DEF Shape
      <3>4. \A k \in Lease \ {l} : leaseFile'[k] = leaseFile[k]
        BY <2>1
      <3> QED  BY <2>1, <2>2, <3>1, <3>2, <3>3, <3>4, OneLeaseInv
    <2> QED  BY <2>5, <2>6, <2>7
  <1>17. ASSUME NEW l \in Lease, RenewPublishes(l) PROVE LeaseInv'
    <2> DEFINE r == [record[l] EXCEPT !.op = "renewed"]
    <2>1. /\ record' = [record EXCEPT ![l] = r] /\ record[l].op = "renew"
          /\ leaseFile' = [leaseFile EXCEPT ![l] = now]
          /\ UNCHANGED <<leases, generation, owners, enabled, disposed>>
      BY <1>17 DEF RenewPublishes, SetRecord, OnlyRecord
    <2>2. /\ r.op = "renewed" /\ r.active = record[l].active /\ r.release = record[l].release
          /\ r.timer = record[l].timer /\ r.restart = record[l].restart
      BY <1>8 DEF LeaseRecord
    <2> HIDE DEF r
    <2>3. Shape(r) /\ r.release # "done" /\ (Live(l) <=> r.release = "none")
      BY <1>8, <2>1, <2>2 DEF Shape
    <2>4. \A k \in Lease \ {l} : leaseFile'[k] = leaseFile[k]
      BY <2>1 DEF TypeOK
    <2> QED  BY <2>1, <2>2, <2>3, <2>4, OneLeaseInv
  <1>18. ASSUME NEW l \in Lease, RenewOk(l) PROVE LeaseInv'
    <2>1. /\ record[l].op = "renewed"
          /\ UNCHANGED <<leases, generation, owners, enabled, disposed, leaseFile>>
      BY <1>18 DEF RenewOk, SetRecord, OnlyRecord, transportVars
    <2>2. CASE IsRecordDesired(l)
      <3> DEFINE q == [record[l] EXCEPT !.op = "idle", !.expiresAt = now + TTL]
      <3>1. record' = [record EXCEPT ![l] = ScheduleHeartbeat(q)]
        BY <1>18, <2>2 DEF RenewOk, SetRecord
      <3>2. now \in Time /\ now + TTL \in 0..(MaxTime + TTL) /\ now < now + TTL
        BY DEF TypeOK, Time
      <3>3. /\ q \in LeaseRecord /\ q.op = "idle" /\ now < q.expiresAt
            /\ q.active = record[l].active /\ q.release = record[l].release
            /\ q.restart = record[l].restart
        BY <1>8, <3>2 DEF LeaseRecord, Operation
      <3> HIDE DEF q
      <3> QED  BY <1>14, <2>1, <2>2, <3>1, <3>3
    <2>3. CASE ~IsRecordDesired(l)
      BY <1>15, <1>18, <2>1, <2>3 DEF RenewOk, SetRecord
    <2> QED  BY <2>2, <2>3
  <1>19. ASSUME NEW l \in Lease, RenewFails(l) PROVE LeaseInv'
    <2> DEFINE q == [record[l] EXCEPT !.op = "idle"]
    <2>1. /\ record[l].op \in {"renew", "renewed"}
          /\ UNCHANGED <<owners, enabled, disposed, leaseFile>>
      BY <1>19 DEF RenewFails, OnlyRecord, transportVars
    <2>2. /\ q \in LeaseRecord /\ q.op = "idle" /\ q.active = record[l].active
          /\ q.release = record[l].release /\ q.restart = record[l].restart
          /\ q.expiresAt = record[l].expiresAt
      BY <1>8 DEF LeaseRecord, Operation
    <2>3. \/ ~IsRecordDesired(l) /\ SetRecord(l, q)
          \/ IsRecordDesired(l) /\ RetireExpired(l, q)
          \/ IsRecordDesired(l) /\ now < q.expiresAt /\ SetRecord(l, ScheduleHeartbeat(q))
      BY <1>19 DEF RenewFails
    <2>4. CASE ~IsRecordDesired(l) /\ SetRecord(l, q)
      BY <1>15, <2>1, <2>4 DEF SetRecord
    <2> HIDE DEF q
    <2>5. CASE IsRecordDesired(l) /\ RetireExpired(l, q)
      <3>1. q.release = "none"
        BY <2>2, <2>5 DEF IsRecordDesired, Retired
      <3> QED  BY <1>13, <2>1, <2>2, <2>5, <3>1
    <2>6. CASE IsRecordDesired(l) /\ now < q.expiresAt /\ SetRecord(l, ScheduleHeartbeat(q))
      BY <1>14, <2>1, <2>2, <2>6 DEF SetRecord
    <2> QED  BY <2>3, <2>4, <2>5, <2>6
  <1>20. ASSUME NEW l \in Lease, ReleaseLease(l) PROVE LeaseInv'
    <2>1. /\ record[l].release = "waiting" /\ record[l].op \in {"idle", "failed"}
          /\ UNCHANGED <<owners, enabled, disposed>>
      BY <1>20 DEF ReleaseLease, ReleaseMayRun, OnlyRecord
    <2>2. ASSUME NEW r, SetRecord(l, r), r.op = record[l].op, r.active = record[l].active,
                 r.release = "done", r.timer = record[l].timer, r.restart = record[l].restart,
                 ~r.leaked => leaseFile'[l] = NoTime,
                 leaseFile' = leaseFile \/ leaseFile' = [leaseFile EXCEPT ![l] = NoTime]
          PROVE  LeaseInv'
      <3>1. Shape(r) /\ ~Live(l)
        BY <1>8, <2>1, <2>2 DEF Shape
      <3>2. /\ record' = [record EXCEPT ![l] = r] /\ UNCHANGED <<leases, generation>>
            /\ \A k \in Lease \ {l} : leaseFile'[k] = leaseFile[k]
        BY <2>2 DEF SetRecord, TypeOK
      <3> QED  BY <2>1, <2>2, <3>1, <3>2, OneLeaseInv
    <2>3. CASE ~Acquired(l)
      <3> DEFINE r == [record[l] EXCEPT !.release = "done"]
      <3>1. SetRecord(l, r) /\ leaseFile' = leaseFile /\ record[l].op = "failed"
        BY <1>20, <2>1, <2>3 DEF ReleaseLease, Acquired
      <3>2. /\ r.op = record[l].op /\ r.active = record[l].active /\ r.release = "done"
            /\ r.timer = record[l].timer /\ r.restart = record[l].restart
            /\ r.leaked = record[l].leaked
        BY <1>8 DEF LeaseRecord
      <3>3. ~record[l].leaked => leaseFile'[l] = NoTime
        BY <1>8, <3>1
      <3> HIDE DEF r
      <3> QED  BY <2>2, <3>1, <3>2, <3>3
    <2>4. CASE Acquired(l)
      <3>1. PICK leak \in BOOLEAN :
              /\ SetRecord(l, [record[l] EXCEPT !.release = "done", !.leaked = leak])
              /\ leaseFile' = IF leak THEN leaseFile ELSE [leaseFile EXCEPT ![l] = NoTime]
        BY <1>20, <2>4 DEF ReleaseLease
      <3> DEFINE r == [record[l] EXCEPT !.release = "done", !.leaked = leak]
      <3>2. /\ r.op = record[l].op /\ r.active = record[l].active /\ r.release = "done"
            /\ r.timer = record[l].timer /\ r.restart = record[l].restart /\ r.leaked = leak
        BY <1>8 DEF LeaseRecord
      <3>3. /\ ~leak => leaseFile'[l] = NoTime
            /\ leaseFile' = leaseFile \/ leaseFile' = [leaseFile EXCEPT ![l] = NoTime]
        BY <3>1 DEF TypeOK
      <3>4. SetRecord(l, r)
        BY <3>1
      <3> HIDE DEF r
      <3> QED  BY <2>2, <3>2, <3>3, <3>4
    <2> QED  BY <2>3, <2>4
  <1>21. ASSUME NEW p \in Pid, TargetPrunes(p) PROVE LeaseInv'
    <2>1. /\ UNCHANGED <<record, leases, generation, disposed, enabled, owners>>
          /\ \A l \in Lease : leaseFile'[l] \in {leaseFile[l], NoTime}
      BY <1>21 DEF TargetPrunes, Prune, managerVars
    <2> QED  BY <2>1, SameLeasesInv DEF IsPidDesired
  <1>22. CASE Tick \/ UNCHANGED vars
    <2>1. UNCHANGED <<record, leases, generation, disposed, enabled, owners, leaseFile>>
      BY <1>22 DEF Tick, vars, managerVars, transportVars
    <2> QED  BY <2>1, SameLeasesInv DEF IsPidDesired
  <1> QED
    BY <1>1, <1>3, <1>4, <1>5, <1>6, <1>7, <1>9, <1>10, <1>11, <1>12, <1>16, <1>17, <1>18,
       <1>19, <1>20, <1>21, <1>22, RestartInv DEF Next, Settle

LEMMA LeaseInit == Init => LeaseInv
  <1> SUFFICES ASSUME Init PROVE LeaseInv
    OBVIOUS
  <1>1. \A l \in Lease : /\ record[l] = UnbornRecord /\ record[l].op = "none"
                         /\ ~record[l].active /\ record[l].release = "none"
                         /\ record[l].timer = NoTime /\ ~record[l].restart
                         /\ l[1] \in Pid /\ l[2] \in 1..MaxLease
    BY LeasePairs DEF Init, UnbornRecord
  <1>2. /\ \A p \in Pid : generation[p] = 0 /\ leases[p] = 0 /\ owners[p] = {}
        /\ \A l \in Lease : leaseFile[l] = NoTime
    BY DEF Init
  <1> QED  BY <1>1, <1>2 DEF LeaseInv, BornInOrder, MappedIsLive, LiveIsMapped, Live, RecordShape,
               Shape, ReleasedLeaseLeavesNoFile

\* However calls, promises, timers and failures overlap, a pid has at most one
\* lease that is being acquired or held, and only while it is wanted.
THEOREM LeasesAreCurrentAndWanted == Spec => []LiveLeaseIsCurrentAndWanted
  <1>1. LeaseInv => LiveLeaseIsCurrentAndWanted
    BY DEF LeaseInv, LiveIsMapped, LiveLeaseIsCurrentAndWanted
  <1> QED  BY <1>1, LeaseInit, LeaseStep, TypeCorrect, PTL DEF Spec

\* The heartbeat of an active lease is always armed or in flight.
THEOREM HeartbeatNeverDies == Spec => []HeartbeatAlive
  <1>1. TypeOK /\ LeaseInv => HeartbeatAlive
    <2> SUFFICES ASSUME TypeOK, LeaseInv, NEW l \in Lease, record[l].active
                 PROVE  (record[l].timer # NoTime) # (record[l].op \in {"renew", "renewed"})
      BY DEF HeartbeatAlive
    <2>1. Shape(record[l])
      BY DEF LeaseInv, RecordShape
    <2> QED  BY <2>1 DEF Shape
  <1> QED  BY <1>1, LeaseInit, LeaseStep, TypeCorrect, PTL DEF Spec

\* Nothing brings the file of a released or failed lease back.
THEOREM ReleaseIsLast == Spec => []ReleasedLeaseLeavesNoFile
  <1>1. LeaseInv => ReleasedLeaseLeavesNoFile
    BY DEF LeaseInv
  <1> QED  BY <1>1, LeaseInit, LeaseStep, TypeCorrect, PTL DEF Spec

-----------------------------------------------------------------------------
(* The session invariant. *)

LEMMA SessionInit == Init => SessionInv
  BY LeaseAssumption
     DEF Init, SessionInv, OwnersMatchSessions, LatestCallWins

\* A step that keeps sessions, moves and the disposed flag.
LEMMA SameSessionsInv ==
    ASSUME SessionInv, ~disposed \/ enabled' = enabled,
           UNCHANGED <<disposed, sessions, sessionGeneration, owners, moves, intent>>
    PROVE  SessionInv'
  BY DEF SessionInv, OwnersMatchSessions, LatestCallWins

\* Session s leaves the map, or is not in it, and its latest call is now in M.
LEMMA LeaveInv ==
    ASSUME TypeOK, SessionInv, NEW s \in Session, NEW M,
           UNCHANGED <<enabled, disposed>>, moves' = moves \cup M,
           sessionGeneration[s] < MaxCalls,
           sessionGeneration' = [sessionGeneration EXCEPT ![s] = @ + 1],
           sessions' = [sessions EXCEPT ![s] = None],
           \A p \in Pid : owners'[p] = owners[p] \ {s},
           \A q \in Session \ {s} : intent'[q] = intent[q],
           \/ M = {} /\ intent'[s] = None
           \/ /\ ~disposed
              /\ \E m : /\ M = {m} /\ m.session = s
                        /\ m.gen = sessionGeneration[s] + 1 /\ intent'[s] = m.pid
    PROVE  SessionInv'
  <1> USE LeaseAssumption
  <1>1. /\ sessionGeneration'[s] = sessionGeneration[s] + 1
        /\ \A q \in Session \ {s} : /\ sessionGeneration'[q] = sessionGeneration[q]
                                    /\ sessions'[q] = sessions[q]
        /\ \A q \in Session : sessionGeneration[q] \in 0..MaxCalls
        /\ sessions'[s] = None
    BY DEF TypeOK
  <1>2. \A m \in moves : /\ m.session \in Session /\ m.gen \in 1..MaxCalls
                         /\ m.gen <= sessionGeneration[m.session]
    BY DEF TypeOK, Move, SessionInv
  <1>3. OwnersMatchSessions'
    BY <1>1 DEF SessionInv, OwnersMatchSessions
  <1>4. disposed' => ~enabled' /\ \A q \in Session : sessions'[q] = None /\ intent'[q] = None
    BY <1>1 DEF SessionInv
  <1>5. \A m \in moves : m.session = s => m.gen < sessionGeneration'[s]
    BY <1>1, <1>2
  <1>6. \A m \in moves' : /\ m.gen <= sessionGeneration'[m.session]
                          /\ m.gen = sessionGeneration'[m.session] /\ ~disposed' =>
                               sessions'[m.session] = None /\ intent'[m.session] = m.pid
    <2> SUFFICES ASSUME NEW m \in moves'
                 PROVE  /\ m.gen <= sessionGeneration'[m.session]
                        /\ m.gen = sessionGeneration'[m.session] /\ ~disposed' =>
                             sessions'[m.session] = None /\ intent'[m.session] = m.pid
      OBVIOUS
    <2>1. CASE m \in moves /\ m.session # s
      BY <1>1, <1>2, <2>1 DEF SessionInv
    <2>2. CASE m \in moves /\ m.session = s
      BY <1>1, <1>2, <1>5, <2>2
    <2>3. CASE m \notin moves
      BY <1>1, <2>3
    <2> QED  BY <2>1, <2>2, <2>3
  <1>7. \A m, k \in moves' : m.session = k.session /\ m.gen = k.gen => m = k
    <2> SUFFICES ASSUME NEW m \in moves', NEW k \in moves', m.session = k.session, m.gen = k.gen
                 PROVE  m = k
      OBVIOUS
    <2>1. CASE m \in moves /\ k \in moves
      BY <2>1 DEF SessionInv
    <2>2. CASE m \notin moves \/ k \notin moves
      BY <1>1, <1>5, <2>2
    <2> QED  BY <2>1, <2>2
  <1>8. LatestCallWins'
    <2> SUFFICES ASSUME NEW q \in Session
                 PROVE  \/ sessions'[q] = intent'[q]
                        \/ \E m \in moves' : m.session = q /\ m.gen = sessionGeneration'[q]
      BY DEF LatestCallWins
    <2>1. CASE q = s
      BY <1>1, <2>1
    <2>2. CASE q # s
      BY <1>1, <2>2 DEF SessionInv, LatestCallWins
    <2> QED  BY <2>1, <2>2
  <1> QED  BY <1>3, <1>4, <1>6, <1>7, <1>8 DEF SessionInv

\* Every step keeps the two session maps in agreement and the latest call ahead.
LEMMA SessionStep == TypeOK /\ SessionInv /\ [Next]_vars => SessionInv'
  <1> SUFFICES ASSUME TypeOK, SessionInv, [Next]_vars PROVE SessionInv'
    OBVIOUS
  <1> USE LeaseAssumption
  <1>a. /\ \A m \in moves : m.session \in Session /\ m.pid \in Pid /\ m.gen \in 1..MaxCalls
        /\ \A q \in Session : sessionGeneration[q] \in 0..MaxCalls
    BY DEF TypeOK, Move
  <1>1. ASSUME NEW s \in Session, NEW p \in Pid, RegisterSession(s, p) PROVE SessionInv'
    <2>1. /\ ~disposed /\ UNCHANGED <<enabled, disposed, moves>> /\ sessions[s] \in {None, p}
          /\ sessions' = [sessions EXCEPT ![s] = p]
          /\ owners' = [owners EXCEPT ![p] = @ \cup {s}]
          /\ sessionGeneration' = [sessionGeneration EXCEPT ![s] = @ + 1]
          /\ intent' = [intent EXCEPT ![s] = p]
      BY <1>1 DEF RegisterSession, AttachOwner, NextSessionGeneration
    <2>2. OwnersMatchSessions'
      BY <2>1 DEF SessionInv, OwnersMatchSessions, TypeOK
    <2>3. \A m \in moves : m.session = s => m.gen < sessionGeneration'[s]
      BY <1>a, <2>1 DEF SessionInv, TypeOK
    <2>4. /\ \A q \in Session \ {s} : /\ sessionGeneration'[q] = sessionGeneration[q]
                                      /\ sessions'[q] = sessions[q] /\ intent'[q] = intent[q]
          /\ sessions'[s] = p /\ intent'[s] = p
          /\ sessionGeneration'[s] = sessionGeneration[s] + 1
      BY <2>1 DEF TypeOK
    <2>5. \A m \in moves' : /\ m.gen <= sessionGeneration'[m.session]
                            /\ m.gen = sessionGeneration'[m.session] =>
                                 sessions'[m.session] = None /\ intent'[m.session] = m.pid
      BY <1>a, <2>1, <2>3, <2>4 DEF SessionInv
    <2>6. LatestCallWins'
      BY <2>1, <2>4 DEF SessionInv, LatestCallWins
    <2> QED  BY <2>1, <2>2, <2>5, <2>6 DEF SessionInv
  <1>2. ASSUME NEW s \in Session, NEW p \in Pid, MoveSession(s, p) PROVE SessionInv'
    <2> DEFINE m == [session |-> s, pid |-> p, gen |-> sessionGeneration[s] + 1,
                     await |-> LeaseLeft(s, sessions[s])]
    <2>1. /\ ~disposed /\ UNCHANGED <<enabled, disposed>> /\ moves' = moves \cup {m}
          /\ sessionGeneration[s] < MaxCalls
          /\ sessionGeneration' = [sessionGeneration EXCEPT ![s] = @ + 1]
          /\ sessions' = [sessions EXCEPT ![s] = None]
          /\ owners' = [owners EXCEPT ![sessions[s]] = @ \ {s}]
          /\ intent' = [intent EXCEPT ![s] = p]
      BY <1>2 DEF MoveSession, DetachOwner, NextSessionGeneration
    <2>2. \A q \in Pid : owners'[q] = owners[q] \ {s}
      BY <2>1 DEF SessionInv, OwnersMatchSessions, TypeOK
    <2>3. intent'[s] = p /\ \A q \in Session \ {s} : intent'[q] = intent[q]
      BY <2>1 DEF TypeOK
    <2>4. m.session = s /\ m.gen = sessionGeneration[s] + 1 /\ m.pid = p
      OBVIOUS
    <2> HIDE DEF m
    <2> QED  BY <2>1, <2>2, <2>3, <2>4, LeaveInv
  <1>3. ASSUME NEW m \in moves, FinishMove(m) PROVE SessionInv'
    <2> DEFINE s == m.session
    <2>1. UNCHANGED <<enabled, disposed, sessionGeneration, intent>> /\ moves' = moves \ {m}
      BY <1>3 DEF FinishMove
    <2>2. \A k \in moves' : k.session # s \/ k.gen # m.gen
      BY <2>1 DEF SessionInv
    <2>3. \A k \in moves' : k.gen <= sessionGeneration'[k.session]
      BY <2>1 DEF SessionInv
    <2>4. \A k, j \in moves' : k.session = j.session /\ k.gen = j.gen => k = j
      BY <2>1 DEF SessionInv
    <2>5. CASE MoveIsCurrent(m)
      <3>1. /\ ~disposed /\ m.gen = sessionGeneration[s]
            /\ sessions' = [sessions EXCEPT ![s] = m.pid]
            /\ owners' = [owners EXCEPT ![m.pid] = @ \cup {s}]
        BY <1>3, <2>5 DEF FinishMove, MoveIsCurrent, AttachOwner
      <3>2. sessions[s] = None /\ intent[s] = m.pid
        BY <3>1 DEF SessionInv
      <3>3. OwnersMatchSessions'
        BY <1>a, <3>1, <3>2 DEF SessionInv, OwnersMatchSessions, TypeOK
      <3>4. sessions'[s] = m.pid /\ \A q \in Session \ {s} : sessions'[q] = sessions[q]
        BY <1>a, <3>1 DEF TypeOK
      <3>5. \A k \in moves' : k.gen = sessionGeneration'[k.session] =>
                                sessions'[k.session] = None /\ intent'[k.session] = k.pid
        BY <1>a, <2>1, <2>2, <3>1, <3>4 DEF SessionInv
      <3>6. LatestCallWins'
        BY <2>1, <3>2, <3>4 DEF SessionInv, LatestCallWins
      <3> QED  BY <2>1, <2>3, <2>4, <3>1, <3>3, <3>5, <3>6 DEF SessionInv
    <2>6. CASE ~MoveIsCurrent(m)
      <3>1. UNCHANGED <<sessions, owners>> /\ (disposed \/ m.gen # sessionGeneration[s])
        BY <1>3, <2>6 DEF FinishMove, MoveIsCurrent
      <3>2. OwnersMatchSessions'
        BY <3>1 DEF SessionInv, OwnersMatchSessions
      <3>3. LatestCallWins'
        BY <2>1, <3>1 DEF SessionInv, LatestCallWins
      <3> QED  BY <2>1, <2>3, <2>4, <3>1, <3>2, <3>3 DEF SessionInv
    <2> QED  BY <2>5, <2>6
  <1>4. ASSUME NEW s \in Session, UnregisterSession(s) PROVE SessionInv'
    <2>1. /\ UNCHANGED <<enabled, disposed>> /\ moves' = moves \cup {}
          /\ sessionGeneration[s] < MaxCalls
          /\ sessionGeneration' = [sessionGeneration EXCEPT ![s] = @ + 1]
          /\ intent' = [intent EXCEPT ![s] = None]
      BY <1>4 DEF UnregisterSession, NextSessionGeneration
    <2>2. sessions' = [sessions EXCEPT ![s] = None] /\ \A q \in Pid : owners'[q] = owners[q] \ {s}
      <3>1. CASE sessions[s] = None
        BY <1>4, <3>1 DEF UnregisterSession, SessionInv, OwnersMatchSessions, TypeOK
      <3>2. CASE sessions[s] # None
        BY <1>4, <3>2 DEF UnregisterSession, DetachOwner, SessionInv, OwnersMatchSessions, TypeOK
      <3> QED  BY <3>1, <3>2
    <2>3. intent'[s] = None /\ \A q \in Session \ {s} : intent'[q] = intent[q]
      BY <2>1 DEF TypeOK
    <2> QED  BY <2>1, <2>2, <2>3, LeaveInv
  <1>5. CASE Dispose
    <2>1. /\ disposed' = TRUE /\ enabled' = FALSE /\ moves' = moves
          /\ sessionGeneration' = [q \in Session |-> IF sessions[q] # None
                                                       THEN sessionGeneration[q] + 1
                                                       ELSE sessionGeneration[q]]
          /\ sessions' = [q \in Session |-> None] /\ owners' = [p \in Pid |-> {}]
          /\ intent' = [q \in Session |-> None]
      BY <1>5 DEF Dispose
    <2>2. OwnersMatchSessions' /\ LatestCallWins'
      BY <2>1 DEF OwnersMatchSessions, LatestCallWins
    <2>3. \A m \in moves' : m.gen <= sessionGeneration'[m.session]
      BY <1>a, <2>1 DEF SessionInv
    <2> QED  BY <2>1, <2>2, <2>3 DEF SessionInv
  <1>6. CASE Reconcile \/ Enable \/ Disable
    BY <1>6, SameSessionsInv DEF Reconcile, Enable, Disable
  <1>7. ASSUME NEW l \in Lease,
               Settle(l) \/ TargetAccepts(l) \/ Heartbeat(l) \/ ReleaseLease(l) \/ RestartLease(l)
        PROVE  SessionInv'
    <2>1. OnlyRecord
      BY <1>7 DEF Settle, PublishLease, AcquireOk, AcquireFails, RenewPublishes, RenewOk,
                  RenewFails, TargetAccepts, Heartbeat, ReleaseLease, RestartLease
    <2> QED  BY <2>1, SameSessionsInv DEF OnlyRecord
  <1>8. ASSUME NEW p \in Pid, TargetPrunes(p) PROVE SessionInv'
    BY <1>8, SameSessionsInv DEF TargetPrunes, managerVars
  <1>9. CASE Tick \/ UNCHANGED vars
    BY <1>9, SameSessionsInv DEF Tick, vars, managerVars
  <1> QED
    BY <1>1, <1>2, <1>3, <1>4, <1>5, <1>6, <1>7, <1>8, <1>9 DEF Next

\* The owners of a pid are the sessions registered at it.
THEOREM OwnersAgree == Spec => []OwnersMatchSessions
  <1>1. SessionInv => OwnersMatchSessions
    BY DEF SessionInv
  <1> QED  BY <1>1, SessionInit, SessionStep, TypeCorrect, PTL DEF Spec

\* A session ends where its latest call put it, whatever calls overlap.
THEOREM LatestCallIsLast == Spec => []LatestCallWins
  <1>1. SessionInv => LatestCallWins
    BY DEF SessionInv
  <1> QED  BY <1>1, SessionInit, SessionStep, TypeCorrect, PTL DEF Spec

\* Nothing registers a session or starts a lease after dispose.
THEOREM DisposeIsFinal == Spec => []DisposedIsEmpty
  <1>1. LeaseInv /\ SessionInv => DisposedIsEmpty
    BY DEF LeaseInv, MappedIsLive, SessionInv, DisposedIsEmpty
  <1> QED  BY <1>1, LeaseInit, LeaseStep, SessionInit, SessionStep, TypeCorrect, PTL DEF Spec

-----------------------------------------------------------------------------
(* How a record changes in one step, and the abstract life cycle. *)

Grows(q, r) ==
    \/ r = q
    \/ q.op = "none" /\ r = NewRecord
    \/ /\ q.op # "none" /\ r.op # "none"
       /\ q.release # "none" => r.release # "none"
       /\ q.release = "done" => r.release = "done"
       /\ q.op = "failed" => r.op = "failed" /\ (q.release = "none" => r.release = "none")

RecordsGrow ==
    /\ \A l \in Lease : Grows(record[l], record'[l])
    /\ \A p \in Pid : generation'[p] \in {generation[p], generation[p] + 1}

LEMMA EnsureLeasesGrow ==
    ASSUME TypeOK, LeaseInv, NEW P, P \subseteq Pid, EnsureLeases(P)
    PROVE  RecordsGrow
  <1>1. /\ \A p \in Pid : generation'[p] \in {generation[p], generation[p] + 1}
        /\ \A l \in Lease : \/ record'[l] = record[l]
                            \/ record'[l] = NewRecord /\ l[2] = generation[l[1]] + 1
    BY DEF EnsureLeases
  <1>2. \A l \in Lease : l[2] = generation[l[1]] + 1 => record[l].op = "none"
    <2> SUFFICES ASSUME NEW l \in Lease, l[2] = generation[l[1]] + 1
                 PROVE  record[l].op = "none"
      OBVIOUS
    <2>1. generation[l[1]] \in 0..MaxLease
      BY LeasePairs DEF TypeOK
    <2>2. ~(l[2] <= generation[l[1]])
      BY <2>1
    <2> QED  BY <2>2 DEF LeaseInv, BornInOrder
  <1> QED  BY <1>1, <1>2 DEF RecordsGrow, Grows

LEMMA RetireLeasesGrow ==
    ASSUME TypeOK, LeaseInv, NEW L, RetireLeases(L),
           \A l \in L \cap Lease : leases[l[1]] = l[2]
    PROVE  RecordsGrow
  <1>1. /\ generation' = generation
        /\ \A l \in Lease : record'[l] = IF l \in L THEN RetiredRecord(record[l]) ELSE record[l]
    BY DEF RetireLeases
  <1>2. \A l \in L \cap Lease : Live(l)
    BY LiveIsDesired DEF LeaseInv, MappedIsLive
  <1>3. ASSUME NEW l \in L \cap Lease PROVE Grows(record[l], record'[l])
    <2>1. /\ record[l] \in LeaseRecord /\ record'[l] = RetiredRecord(record[l])
          /\ record[l].op \notin {"none", "failed"} /\ record[l].release = "none"
      BY <1>1, <1>2 DEF TypeOK, Live, Retired
    <2>2. record'[l].op = record[l].op
      BY <2>1 DEF RetiredRecord, LeaseRecord
    <2> QED  BY <2>1, <2>2 DEF Grows
  <1>4. \A l \in Lease \ L : record'[l] = record[l]
    BY <1>1
  <1> QED  BY <1>1, <1>3, <1>4 DEF RecordsGrow, Grows

\* A step of one record that has begun and has not failed.
LEMMA OneRecordGrows ==
    ASSUME TypeOK, NEW l \in Lease, NEW r, record' = [record EXCEPT ![l] = r],
           generation' = generation, Grows(record[l], r)
    PROVE  RecordsGrow
  BY DEF RecordsGrow, Grows, TypeOK

LEMMA RecordStep == TypeOK /\ LeaseInv /\ [Next]_vars => RecordsGrow
  <1> SUFFICES ASSUME TypeOK, LeaseInv, [Next]_vars PROVE RecordsGrow
    OBVIOUS
  <1> USE LeaseAssumption
  <1>a. ASSUME UNCHANGED <<record, generation>> PROVE RecordsGrow
    BY <1>a DEF RecordsGrow, Grows
  <1>b. ASSUME NEW p \in Pid, EnsureIfEnabled(p) PROVE RecordsGrow
    <2>1. CASE enabled
      BY <1>b, <2>1, EnsureLeasesGrow DEF EnsureIfEnabled
    <2>2. CASE ~enabled
      BY <1>a, <1>b, <2>2 DEF EnsureIfEnabled
    <2> QED  BY <2>1, <2>2
  <1>c. ASSUME NEW s \in Session, NEW p \in Pid, DetachOwner(s, p) PROVE RecordsGrow
    <2>1. \A l \in {LeaseLeft(s, p)} \cap Lease : leases[l[1]] = l[2]
      BY LeasePairs DEF LeaseLeft
    <2> QED  BY <1>c, <2>1, RetireLeasesGrow DEF DetachOwner
  <1>d. ASSUME NEW l \in Lease
        PROVE  /\ record[l] \in LeaseRecord /\ Shape(record[l])
               /\ Live(l) <=> IsRecordDesired(l)
               /\ Live(l) <=> record[l].op \notin {"none", "failed"} /\ record[l].release = "none"
    BY LiveIsDesired DEF TypeOK, LeaseInv, RecordShape, Live, Retired
  <1>1. ASSUME NEW s \in Session, NEW p \in Pid, RegisterSession(s, p) PROVE RecordsGrow
    BY <1>1, <1>b DEF RegisterSession
  <1>2. ASSUME NEW s \in Session, NEW p \in Pid, MoveSession(s, p) PROVE RecordsGrow
    BY <1>2, <1>c DEF MoveSession, TypeOK
  <1>3. ASSUME NEW m \in moves, FinishMove(m) PROVE RecordsGrow
    <2>1. m.pid \in Pid
      BY DEF TypeOK, Move
    <2> QED  BY <1>3, <1>a, <1>b, <2>1 DEF FinishMove
  <1>4. ASSUME NEW s \in Session, UnregisterSession(s) PROVE RecordsGrow
    <2>1. CASE sessions[s] = None
      BY <1>a, <1>4, <2>1 DEF UnregisterSession
    <2>2. CASE sessions[s] # None
      BY <1>c, <1>4, <2>2 DEF UnregisterSession, TypeOK
    <2> QED  BY <2>1, <2>2
  <1>5. CASE Reconcile \/ Enable
    <2>1. EnsureLeases({p \in Pid : owners[p] # {}})
      BY <1>5 DEF Reconcile, Enable
    <2> QED  BY <2>1, EnsureLeasesGrow
  <1>6. CASE Disable \/ Dispose
    <2>1. RetireLeases(MappedLeases)
      BY <1>6 DEF Disable, Dispose
    <2> QED  BY <2>1, RetireLeasesGrow DEF MappedLeases
  \* The operation of a record changes and its release does not.
  <1>7. ASSUME NEW l \in Lease, NEW o \in Operation \ {"none"},
               record[l].op \notin {"none", "failed"},
               record' = [record EXCEPT ![l] = [record[l] EXCEPT !.op = o]],
               generation' = generation
        PROVE  RecordsGrow
    <2> DEFINE r == [record[l] EXCEPT !.op = o]
    <2>1. r.op = o /\ r.release = record[l].release
      BY <1>d DEF LeaseRecord
    <2>2. Grows(record[l], r)
      BY <1>7, <2>1 DEF Grows
    <2>3. record' = [record EXCEPT ![l] = r]
      BY <1>7
    <2> HIDE DEF r
    <2> QED  BY <1>7, <2>2, <2>3, OneRecordGrows
  <1>8. ASSUME NEW l \in Lease, NEW r, record[l].op \notin {"none", "failed"}, r.op # "none",
               record' = [record EXCEPT ![l] = r], generation' = generation,
               record[l].release = "none"
        PROVE  RecordsGrow
    <2>1. Grows(record[l], r)
      BY <1>8 DEF Grows
    <2> QED  BY <1>8, <2>1, OneRecordGrows
  <1>9. ASSUME NEW l \in Lease, PublishLease(l) \/ RenewPublishes(l) PROVE RecordsGrow
    <2>1. PICK o \in {"published", "renewed"} :
            record' = [record EXCEPT ![l] = [record[l] EXCEPT !.op = o]]
      BY <1>9 DEF PublishLease, RenewPublishes, SetRecord
    <2>2. record[l].op \notin {"none", "failed"} /\ generation' = generation
      BY <1>9 DEF PublishLease, RenewPublishes, SetRecord
    <2> QED  BY <1>7, <2>1, <2>2 DEF Operation
  <1>10. ASSUME NEW l \in Lease, TargetAccepts(l) PROVE RecordsGrow
    <2>1. CASE record[l].op = "published"
      BY <1>7, <1>10, <2>1 DEF TargetAccepts, SetRecord, Operation
    <2>2. CASE record[l].op # "published"
      BY <1>a, <1>10, <2>2 DEF TargetAccepts
    <2> QED  BY <2>1, <2>2
  <1>11. ASSUME NEW l \in Lease, AcquireOk(l) PROVE RecordsGrow
    <2>1. record[l].op = "acked" /\ generation' = generation
      BY <1>11 DEF AcquireOk, SetRecord
    <2>2. CASE IsRecordDesired(l)
      <3> DEFINE q == [record[l] EXCEPT !.op = "idle", !.active = TRUE, !.expiresAt = now + TTL]
      <3>1. record' = [record EXCEPT ![l] = ScheduleHeartbeat(q)]
        BY <1>11, <2>2 DEF AcquireOk, SetRecord
      <3>2. ScheduleHeartbeat(q).op = "idle"
        BY <1>d DEF ScheduleHeartbeat, LeaseRecord
      <3> HIDE DEF q
      <3> QED  BY <1>8, <1>d, <2>1, <2>2, <3>1, <3>2
    <2>3. CASE ~IsRecordDesired(l)
      <3> DEFINE q == [record[l] EXCEPT !.op = "idle"]
      <3>1. record' = [record EXCEPT ![l] = RetiredRecord(q)]
        BY <1>11, <2>3 DEF AcquireOk, TypeOK
      <3>2. q.release # "none"
        BY <1>d, <2>1, <2>3 DEF LeaseRecord
      <3>3. RetiredRecord(q) = q
        BY <3>2 DEF RetiredRecord
      <3> QED  BY <1>7, <2>1, <3>1, <3>3 DEF Operation
    <2> QED  BY <2>2, <2>3
  <1>12. ASSUME NEW l \in Lease, AcquireFails(l) PROVE RecordsGrow
    <2>1. PICK leak \in BOOLEAN :
            record' = [record EXCEPT ![l] = [@ EXCEPT !.op = "failed", !.leaked = leak]]
      BY <1>12 DEF AcquireFails
    <2> DEFINE r == [record[l] EXCEPT !.op = "failed", !.leaked = leak]
    <2>2. /\ record' = [record EXCEPT ![l] = r] /\ generation' = generation
          /\ record[l].op \in {"acquire", "published", "acked"}
      BY <1>12, <2>1 DEF AcquireFails, TypeOK
    <2>3. r.op = "failed" /\ r.release = record[l].release
      BY <1>d DEF LeaseRecord
    <2> HIDE DEF r
    <2>4. Grows(record[l], r)
      BY <2>2, <2>3 DEF Grows
    <2> QED  BY <2>2, <2>4, OneRecordGrows
  <1>13. ASSUME NEW l \in Lease, NEW q, RetireExpired(l, q), IsRecordDesired(l),
                q \in LeaseRecord, q.op # "none"
         PROVE  RecordsGrow
    <2>1. RetiredRecord([q EXCEPT !.restart = TRUE]).op = q.op
      BY <1>13 DEF RetiredRecord, LeaseRecord
    <2>2. record' = [record EXCEPT ![l] = RetiredRecord([q EXCEPT !.restart = TRUE])]
          /\ generation' = generation
      BY <1>13 DEF RetireExpired
    <2> QED  BY <1>8, <1>d, <1>13, <2>1, <2>2
  <1>14. ASSUME NEW l \in Lease, Heartbeat(l) PROVE RecordsGrow
    <2> DEFINE q == [record[l] EXCEPT !.timer = NoTime]
    <2>1. Live(l) /\ IsRecordDesired(l) /\ record[l].op = "idle" /\ record[l].release = "none"
      BY <1>14, <1>d DEF Heartbeat, Shape
    <2>2. q \in LeaseRecord /\ q.op = "idle" /\ [q EXCEPT !.op = "renew"].op = "renew"
      BY <1>d, <2>1 DEF LeaseRecord
    <2>3. RetireExpired(l, q) \/ SetRecord(l, [q EXCEPT !.op = "renew"])
      BY <1>14, <2>1 DEF Heartbeat
    <2> HIDE DEF q
    <2>4. CASE RetireExpired(l, q)
      BY <1>13, <2>1, <2>2, <2>4
    <2>5. CASE SetRecord(l, [q EXCEPT !.op = "renew"])
      BY <1>8, <2>1, <2>2, <2>5 DEF SetRecord
    <2> QED  BY <2>3, <2>4, <2>5
  <1>15. ASSUME NEW l \in Lease, RenewOk(l) \/ RenewFails(l) PROVE RecordsGrow
    <2> DEFINE i == [record[l] EXCEPT !.op = "idle"]
               u == [record[l] EXCEPT !.op = "idle", !.expiresAt = now + TTL]
    <2>1. record[l].op \in {"renew", "renewed"}
      BY <1>15 DEF RenewOk, RenewFails
    <2>2. \/ ~IsRecordDesired(l) /\ SetRecord(l, i)
          \/ /\ IsRecordDesired(l)
             /\ \/ RetireExpired(l, i)
                \/ SetRecord(l, ScheduleHeartbeat(i))
                \/ SetRecord(l, ScheduleHeartbeat(u))
      BY <1>15 DEF RenewOk, RenewFails, SetRecord
    <2>3. /\ i \in LeaseRecord /\ i.op = "idle"
          /\ ScheduleHeartbeat(i).op = "idle" /\ ScheduleHeartbeat(u).op = "idle"
      BY <1>d DEF ScheduleHeartbeat, LeaseRecord, Operation
    <2>4. CASE ~IsRecordDesired(l) /\ SetRecord(l, i)
      BY <1>7, <2>1, <2>4 DEF SetRecord, Operation
    <2> HIDE DEF i, u
    <2>5. CASE IsRecordDesired(l) /\ RetireExpired(l, i)
      BY <1>13, <2>3, <2>5
    <2>6. CASE IsRecordDesired(l) /\ SetRecord(l, ScheduleHeartbeat(i))
      BY <1>8, <1>d, <2>1, <2>3, <2>6 DEF SetRecord
    <2>7. CASE IsRecordDesired(l) /\ SetRecord(l, ScheduleHeartbeat(u))
      BY <1>8, <1>d, <2>1, <2>3, <2>7 DEF SetRecord
    <2> QED  BY <2>2, <2>4, <2>5, <2>6, <2>7
  <1>16. ASSUME NEW l \in Lease, ReleaseLease(l) PROVE RecordsGrow
    <2>1. PICK leak \in BOOLEAN :
            \/ SetRecord(l, [record[l] EXCEPT !.release = "done"])
            \/ SetRecord(l, [record[l] EXCEPT !.release = "done", !.leaked = leak])
      BY <1>16 DEF ReleaseLease
    <2>2. record[l].release = "waiting" /\ record[l].op \in {"idle", "failed"}
      BY <1>16 DEF ReleaseLease, ReleaseMayRun
    <2>3. ASSUME NEW r, SetRecord(l, r), r.op = record[l].op, r.release = "done"
          PROVE  RecordsGrow
      <3>1. Grows(record[l], r)
        BY <2>2, <2>3 DEF Grows
      <3> QED  BY <2>3, <3>1, OneRecordGrows DEF SetRecord
    <2>4. CASE SetRecord(l, [record[l] EXCEPT !.release = "done"])
      <3>1. /\ [record[l] EXCEPT !.release = "done"].op = record[l].op
            /\ [record[l] EXCEPT !.release = "done"].release = "done"
        BY <1>d DEF LeaseRecord
      <3> QED  BY <2>3, <2>4, <3>1
    <2>5. CASE SetRecord(l, [record[l] EXCEPT !.release = "done", !.leaked = leak])
      <3>1. /\ [record[l] EXCEPT !.release = "done", !.leaked = leak].op = record[l].op
            /\ [record[l] EXCEPT !.release = "done", !.leaked = leak].release = "done"
        BY <1>d DEF LeaseRecord
      <3> QED  BY <2>3, <2>5, <3>1
    <2> QED  BY <2>1, <2>4, <2>5
  <1>17. ASSUME NEW l \in Lease, RestartLease(l) PROVE RecordsGrow
    <2> DEFINE r == [record[l] EXCEPT !.restart = FALSE]
               new == <<l[1], generation[l[1]] + 1>>
    <2>1. r.op = record[l].op /\ r.release = record[l].release
      BY <1>d DEF LeaseRecord
    <2>2. record[l].release = "done" /\ record[l].op \in {"idle", "failed"}
      BY <1>17, <1>d DEF RestartLease, Shape
    <2>3. Grows(record[l], r)
      BY <2>1, <2>2 DEF Grows
    <2>4. \/ record' = [record EXCEPT ![l] = r] /\ generation' = generation
          \/ /\ record' = [[record EXCEPT ![l] = r] EXCEPT ![new] = NewRecord]
             /\ generation' = [generation EXCEPT ![l[1]] = @ + 1]
      BY <1>17 DEF RestartLease
    <2> HIDE DEF r
    <2>5. CASE record' = [record EXCEPT ![l] = r] /\ generation' = generation
      BY <2>3, <2>5, OneRecordGrows
    <2>6. CASE /\ record' = [[record EXCEPT ![l] = r] EXCEPT ![new] = NewRecord]
               /\ generation' = [generation EXCEPT ![l[1]] = @ + 1]
      <3>1. generation[l[1]] \in 0..MaxLease /\ l[1] \in Pid
        BY LeasePairs DEF TypeOK
      <3>2. new \in Lease => record[new].op = "none"
        BY <3>1 DEF LeaseInv, BornInOrder
      <3>3. new # l
        BY <2>2, <3>2
      <3>4. \A k \in Lease : record'[k] = IF k = new THEN NewRecord
                                          ELSE IF k = l THEN r ELSE record[k]
        BY <2>6, <3>3 DEF TypeOK
      <3>5. \A k \in Lease : Grows(record[k], record'[k])
        BY <2>3, <3>2, <3>4 DEF Grows
      <3>6. \A p \in Pid : generation'[p] \in {generation[p], generation[p] + 1}
        BY <2>6, <3>1 DEF TypeOK
      <3> QED  BY <3>5, <3>6 DEF RecordsGrow
    <2> QED  BY <2>4, <2>5, <2>6
  <1>18. ASSUME NEW p \in Pid, TargetPrunes(p) PROVE RecordsGrow
    BY <1>a, <1>18 DEF TargetPrunes, managerVars
  <1>19. CASE Tick \/ UNCHANGED vars
    BY <1>a, <1>19 DEF Tick, vars, managerVars
  <1> QED
    BY <1>1, <1>2, <1>3, <1>4, <1>5, <1>6, <1>9, <1>10, <1>11, <1>12, <1>14, <1>15, <1>16,
       <1>17, <1>18, <1>19 DEF Next, Settle

\* A retired lease is never active or in the map again.
THEOREM RetiredIsFinal == Spec => RetiredForever
  <1>1. TypeOK /\ LeaseInv /\ TypeOK' /\ LeaseInv' /\ [Next]_vars =>
          [\A l \in Lease : Retired(l) => /\ Retired(l)'
                                          /\ ~record'[l].active
                                          /\ leases'[l[1]] # l[2]]_vars
    <2> SUFFICES ASSUME TypeOK, LeaseInv, LeaseInv', [Next]_vars, NEW l \in Lease, Retired(l)
                 PROVE  Retired(l)' /\ ~record'[l].active /\ leases'[l[1]] # l[2]
      OBVIOUS
    <2>1. Grows(record[l], record'[l])
      BY RecordStep DEF RecordsGrow
    <2>2. record[l].op # "none"
      <3>1. record[l].op = "none" => record[l] = UnbornRecord
        BY DEF LeaseInv, BornInOrder
      <3> QED  BY <3>1 DEF Retired, UnbornRecord
    <2>3. Retired(l)'
      BY <2>1, <2>2 DEF Grows, Retired
    <2>4. ~record'[l].active
      BY <2>3 DEF LeaseInv, RecordShape, Shape, Retired
    <2>5. leases'[l[1]] # l[2]
      <3> SUFFICES ASSUME leases'[l[1]] = l[2] PROVE FALSE
        OBVIOUS
      <3>1. l[1] \in Pid /\ l[2] # 0 /\ l = <<l[1], l[2]>>
        BY LeasePairs
      <3>2. ~Retired(l)'
        BY <3>1 DEF LeaseInv, MappedIsLive, Live, Retired
      <3> QED  BY <2>3, <3>2
    <2> QED  BY <2>3, <2>4, <2>5
  <1>2. Spec => [](TypeOK /\ LeaseInv)
    BY LeaseInit, LeaseStep, TypeCorrect, PTL DEF Spec
  <1> QED  BY <1>1, <1>2, PTL DEF Spec, RetiredForever

\* What the stage of a lease says of its record.
StageFits(l) ==
    /\ LeaseStage(l) \in {"unborn", "live", "retired", "gone"}
    /\ LeaseStage(l) = "live" <=> Live(l)
    /\ LeaseStage(l) = "unborn" <=> record[l].op = "none"
    /\ LeaseStage(l) = "retired" <=> record[l].release = "waiting"

StagesFit == \A l \in Lease : StageFits(l)

LEMMA Stages == TypeOK /\ LeaseInv => StagesFit
  <1> SUFFICES ASSUME TypeOK, LeaseInv, NEW l \in Lease PROVE StageFits(l)
    BY DEF StagesFit
  <1>1. record[l].release \in {"none", "waiting", "done"}
    BY DEF TypeOK, LeaseRecord
  <1>2. record[l].op = "none" => record[l].release = "none"
    <2>1. record[l].op = "none" => record[l] = UnbornRecord
      BY DEF LeaseInv, BornInOrder
    <2> QED  BY <2>1 DEF UnbornRecord
  <1> QED  BY <1>1, <1>2 DEF StageFits, LeaseStage, Live, Retired

LEMMA StagesNext == TypeOK' /\ LeaseInv' => StagesFit'
  BY Stages, PTL

\* Every step of the manager is a step of the abstract life cycle: stages only
\* move forward, leases are born in order, and at most one lease of a wanted pid
\* is live.
LEMMA StepRefines ==
    TypeOK /\ LeaseInv /\ TypeOK' /\ LeaseInv' /\ [Next]_vars => Lifecycle!Evolve
  <1> SUFFICES ASSUME TypeOK, LeaseInv, TypeOK', LeaseInv', [Next]_vars PROVE Lifecycle!Evolve
    OBVIOUS
  <1> USE LeaseAssumption
  <1>1. RecordsGrow
    BY RecordStep
  <1>2. \A l \in Lease : /\ LeaseStage(l) \in {"unborn", "live", "retired", "gone"}
                         /\ LeaseStage(l) = "live" <=> Live(l)
                         /\ LeaseStage(l) = "unborn" <=> record[l].op = "none"
                         /\ LeaseStage(l) = "retired" <=> record[l].release = "waiting"
    BY Stages DEF StagesFit, StageFits
  <1>3. \A l \in Lease : /\ LeaseStage(l)' \in {"unborn", "live", "retired", "gone"}
                         /\ LeaseStage(l)' = "live" <=> Live(l)'
                         /\ LeaseStage(l)' = "unborn" <=> record'[l].op = "none"
                         /\ LeaseStage(l)' = "retired" <=> record'[l].release = "waiting"
    BY StagesNext DEF StagesFit, StageFits
  <1>4. \A l \in Lease : LeaseStage(l)' \in Lifecycle!Successors(LeaseStage(l))
    <2> SUFFICES ASSUME NEW l \in Lease
                 PROVE  LeaseStage(l)' \in Lifecycle!Successors(LeaseStage(l))
      OBVIOUS
    <2>1. /\ Grows(record[l], record'[l])
          /\ record[l].op = "none" => record[l] = UnbornRecord
      BY <1>1 DEF RecordsGrow, LeaseInv, BornInOrder
    <2>2. CASE record'[l] = record[l]
      BY <2>2 DEF LeaseStage, Retired, Lifecycle!Successors
    <2>3. CASE record[l].op = "none" /\ record'[l] = NewRecord
      <3>1. Live(l)'
        BY <2>3, RecordTypes DEF Live, Retired
      <3> QED  BY <1>2, <1>3, <2>3, <3>1 DEF Lifecycle!Successors
    <2>4. CASE record[l].op # "none" /\ record'[l] # record[l]
      <3>1. /\ record'[l].op # "none"
            /\ record[l].release # "none" => record'[l].release # "none"
            /\ record[l].release = "done" => record'[l].release = "done"
            /\ record[l].op = "failed" => /\ record'[l].op = "failed"
                                          /\ record[l].release = "none" => record'[l].release = "none"
        BY <2>1, <2>4 DEF Grows
      <3>2. LeaseStage(l) = "gone" => LeaseStage(l)' = "gone"
        BY <1>2, <1>3, <2>4, <3>1 DEF Live, Retired, TypeOK, LeaseRecord
      <3>3. LeaseStage(l) = "retired" => LeaseStage(l)' \in {"retired", "gone"}
        BY <1>2, <1>3, <2>4, <3>1 DEF Live, Retired
      <3> QED  BY <1>2, <1>3, <2>4, <3>1, <3>2, <3>3 DEF Lifecycle!Successors
    <2> QED  BY <2>1, <2>2, <2>3, <2>4 DEF Grows
  <1>5. \A l \in Lease : LeaseStage(l) = "unborn" /\ LeaseStage(l)' = "live" =>
                           l[2] = 1 \/ LeaseStage(<<l[1], l[2] - 1>>) # "unborn"
    <2> SUFFICES ASSUME NEW l \in Lease, LeaseStage(l) = "unborn", LeaseStage(l)' = "live",
                        l[2] # 1
                 PROVE  LeaseStage(<<l[1], l[2] - 1>>) # "unborn"
      OBVIOUS
    <2>1. /\ l[1] \in Pid /\ l[2] - 1 \in 1..MaxLease
          /\ <<l[1], l[2] - 1>> \in Lease
          /\ generation[l[1]] \in 0..MaxLease
      <3>1. l[1] \in Pid /\ l[2] \in 1..MaxLease
        BY LeasePairs
      <3>2. l[2] - 1 \in 1..MaxLease
        BY <3>1
      <3> QED  BY <3>1, <3>2, LeasePairs DEF TypeOK
    <2>2. record'[l].op # "none"
      BY <1>3
    <2>3. l[2] <= generation'[l[1]]
      BY <2>2 DEF LeaseInv, BornInOrder
    <2>4. l[2] - 1 <= generation[l[1]]
      BY <1>1, <2>1, <2>3, LeasePairs DEF RecordsGrow
    <2>5. record[<<l[1], l[2] - 1>>].op # "none"
      BY <2>1, <2>4 DEF LeaseInv, BornInOrder
    <2> QED  BY <1>2, <2>1, <2>5
  <1>6. \A l \in Lease : LeaseStage(l)' = "live" => leases'[l[1]] = l[2] /\ IsPidDesired(l[1])'
    BY <1>3 DEF LeaseInv, LiveIsMapped
  <1>7. \A k, l \in Lease :
           k[1] = l[1] /\ LeaseStage(k)' = "live" /\ LeaseStage(l)' = "live" => k = l
    BY <1>6, LeasePairs
  <1>8. \A l \in Lease : l[1] \in Pid
    BY LeasePairs
  <1>9. /\ Lifecycle!Lease = Lease
        /\ Lifecycle!Stage = {"unborn", "live", "retired", "gone"}
    BY DEF Lifecycle!Lease, Lease, Lifecycle!Stage
  <1>10. Lifecycle!LiveOnlyWhileWanted'
    BY <1>6, <1>8, <1>9 DEF Lifecycle!LiveOnlyWhileWanted
  <1>11. Lifecycle!OneLivePerPid'
    BY <1>7, <1>9 DEF Lifecycle!OneLivePerPid
  <1>12. \A l \in Lifecycle!Lease :
            [k \in Lease |-> LeaseStage(k)][l] = "unborn" /\ [k \in Lease |-> LeaseStage(k)]'[l] = "live"
              => Lifecycle!MayBeBorn(l)
    <2> SUFFICES ASSUME NEW l \in Lease, LeaseStage(l) = "unborn", LeaseStage(l)' = "live"
                 PROVE  Lifecycle!MayBeBorn(l)
      BY <1>9
    <2>1. l[2] = 1 \/ LeaseStage(<<l[1], l[2] - 1>>) # "unborn"
      BY <1>5
    <2>2. l[2] # 1 => <<l[1], l[2] - 1>> \in Lease
      <3>1. l[1] \in Pid /\ l[2] \in 1..MaxLease
        BY LeasePairs
      <3>2. l[2] # 1 => l[2] - 1 \in 1..MaxLease
        BY <3>1
      <3> QED  BY <3>1, <3>2, LeasePairs
    <2> QED  BY <2>1, <2>2 DEF Lifecycle!MayBeBorn
  <1> QED
    BY <1>3, <1>4, <1>9, <1>10, <1>11, <1>12 DEF Lifecycle!Evolve

\* The manager implements the safety part of the abstract life cycle.
THEOREM ImplementsLifecycleSafety ==
    Spec => Lifecycle!LifecycleInit /\ [][Lifecycle!Evolve]_(Lifecycle!lifecycleVars)
  <1>1. Init => Lifecycle!LifecycleInit
    <2> SUFFICES ASSUME Init PROVE Lifecycle!LifecycleInit
      OBVIOUS
    <2>1. \A l \in Lease : LeaseStage(l) = "unborn"
      BY DEF Init, UnbornRecord, LeaseStage, Retired
    <2>2. {p \in Pid : IsPidDesired(p)} = {}
      BY DEF Init, IsPidDesired
    <2> QED  BY <2>1, <2>2 DEF Lifecycle!LifecycleInit, Lifecycle!Lease, Lease
  <1>2. Spec => [](TypeOK /\ LeaseInv)
    BY LeaseInit, LeaseStep, TypeCorrect, PTL DEF Spec
  <1> QED  BY <1>1, <1>2, StepRefines, PTL DEF Spec
=============================================================================
