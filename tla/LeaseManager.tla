---------------------------- MODULE LeaseManager ----------------------------
(***************************************************************************)
(* HotReloadLeaseManager (src/hotReloadLeaseManager.ts) together with its  *)
(* transport: the lease files the injector publishes and the lease table   *)
(* of the bootstrap in the target process (src/debugpyInjector.ts).        *)
(*                                                                         *)
(* The manager is one JavaScript object: a call runs to its first await in *)
(* one step, and every continuation after an await is a step of its own.   *)
(* A LeaseRecord is named by <<pid, generation>>.  Its promise chain       *)
(* (record.operation) is the field op, its releasePromise the field        *)
(* release.  A then-callback that runs in the microtask after a promise    *)
(* settles is one step with it: nothing but microtasks runs in between.    *)
(***************************************************************************)
EXTENDS Integers

CONSTANTS Session,     \* debug session ids
          Pid,         \* target process ids
          None,        \* "no pid": a session without an entry in the map
          TTL,         \* ttlMs, in ticks
          HeartbeatDelay, \* heartbeatMs, in ticks
          MaxTime,     \* bound on the clock
          MaxLease,    \* bound on pidGenerations
          MaxCalls     \* bound on sessionGenerations (register and unregister calls)

\* The constructor rejects other values (lines 106-115).
ASSUME LeaseAssumption ==
    /\ None \notin Pid
    /\ TTL \in Nat /\ HeartbeatDelay \in Nat
    /\ 0 < HeartbeatDelay /\ HeartbeatDelay < TTL
    /\ MaxTime \in Nat /\ MaxLease \in Nat /\ MaxCalls \in Nat

VARIABLES
    enabled, disposed,
    sessions,            \* sessions: the pid of every registered session
    sessionGeneration,   \* sessionGenerations
    owners,              \* ownersByPid
    leases,              \* leasesByPid: generation of the record in the map, 0 if none
    generation,          \* pidGenerations
    record,              \* the LeaseRecord of every lease
    moves,               \* registerSession calls suspended in "await detachOwner"
    leaseFile,           \* when each lease file was last written, NoTime if there is none
    accepted,            \* _hot_reload_leases of the targets
    now,                 \* Date.now()
    intent               \* history: the pid each session's latest call asked for

managerVars == <<enabled, disposed, sessions, sessionGeneration, owners, leases,
                 generation, record, moves, intent>>
transportVars == <<leaseFile, accepted>>
vars == <<managerVars, transportVars, now>>

Lease == Pid \X (1..MaxLease)
NoLease == <<None, 0>>
NoTime == -1
Time == 0..MaxTime

Operation ==
    {"none",       \* the record does not exist yet
     "acquire",    \* transport.acquireLease has been called
     "published",  \* ... and has written the lease file
     "acked",      \* ... and the target has accepted the lease
     "idle",       \* acquired; record.operation is settled
     "renew",      \* transport.renewLease has been called
     "renewed",    \* ... and has replaced the lease file
     "failed"}     \* acquireLease rejected

LeaseRecord ==
    [op        : Operation,
     active    : BOOLEAN,
     release   : {"none", "waiting", "done"},  \* releasePromise; retired iff not "none"
     leaked    : BOOLEAN,   \* an unlink of the lease file failed
     restart   : BOOLEAN,   \* restartExpiredLease awaits the release
     expiresAt : 0..(MaxTime + TTL),
     timer     : {NoTime} \cup (0..(MaxTime + TTL))]   \* due time of the heartbeat

Move == [session : Session, pid : Pid, gen : 1..MaxCalls, await : Lease \cup {NoLease}]

TypeOK ==
    /\ enabled \in BOOLEAN
    /\ disposed \in BOOLEAN
    /\ sessions \in [Session -> Pid \cup {None}]
    /\ sessionGeneration \in [Session -> 0..MaxCalls]
    /\ owners \in [Pid -> SUBSET Session]
    /\ leases \in [Pid -> 0..MaxLease]
    /\ generation \in [Pid -> 0..MaxLease]
    /\ record \in [Lease -> LeaseRecord]
    /\ moves \in SUBSET Move
    /\ leaseFile \in [Lease -> {NoTime} \cup Time]
    /\ accepted \in SUBSET Lease
    /\ now \in Time
    /\ intent \in [Session -> Pid \cup {None}]

UnbornRecord ==
    [op |-> "none", active |-> FALSE, release |-> "none", leaked |-> FALSE,
     restart |-> FALSE, expiresAt |-> 0, timer |-> NoTime]

NewRecord == [UnbornRecord EXCEPT !.op = "acquire"]

Init ==
    /\ enabled \in BOOLEAN
    /\ disposed = FALSE
    /\ sessions = [s \in Session |-> None]
    /\ sessionGeneration = [s \in Session |-> 0]
    /\ owners = [p \in Pid |-> {}]
    /\ leases = [p \in Pid |-> 0]
    /\ generation = [p \in Pid |-> 0]
    /\ record = [l \in Lease |-> UnbornRecord]
    /\ moves = {}
    /\ leaseFile = [l \in Lease |-> NoTime]
    /\ accepted = {}
    /\ now = 0
    /\ intent = [s \in Session |-> None]

-----------------------------------------------------------------------------
(* Predicates of the code. *)

Retired(l) == record[l].release # "none"

IsPidDesired(p) == ~disposed /\ enabled /\ owners[p] # {}

\* Mutant: a wanted pid is taken for a wanted record.
PidOfRecordDesired(l) == IsPidDesired(l[1])

IsRecordDesired(l) ==
    /\ ~Retired(l)
    /\ leases[l[1]] = l[2]
    /\ generation[l[1]] = l[2]
    /\ IsPidDesired(l[1])

ActiveLeases ==
    {l \in Lease : /\ record[l].active
                   /\ ~Retired(l)
                   /\ record[l].expiresAt > now
                   /\ IsRecordDesired(l)}

Smaller(a, b) == IF a < b THEN a ELSE b
Larger(a, b) == IF a < b THEN b ELSE a

\* Mutant: the delay counts from the expiry.
HeartbeatDueLate(expiry) == expiry + HeartbeatDelay

\* When the timer armed now for a lease expiring at expiry fires.
HeartbeatDue(expiry) == now + Smaller(HeartbeatDelay, Larger(1, expiry - now))

\* Mutant: no timer for a lease that is about to expire.
ScheduleUnlessExpiring(r) ==
    IF r.expiresAt - now <= HeartbeatDelay THEN r ELSE [r EXCEPT !.timer = HeartbeatDue(r.expiresAt)]

\* scheduleHeartbeat; all its callers have checked that the record is desired.
ScheduleHeartbeat(r) == [r EXCEPT !.timer = HeartbeatDue(r.expiresAt)]

-----------------------------------------------------------------------------
(* Effects shared by several calls. *)

\* ensureLease for a set of desired pids: a pid whose record is still in the
\* map keeps it, the others start a new generation.
EnsureLeases(P) ==
    LET absent == {p \in P : leases[p] = 0 \/ Retired(<<p, leases[p]>>)}
        Starts(l) == l[1] \in absent /\ l[2] = generation[l[1]] + 1
    IN /\ \A p \in absent : generation[p] < MaxLease
       /\ generation' = [p \in Pid |-> IF p \in absent THEN generation[p] + 1 ELSE generation[p]]
       /\ leases' = [p \in Pid |-> IF p \in absent THEN generation[p] + 1 ELSE leases[p]]
       /\ record' = [l \in Lease |-> IF Starts(l) THEN NewRecord ELSE record[l]]

RetiredRecord(r) ==
    IF r.release = "none"
      THEN [r EXCEPT !.release = "waiting", !.active = FALSE, !.timer = NoTime]
      ELSE r

\* retireLease for a set of records.
RetireLeases(L) ==
    /\ record' = [l \in Lease |-> IF l \in L THEN RetiredRecord(record[l]) ELSE record[l]]
    /\ leases' = [p \in Pid |-> IF <<p, leases[p]>> \in L THEN 0 ELSE leases[p]]
    /\ UNCHANGED generation

MappedLeases == {l \in Lease : leases[l[1]] = l[2]}

\* Mutant: looks at the owners before removing s.
LeaseLeftUnowned(s, p) ==
    IF owners[p] = {} /\ leases[p] # 0 THEN <<p, leases[p]>> ELSE NoLease

\* The lease detachOwner retires (and awaits) when s leaves p.
LeaseLeft(s, p) ==
    IF owners[p] \subseteq {s} /\ leases[p] # 0 THEN <<p, leases[p]>> ELSE NoLease

DetachOwner(s, p) ==
    /\ sessions' = [sessions EXCEPT ![s] = None]
    /\ owners' = [owners EXCEPT ![p] = @ \ {s}]
    /\ RetireLeases({LeaseLeft(s, p)})

AttachOwner(s, p) ==
    /\ sessions' = [sessions EXCEPT ![s] = p]
    /\ owners' = [owners EXCEPT ![p] = @ \cup {s}]

EnsureIfEnabled(p) ==
    IF enabled THEN EnsureLeases({p}) ELSE UNCHANGED <<generation, leases, record>>

NextSessionGeneration(s) ==
    /\ sessionGeneration[s] < MaxCalls
    /\ sessionGeneration' = [sessionGeneration EXCEPT ![s] = @ + 1]

-----------------------------------------------------------------------------
(* Calls of the extension. *)

\* registerSession of a new session, or of one that stays at its pid.
RegisterSession(s, p) ==
    /\ ~disposed
    /\ sessions[s] \in {None, p}
    /\ NextSessionGeneration(s)
    /\ AttachOwner(s, p)
    /\ EnsureIfEnabled(p)
    /\ intent' = [intent EXCEPT ![s] = p]
    /\ UNCHANGED <<enabled, disposed, moves, transportVars, now>>

\* registerSession of a session that moves to another pid, up to its await.
MoveSession(s, p) ==
    /\ ~disposed
    /\ sessions[s] \notin {None, p}
    /\ NextSessionGeneration(s)
    /\ DetachOwner(s, sessions[s])
    /\ moves' = moves \cup {[session |-> s, pid |-> p, gen |-> sessionGeneration[s] + 1,
                             await |-> LeaseLeft(s, sessions[s])]}
    /\ intent' = [intent EXCEPT ![s] = p]
    /\ UNCHANGED <<enabled, disposed, transportVars, now>>

\* Mutants: one of the two checks after the await is missing.
MoveIsLatest(m) == sessionGeneration[m.session] = m.gen
MoveIsUsable(m) == ~disposed

MoveIsCurrent(m) == ~disposed /\ sessionGeneration[m.session] = m.gen

\* The rest of that call once the lease it left has been released.
FinishMove(m) ==
    /\ m \in moves
    /\ m.await # NoLease => record[m.await].release = "done"
    /\ moves' = moves \ {m}
    /\ IF MoveIsCurrent(m)
         THEN AttachOwner(m.session, m.pid) /\ EnsureIfEnabled(m.pid)
         ELSE UNCHANGED <<sessions, owners, generation, leases, record>>
    /\ UNCHANGED <<enabled, disposed, sessionGeneration, transportVars, now, intent>>

UnregisterSession(s) ==
    /\ NextSessionGeneration(s)
    /\ intent' = [intent EXCEPT ![s] = None]
    /\ IF sessions[s] = None
         THEN UNCHANGED <<sessions, owners, generation, leases, record>>
         ELSE DetachOwner(s, sessions[s])
    /\ UNCHANGED <<enabled, disposed, moves, transportVars, now>>

Reconcile ==
    /\ ~disposed
    /\ enabled
    /\ EnsureLeases({p \in Pid : owners[p] # {}})
    /\ UNCHANGED <<enabled, disposed, sessions, sessionGeneration, owners, moves,
                   transportVars, now, intent>>

Enable ==
    /\ ~disposed
    /\ enabled' = TRUE
    /\ EnsureLeases({p \in Pid : owners[p] # {}})
    /\ UNCHANGED <<disposed, sessions, sessionGeneration, owners, moves,
                   transportVars, now, intent>>

Disable ==
    /\ ~disposed
    /\ enabled' = FALSE
    /\ RetireLeases(MappedLeases)
    /\ UNCHANGED <<disposed, sessions, sessionGeneration, owners, moves,
                   transportVars, now, intent>>

\* Only sessions in the map get a new generation: one in the middle of a move
\* is not in it.
Dispose ==
    /\ ~disposed
    /\ \A s \in Session : sessions[s] # None => sessionGeneration[s] < MaxCalls
    /\ disposed' = TRUE
    /\ enabled' = FALSE
    /\ sessionGeneration' =
         [s \in Session |-> IF sessions[s] # None THEN sessionGeneration[s] + 1
                                                  ELSE sessionGeneration[s]]
    /\ sessions' = [s \in Session |-> None]
    /\ owners' = [p \in Pid |-> {}]
    /\ RetireLeases(MappedLeases)
    /\ intent' = [s \in Session |-> None]
    /\ UNCHANGED <<moves, transportVars, now>>

-----------------------------------------------------------------------------
(* The transport: the injector's files and the target's lease table. *)

OnlyRecord == UNCHANGED <<enabled, disposed, sessions, sessionGeneration, owners, moves, intent>>

SetRecord(l, r) ==
    /\ record' = [record EXCEPT ![l] = r]
    /\ UNCHANGED <<leases, generation>>

\* acquireHotReloadLease: the lease file is in place, the control request is sent.
PublishLease(l) ==
    /\ record[l].op = "acquire"
    /\ SetRecord(l, [record[l] EXCEPT !.op = "published"])
    /\ leaseFile' = [leaseFile EXCEPT ![l] = now]
    /\ OnlyRecord
    /\ UNCHANGED <<accepted, now>>

Fresh(l) == leaseFile[l] # NoTime /\ now - leaseFile[l] <= TTL

\* Mutant: a lease file that is gone does not count as expired.
StaleFiles(p, T) == {l \in T : l[1] = p /\ leaseFile[l] # NoTime /\ ~Fresh(l)}

\* The leases the bootstrap of pid p forgets when it looks at table T, and
\* whose files it removes.
Stale(p, T) == {l \in T : l[1] = p /\ ~Fresh(l)}

Prune(p, T) ==
    /\ accepted' = T \ Stale(p, T)
    /\ leaseFile' = [l \in Lease |-> IF l \in Stale(p, T) THEN NoTime ELSE leaseFile[l]]

\* _acquire_hot_reload_lease in the target.  A request whose sender gave up
\* may still be handled.
TargetAccepts(l) ==
    /\ record[l].op \in {"published", "failed"}
    /\ Fresh(l)
    /\ Prune(l[1], accepted \cup {l})
    /\ IF record[l].op = "published"
         THEN SetRecord(l, [record[l] EXCEPT !.op = "acked"])
         ELSE UNCHANGED <<record, leases, generation>>
    /\ OnlyRecord
    /\ UNCHANGED now

\* Every tick of the target's watcher, and every look at the table.
TargetPrunes(p) ==
    /\ Stale(p, accepted) # {}
    /\ Prune(p, accepted)
    /\ UNCHANGED <<managerVars, now>>

\* acquireLease resolved and record.ready runs: a record nobody wants any more
\* is retired, the others become active and get their heartbeat.
AcquireOk(l) ==
    /\ record[l].op = "acked"
    /\ IF IsRecordDesired(l)
         THEN SetRecord(l, ScheduleHeartbeat([record[l] EXCEPT !.op = "idle", !.active = TRUE,
                                                               !.expiresAt = now + TTL]))
         ELSE /\ record' = [record EXCEPT ![l] = RetiredRecord([@ EXCEPT !.op = "idle"])]
              /\ leases' = [leases EXCEPT ![l[1]] = IF @ = l[2] THEN 0 ELSE @]
              /\ UNCHANGED generation
    /\ OnlyRecord
    /\ UNCHANGED <<transportVars, now>>

\* acquireLease rejected: its own lease file is removed (or could not be), and
\* the record leaves the map.
AcquireFails(l) ==
    /\ record[l].op \in {"acquire", "published", "acked"}
    /\ \E leak \in {FALSE, leaseFile[l] # NoTime} :
         /\ record' = [record EXCEPT ![l].op = "failed", ![l].leaked = leak]
         /\ leaseFile' = IF leak THEN leaseFile ELSE [leaseFile EXCEPT ![l] = NoTime]
    /\ leases' = [leases EXCEPT ![l[1]] = IF @ = l[2] THEN 0 ELSE @]
    /\ OnlyRecord
    /\ UNCHANGED <<generation, accepted, now>>

\* restartExpiredLease up to its await.
RetireExpired(l, r) ==
    /\ record' = [record EXCEPT ![l] = RetiredRecord([r EXCEPT !.restart = TRUE])]
    /\ leases' = [leases EXCEPT ![l[1]] = 0]
    /\ UNCHANGED generation

\* The heartbeat timer fires.
Heartbeat(l) ==
    /\ record[l].timer # NoTime
    /\ now >= record[l].timer
    /\ LET r == [record[l] EXCEPT !.timer = NoTime]
       IN \/ ~IsRecordDesired(l) /\ SetRecord(l, r)
          \/ IsRecordDesired(l) /\ now >= r.expiresAt /\ RetireExpired(l, r)
          \/ IsRecordDesired(l) /\ now < r.expiresAt /\ SetRecord(l, [r EXCEPT !.op = "renew"])
    /\ OnlyRecord
    /\ UNCHANGED <<transportVars, now>>

\* renewHotReloadLease renames a fresh file over the lease file, whether or not
\* one is there.
RenewPublishes(l) ==
    /\ record[l].op = "renew"
    /\ SetRecord(l, [record[l] EXCEPT !.op = "renewed"])
    /\ leaseFile' = [leaseFile EXCEPT ![l] = now]
    /\ OnlyRecord
    /\ UNCHANGED <<accepted, now>>

RenewOk(l) ==
    /\ record[l].op = "renewed"
    /\ SetRecord(l, IF IsRecordDesired(l)
                      THEN ScheduleHeartbeat([record[l] EXCEPT !.op = "idle",
                                                               !.expiresAt = now + TTL])
                      ELSE [record[l] EXCEPT !.op = "idle"])
    /\ OnlyRecord
    /\ UNCHANGED <<transportVars, now>>

\* renewLease rejected, before or after its rename.
RenewFails(l) ==
    /\ record[l].op \in {"renew", "renewed"}
    /\ LET r == [record[l] EXCEPT !.op = "idle"]
       IN \/ ~IsRecordDesired(l) /\ SetRecord(l, r)
          \/ IsRecordDesired(l) /\ now >= r.expiresAt /\ RetireExpired(l, r)
          \/ IsRecordDesired(l) /\ now < r.expiresAt /\ SetRecord(l, ScheduleHeartbeat(r))
    /\ OnlyRecord
    /\ UNCHANGED <<transportVars, now>>

Acquired(l) == record[l].op \in {"idle", "renew", "renewed"}

\* Mutants: the release does not wait for the operation in flight; it waits for
\* a successful one.
ReleaseRunsAtOnce(l) == record[l].release = "waiting"
ReleaseAfterAcquire(l) == record[l].release = "waiting" /\ record[l].op = "idle"

\* The release is chained behind record.operation.
ReleaseMayRun(l) ==
    /\ record[l].release = "waiting"
    /\ record[l].op \in {"idle", "failed"}

\* Nothing to do if the lease was never acquired; a failing unlink is reported
\* and forgotten.
ReleaseLease(l) ==
    /\ ReleaseMayRun(l)
    /\ \/ /\ ~Acquired(l)
          /\ SetRecord(l, [record[l] EXCEPT !.release = "done"])
          /\ UNCHANGED leaseFile
       \/ /\ Acquired(l)
          /\ \E leak \in {FALSE, leaseFile[l] # NoTime} :
               /\ SetRecord(l, [record[l] EXCEPT !.release = "done", !.leaked = leak])
               /\ leaseFile' = IF leak THEN leaseFile ELSE [leaseFile EXCEPT ![l] = NoTime]
    /\ OnlyRecord
    /\ UNCHANGED <<accepted, now>>

\* restartExpiredLease after its await.
RestartLease(l) ==
    /\ record[l].restart
    /\ record[l].release = "done"
    /\ LET p == l[1]
           cleared == [record EXCEPT ![l].restart = FALSE]
           again == IsPidDesired(p) /\ leases[p] = 0
           g == generation[p] + 1
       IN /\ again => generation[p] < MaxLease
          /\ record' = IF again THEN [cleared EXCEPT ![<<p, g>>] = NewRecord] ELSE cleared
          /\ generation' = IF again THEN [generation EXCEPT ![p] = g] ELSE generation
          /\ leases' = IF again THEN [leases EXCEPT ![p] = g] ELSE leases
    /\ OnlyRecord
    /\ UNCHANGED <<transportVars, now>>

Tick ==
    /\ now < MaxTime
    /\ now' = now + 1
    /\ UNCHANGED <<managerVars, transportVars>>

-----------------------------------------------------------------------------

Settle(l) ==
    \/ PublishLease(l)
    \/ AcquireOk(l)
    \/ AcquireFails(l)
    \/ RenewPublishes(l)
    \/ RenewOk(l)
    \/ RenewFails(l)

Next ==
    \/ \E s \in Session, p \in Pid : RegisterSession(s, p) \/ MoveSession(s, p)
    \/ \E m \in moves : FinishMove(m)
    \/ \E s \in Session : UnregisterSession(s)
    \/ Reconcile
    \/ Enable
    \/ Disable
    \/ Dispose
    \/ \E l \in Lease : \/ Settle(l)
                        \/ TargetAccepts(l)
                        \/ Heartbeat(l)
                        \/ ReleaseLease(l)
                        \/ RestartLease(l)
    \/ \E p \in Pid : TargetPrunes(p)
    \/ Tick

Spec == Init /\ [][Next]_vars

(***************************************************************************)
(* Every transport promise settles (file operations finish, the control    *)
(* request has a timeout), settled promises run their callbacks, and the   *)
(* target's watcher keeps looking at its table every 0.3 s.  Timers and    *)
(* the clock are not assumed to advance.                                   *)
(***************************************************************************)
FairSpec ==
    /\ Spec
    /\ \A l \in Lease : WF_vars(Settle(l)) /\ WF_vars(ReleaseLease(l))
    /\ \A p \in Pid : WF_vars(TargetPrunes(p))
-----------------------------------------------------------------------------
(* Properties. *)

Live(l) == record[l].op \notin {"none", "failed"} /\ ~Retired(l)

\* The two maps a session is kept in agree: a pid's owners are exactly the
\* sessions registered at it, in the middle of moves and concurrent calls too
\* (sessions and ownersByPid of the manager).
OwnersMatchSessions ==
    \A p \in Pid : owners[p] = {s \in Session : sessions[s] = p}

\* However register, unregister and dispose calls of a session overlap, the
\* session ends where its latest call put it; only that call itself may still
\* be on its way (the session generations of registerSession).
LatestCallWins ==
    \A s \in Session :
        \/ sessions[s] = intent[s]
        \/ \E m \in moves : m.session = s /\ m.gen = sessionGeneration[s]

\* A lease that is being acquired or held is the one the map knows, so that a
\* pid never has two of them, and it is wanted: the feature is on and the pid
\* has an owner.  No late acquire or restart leaves a stray lease behind.
LiveLeaseIsCurrentAndWanted ==
    \A l \in Lease : Live(l) => leases[l[1]] = l[2] /\ IsPidDesired(l[1])

\* The heartbeat of an active lease never dies: its timer is armed or a renewal
\* is in flight, whatever renewals failed (scheduleHeartbeat, heartbeat).
HeartbeatAlive ==
    \A l \in Lease :
        record[l].active => (record[l].timer # NoTime) # (record[l].op \in {"renew", "renewed"})

\* A release is the last thing that happens to a lease file: once it has run,
\* or the acquire has failed, no renewal or late publication brings the file
\* back (the operation chain of retireLease), unless its removal failed.
ReleasedLeaseLeavesNoFile ==
    \A l \in Lease :
        (record[l].release = "done" \/ record[l].op = "failed") /\ ~record[l].leaked
            => leaseFile[l] = NoTime

\* dispose is final for the manager's maps: no suspended registerSession or
\* restart registers a session or starts a lease afterwards.
DisposedIsEmpty ==
    disposed => /\ \A s \in Session : sessions[s] = None
                /\ \A p \in Pid : owners[p] = {} /\ leases[p] = 0

\* A retired lease stays retired: it is never active or current again
\* ("a late acquire can only release its stale lease").
RetiredForever ==
    [][\A l \in Lease :
         Retired(l) => /\ Retired(l)'
                       /\ ~record'[l].active
                       /\ leases'[l[1]] # l[2]]_vars

\* The manager implements the abstract lease life cycle, including that the
\* release of every retired lease completes.
LeaseStage(l) ==
    CASE record[l].release = "waiting" -> "retired"
      [] record[l].release = "done" \/ (record[l].op = "failed" /\ ~Retired(l)) -> "gone"
      [] record[l].op = "none" -> "unborn"
      [] OTHER -> "live"

Lifecycle == INSTANCE LeaseLifecycle
    WITH wanted <- {p \in Pid : IsPidDesired(p)},
         stage  <- [l \in Lease |-> LeaseStage(l)]

ImplementsLifecycle == Lifecycle!LifecycleSpec

\* Turning the feature off, ending the last session or disposing ends the
\* suppression in the target: a retired lease disappears from the target's
\* table, unless its file could not be removed (then its TTL ends it).
RetiredLeaseLeavesTarget ==
    \A l \in Lease : Retired(l) ~> (l \notin accepted \/ record[l].leaked)

\* getActiveLeases: "Return only fully acquired, unexpired lease generations."
\* An active lease whose file has been renewed in time is one the target knows.
ActiveLeaseIsHeldByTarget == \A l \in ActiveLeases : Fresh(l) => l \in accepted
=============================================================================
