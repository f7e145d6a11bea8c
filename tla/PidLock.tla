------------------------------ MODULE PidLock ------------------------------
(***************************************************************************)
(* The lock that keeps a target process to one debug session, whatever     *)
(* engine or VS Code window it is in (src/extension.ts): the lock file and *)
(* the claim guard file of one target PID, shared by all windows, and each *)
(* window's claimedSessionsByPid and pendingPidOwnershipFinalizations.     *)
(*                                                                         *)
(* A window is one extension host process.  Its JavaScript runs a turn     *)
(* from one timer or event to the next without interruption by its other   *)
(* activities, but other windows read and write the files in between; a    *)
(* step here is what happens between two awaits, or between a check of     *)
(* the guard file and its removal.  An activity that wants the guard is a  *)
(* thread: the start of a session, or the window's chain of removals.      *)
(* Every session has an owner token of its own, so the session stands for  *)
(* it.  The target process is alive throughout.                            *)
(***************************************************************************)
EXTENDS Integers, Sequences, Functions

CONSTANTS Window,      \* extension hosts
          Session,     \* attach attempts: a debug session and its owner token
          Home,        \* the window of every session
          ByCommand,   \* sessions the attach command starts
          None,
          Dead,        \* windows that have died before and left their files
          DiesInside   \* may a window die while it holds the guard?

ASSUME PidLockAssumption ==
    /\ Home \in [Session -> Window]
    /\ ByCommand \subseteq Session
    /\ Session \cap Window = {}
    /\ None \notin Session \cup Window
    /\ Dead \subseteq Window
    /\ DiesInside \in BOOLEAN

VARIABLES
    alive,      \* windows that are running
    lock,       \* debug-session.<pid>.lock
    guard,      \* debug-session.<pid>.claim: the thread that created it
    claims,     \* claimedSessionsByPid of every window
    chain,      \* pendingPidOwnershipFinalizations of every window, oldest first
    finalizing, \* debugSessionFinalizations
    flow,       \* how far the start of each session has come
    at,         \* where each thread is in its guarded section
    older,      \* sessions that have slept since before the lock was written
    behind,     \* removals a claim still waits for
    saw,        \* reservePidLock: the lock a claim has read
    previous,   \* reservation.previous of the factory's claim
    granted,    \* the outcome a thread leaves its guarded section with
    adapter,    \* the debug adapter of each session, as its tracker knows it
    terminated, \* sessions whose terminate event has been delivered
    abandoned   \* history: has the ownership of a session been given up?

fileVars == <<lock, guard>>
sessionVars == <<flow, behind, saw, previous, granted, adapter, terminated>>
vars == <<alive, fileVars, claims, chain, finalizing, sessionVars, at, older, abandoned>>

Thread == Session \cup Window

WindowOf(t) == IF t \in Session THEN Home[t] ELSE t

\* A lock without session id (named FALSE) is the attach command's reservation.
Lock == [owner : Session, named : BOOLEAN, phase : {"pending", "active"}, expired : BOOLEAN]

NoLock == [owner |-> None, named |-> FALSE, phase |-> "none", expired |-> FALSE]

\* An entry of the chain; queued if a queued finalization awaits it.
Removal == [session : Session, queued : BOOLEAN]

Flow ==
    {"new",
     "cleaning",    \* attach command: removeStalePidLock
     "checked",     \* ... its preflight has passed
     "reserving",   \* attach command: reservePidLock without a session
     "reserved",    \* startDebugging has been called
     "claiming",    \* descriptor factory: sessionLockGuard.claim
     "claimed",     \* ... and activateEndpoint
     "releasing",   \* activation failed: claim.release
     "ready",       \* the descriptor has been returned
     "reclaiming",  \* start event: sessionLockGuard.claim again
     "promoting",   \* ... and updatePidLockIf
     "active",      \* its lock is active
     "unlocked",    \* the start event's handler has thrown
     "stopping",    \* stopDebugging has been called
     "rejected",    \* the descriptor factory has returned null
     "over"}

Reserving == {"reserving", "claiming", "reclaiming"}

Place ==
    {"idle",
     "await",     \* claim: waitForPendingPidOwnershipFinalization
     "reserve",   \* reservePidLock: the same once more
     "try",       \* acquirePidClaimGuard is about to create the guard file
     "guard",     \* ... sleeps 10 ms because somebody holds the guard
     "unlink",    \* ... has found a stale guard and is about to remove it
     "section",   \* holds the guard
     "judge",     \* reservePidLock: isPidLockLive of another owner's lock
     "leave"}     \* about to release the guard

Inside == {"section", "judge", "leave"}

MidTurn == Inside \cup {"try", "unlink"}

TypeOK ==
    /\ alive \in SUBSET Window
    /\ lock \in Lock \cup {NoLock}
    /\ guard \in Thread \cup {None}
    /\ claims \in [Window -> Session \cup {None}]
    /\ chain \in [Window -> Seq(Removal)]
    /\ finalizing \in SUBSET Session
    /\ flow \in [Session -> Flow]
    /\ at \in [Thread -> Place]
    /\ older \in SUBSET Session
    /\ behind \in [Session -> Nat]
    /\ saw \in [Session -> Lock \cup {NoLock}]
    /\ previous \in [Session -> Lock \cup {NoLock}]
    /\ granted \in [Session -> BOOLEAN]
    /\ adapter \in [Session -> {"starting", "failed", "ended"}]
    /\ terminated \in SUBSET Session
    /\ abandoned \in [Session -> {"no", "asked", "done", "failed"}]

Init ==
    /\ alive = Window \ Dead
    /\ lock \in {NoLock} \cup {l \in Lock : Home[l.owner] \in Dead}
    /\ guard \in {None} \cup {t \in Thread : DiesInside /\ WindowOf(t) \in Dead}
    /\ claims = [w \in Window |-> None]
    /\ chain = [w \in Window |-> <<>>]
    /\ finalizing = {}
    /\ flow = [s \in Session |-> IF Home[s] \in Dead THEN "over" ELSE "new"]
    /\ at = [t \in Thread |-> "idle"]
    /\ older = {}
    /\ behind = [s \in Session |-> 0]
    /\ saw = [s \in Session |-> NoLock]
    /\ previous = [s \in Session |-> NoLock]
    /\ granted = [s \in Session |-> FALSE]
    /\ adapter = [s \in Session |-> "starting"]
    /\ terminated = {}
    /\ abandoned = [s \in Session |-> "no"]

-----------------------------------------------------------------------------
(* Turns, and what the guarded sections look at. *)

\* A thread goes on: its window lives and is not in another thread's turn.
MayRun(t) ==
    /\ WindowOf(t) \in alive
    /\ \A u \in Thread : at[u] \in MidTurn /\ WindowOf(u) = WindowOf(t) => u = t

Waiting == {"await", "reserve"}

\* A window is ready for the next event or timer: no thread is in the middle of
\* its turn, and no claim has its removals behind it.
BetweenTurns(w) ==
    /\ w \in alive
    /\ \A t \in Thread : at[t] \in MidTurn => WindowOf(t) # w
    /\ \A s \in Session : at[s] \in Waiting /\ Home[s] = w => behind[s] > 0

Move(t, place) == at' = [at EXCEPT ![t] = place]

Advance(s, stage) == flow' = [flow EXCEPT ![s] = stage]

\* What every window can tell of a lock from its file.
LiveOnDisk(l) == IF l.phase = "pending" THEN ~l.expired ELSE Home[l.owner] \in alive

\* Mutant: only the window's own claims count.
ClaimedHere(w, l) == l.named /\ claims[w] = l.owner

\* isPidLockLive, asked by window w.
IsPidLockLive(w, l) == LiveOnDisk(l) \/ (l.named /\ claims[w] = l.owner)

\* Mutant: the lock is in the name of the window.
LockOfWindow(s) ==
    [owner |-> Home[s], named |-> TRUE, phase |-> "pending", expired |-> FALSE]

PendingLock(s) ==
    [owner |-> s, named |-> flow[s] # "reserving", phase |-> "pending", expired |-> FALSE]

\* Mutant: any lock of the same window is one's own.
SameWorkspace(s) == lock # NoLock /\ Home[lock.owner] = Home[s]

\* sameOwner of reservePidLock.
SameOwner(s) == lock.owner = s

-----------------------------------------------------------------------------
(* acquirePidClaimGuard. *)

GuardUnused == UNCHANGED <<alive, lock, claims, chain, finalizing, sessionVars, abandoned>>

\* The thread looks at the guard file, at once or when its sleep is over.
Polls(t) ==
    \/ at[t] = "try" /\ MayRun(t)
    \/ at[t] = "guard" /\ BetweenTurns(WindowOf(t))

AcquireGuard(t) ==
    /\ guard = None
    /\ Polls(t)
    /\ guard' = t
    /\ Move(t, "section")
    /\ GuardUnused

\* Mutant: a guard that is held is taken for stale.
GuardIsHeld == guard # None

\* The guard's owner is dead.
GuardIsStale == guard # None /\ WindowOf(guard) \notin alive

\* The guard was stale when it was read, and again when its token was compared.
SeeStaleGuard(t) ==
    /\ GuardIsStale
    /\ Polls(t)
    /\ Move(t, "unlink")
    /\ UNCHANGED guard
    /\ GuardUnused

SeeHeldGuard(t) ==
    /\ at[t] = "try"
    /\ Polls(t)
    /\ guard # None
    /\ ~GuardIsStale
    /\ Move(t, "guard")
    /\ UNCHANGED guard
    /\ GuardUnused

\* unlinkSync removes the file that is there now.
UnlinkGuard(t) ==
    /\ at[t] = "unlink"
    /\ MayRun(t)
    /\ guard' = None
    /\ Move(t, "try")
    /\ GuardUnused

\* Who sleeps, or is about to look at the guard once more.
Asleep == {s \in Session : at[s] \in {"await", "reserve", "guard", "try", "unlink"}}

\* Mutant: the guard is waited for without limit.
SleepIsLong == older' = {}

\* A bound on time: a session that sleeps, for the guard (500 times 10 ms) or for
\* the removals of its window (which take as long each, at most), goes on or gives up
\* before a lock that was written meanwhile expires.
SleepIsShort ==
    older' = IF lock' # lock /\ lock'.phase = "pending" /\ ~lock'.expired
             THEN Asleep' ELSE older \cap Asleep'

\* 30 s after it was written, PENDING_LOCK_TTL_MS, a pending lock expires.  In a
\* guarded section that is no different from doing so before or after it: the
\* section judges the lock once.
PendingExpires ==
    /\ lock.phase = "pending"
    /\ ~lock.expired
    /\ older = {}
    /\ \A t \in Thread : at[t] \notin MidTurn
    /\ lock' = [lock EXCEPT !.expired = TRUE]
    /\ UNCHANGED <<alive, guard, claims, chain, finalizing, sessionVars, at, abandoned>>

\* Mutant: the guard is left behind.
KeepGuard(t) == UNCHANGED guard

\* The function acquirePidClaimGuard returned: the guard goes if it is still
\* this thread's.
ReleaseGuard(t) == guard' = IF guard = t THEN None ELSE guard

-----------------------------------------------------------------------------
(* abandonPidOwnership, finalizeDebugSession. *)

Claim(s) == claims' = [claims EXCEPT ![Home[s]] = s]
Disclaim(s) == claims' = [claims EXCEPT ![Home[s]] = IF @ = s THEN None ELSE @]

QueueRemoval(s, queued) ==
    /\ chain' = [chain EXCEPT ![Home[s]] = Append(@, [session |-> s, queued |-> queued])]
    /\ abandoned' = [abandoned EXCEPT ![s] = "asked"]

\* Mutant: the first removal waits for one that is not there.
RemovalWaits(s, places) == places

\* A removal asks for the guard at once if no other is pending.
StartsRemoval(s, places) ==
    [places EXCEPT ![Home[s]] = IF chain[Home[s]] = <<>> THEN "try" ELSE @]

AbandonPidOwnership(s, queued) == Disclaim(s) /\ QueueRemoval(s, queued)

NothingAbandoned == UNCHANGED <<claims, chain, abandoned>>

\* queueDebugSessionFinalization: one finalization of a session at a time.
QueueFinalization(s) ==
    /\ finalizing' = finalizing \cup {s}
    /\ IF s \in finalizing
         THEN NothingAbandoned /\ UNCHANGED at
         ELSE AbandonPidOwnership(s, TRUE) /\ at' = StartsRemoval(s, at)

\* removePidLockIf of the oldest removal.
RemovePidLockIf(w) ==
    /\ at[w] = "section"
    /\ MayRun(w)
    /\ LET s == Head(chain[w]).session
       IN /\ lock' = IF lock.owner = s THEN NoLock ELSE lock
          /\ abandoned' = [abandoned EXCEPT ![s] = "done"]
    /\ Move(w, "leave")
    /\ UNCHANGED <<alive, guard, claims, chain, finalizing, sessionVars>>

\* The removal has settled: the next one and the claims behind it go on.
RemovalSettles(w) ==
    /\ chain' = [chain EXCEPT ![w] = Tail(@)]
    /\ behind' = [s \in Session |-> IF Home[s] = w /\ behind[s] > 0 THEN behind[s] - 1
                                                                   ELSE behind[s]]
    /\ Move(w, IF Len(chain[w]) = 1 THEN "idle" ELSE "try")
    /\ UNCHANGED <<alive, lock, claims, finalizing, flow, saw, previous, granted, adapter,
                   terminated>>

FinishRemoval(w) ==
    /\ at[w] = "leave"
    /\ MayRun(w)
    /\ ReleaseGuard(w)
    /\ RemovalSettles(w)
    /\ UNCHANGED abandoned

\* After 500 attempts the removal is logged as failed.
RemovalGivesUp(w) ==
    /\ at[w] = "guard"
    /\ BetweenTurns(w)
    /\ guard # None
    /\ RemovalSettles(w)
    /\ abandoned' = [abandoned EXCEPT ![Head(chain[w]).session] = "failed"]
    /\ UNCHANGED guard

\* A finalization is over when its removal is, and the release of its hot reload
\* lease, however long that takes.
FinalizationEnds(s) ==
    /\ s \in finalizing
    /\ BetweenTurns(Home[s])
    /\ [session |-> s, queued |-> TRUE] \notin Range(chain[Home[s]])
    /\ finalizing' = finalizing \ {s}
    /\ UNCHANGED <<alive, fileVars, claims, chain, sessionVars, at, abandoned>>

-----------------------------------------------------------------------------
(* reservePidLock, sessionLockGuard.claim. *)

\* Where a refused claim leaves the session: the start event stops it.
Refused(s) ==
    CASE flow[s] = "reclaiming" -> "stopping"
      [] flow[s] = "claiming"   -> "rejected"
      [] OTHER                  -> "over"

\* waitForPendingPidOwnershipFinalization: the removals that are pending now have
\* to settle first.
AwaitRemovals(s, place) ==
    /\ Move(s, place)
    /\ behind' = [behind EXCEPT ![s] = Len(chain[Home[s]])]

\* The outcome of a guarded section is not needed after it.
Settled(s) == granted' = [granted EXCEPT ![s] = FALSE]

\* reservePidLock does so again before it asks for the guard.
Reserve(s) ==
    AwaitRemovals(s, IF chain[Home[s]] = <<>> THEN "try" ELSE "reserve")

\* The attach command looks at the lock first; a stale one is removed.
Preflight(s) ==
    /\ s \in ByCommand
    /\ flow[s] = "new"
    /\ BetweenTurns(Home[s])
    /\ IF lock = NoLock THEN Advance(s, "checked") /\ UNCHANGED at
       ELSE IF IsPidLockLive(Home[s], lock) THEN Advance(s, "over") /\ UNCHANGED at
       ELSE Advance(s, "cleaning") /\ Move(s, "try")
    /\ UNCHANGED <<alive, fileVars, claims, chain, finalizing, behind, saw, previous, granted,
                   adapter, terminated, abandoned>>

\* removeStalePidLock, up to its await.
CleanReads(s) ==
    /\ at[s] = "section"
    /\ flow[s] = "cleaning"
    /\ MayRun(s)
    /\ Move(s, IF lock = NoLock THEN "leave" ELSE "judge")
    /\ saw' = [saw EXCEPT ![s] = lock]
    /\ UNCHANGED <<alive, fileVars, claims, chain, finalizing, flow, behind, previous, granted,
                   adapter, terminated, abandoned>>

CleanEnds(s) ==
    /\ at[s] = "leave"
    /\ flow[s] = "cleaning"
    /\ MayRun(s)
    /\ ReleaseGuard(s) /\ Move(s, "idle")
    /\ Advance(s, "checked")
    /\ UNCHANGED <<alive, lock, claims, chain, finalizing, behind, saw, previous, granted,
                   adapter, terminated, abandoned>>

\* The attach command reserves the lock before it starts the session.
Attach(s) ==
    /\ flow[s] = "checked"
    /\ BetweenTurns(Home[s])
    /\ Advance(s, "reserving")
    /\ Reserve(s)
    /\ UNCHANGED <<alive, fileVars, claims, chain, finalizing, saw, previous, granted,
                   adapter, terminated, abandoned>>

\* The descriptor factory of a session claims its target.  A session that a
\* launch configuration starts comes here without a reservation.
CreateDescriptor(s) ==
    /\ flow[s] = IF s \in ByCommand THEN "reserved" ELSE "new"
    /\ BetweenTurns(Home[s])
    /\ Advance(s, "claiming")
    /\ AwaitRemovals(s, "await")
    /\ UNCHANGED <<alive, fileVars, claims, chain, finalizing, saw, previous, granted,
                   adapter, terminated, abandoned>>

\* The in-memory check of claim.
ClaimChecks(s) ==
    /\ at[s] = "await"
    /\ behind[s] = 0
    /\ MayRun(s)
    /\ IF claims[Home[s]] \in {None, s}
         THEN Reserve(s) /\ UNCHANGED flow
         ELSE Move(s, "idle") /\ Advance(s, Refused(s)) /\ UNCHANGED behind
    /\ UNCHANGED <<alive, fileVars, claims, chain, finalizing, saw, previous, granted,
                   adapter, terminated, abandoned>>

ReserveAsks(s) ==
    /\ at[s] = "reserve"
    /\ behind[s] = 0
    /\ MayRun(s)
    /\ Move(s, "try")
    /\ UNCHANGED <<alive, fileVars, claims, chain, finalizing, sessionVars, abandoned>>

\* readLockForPid and what it leads to: the lock is written, or somebody else's
\* lock has to be judged.
ReserveReads(s) ==
    /\ at[s] = "section"
    /\ flow[s] \in Reserving
    /\ MayRun(s)
    /\ IF SameOwner(s) \/ lock = NoLock
         THEN /\ lock' = PendingLock(s)
              /\ granted' = [granted EXCEPT ![s] = TRUE]
              /\ previous' = IF flow[s] = "claiming" THEN [previous EXCEPT ![s] = lock]
                                                     ELSE previous
              /\ Move(s, "leave")
              /\ UNCHANGED saw
         ELSE /\ saw' = [saw EXCEPT ![s] = lock]
              /\ Move(s, "judge")
              /\ UNCHANGED <<lock, granted, previous>>
    /\ UNCHANGED <<alive, guard, claims, chain, finalizing, flow, behind, adapter, terminated, abandoned>>

\* After isPidLockLive: a conflict, or removeLock of whatever is there now.  A
\* claim then looks again.
Judge(s) ==
    /\ at[s] = "judge"
    /\ MayRun(s)
    /\ IF IsPidLockLive(Home[s], saw[s])
         THEN /\ granted' = [granted EXCEPT ![s] = FALSE]
              /\ Move(s, "leave")
              /\ UNCHANGED lock
         ELSE /\ lock' = NoLock
              /\ Move(s, IF flow[s] = "cleaning" THEN "leave" ELSE "section")
              /\ UNCHANGED granted
    /\ saw' = [saw EXCEPT ![s] = NoLock]
    /\ UNCHANGED <<alive, guard, claims, chain, finalizing, flow, behind, previous,
                   adapter, terminated, abandoned>>

\* The attach command ends here if it is refused, and so does a descriptor.
ReserveEnds(s) ==
    /\ at[s] = "leave"
    /\ flow[s] \in {"reserving", "claiming"}
    /\ MayRun(s)
    /\ ReleaseGuard(s) /\ Move(s, "idle")
    /\ \/ ~granted[s] /\ Advance(s, Refused(s)) /\ UNCHANGED claims
       \/ /\ granted[s] /\ flow[s] = "reserving"
          /\ Advance(s, "reserved")
          /\ UNCHANGED claims
       \/ /\ granted[s] /\ flow[s] = "claiming"
          /\ Advance(s, "claimed")
          /\ Claim(s)
    /\ Settled(s)
    /\ UNCHANGED <<alive, lock, chain, finalizing, behind, saw, previous,
                   adapter, terminated, abandoned>>

-----------------------------------------------------------------------------
(* The rest of a session's start. *)

\* activateEndpoint resolves: the descriptor is returned.
ActivationSucceeds(s) ==
    /\ flow[s] = "claimed"
    /\ BetweenTurns(Home[s])
    /\ Advance(s, "ready")
    /\ previous' = [previous EXCEPT ![s] = NoLock]
    /\ UNCHANGED <<alive, fileVars, claims, chain, finalizing, behind, saw,
                   granted, adapter, terminated, at, abandoned>>

ActivationFails(s) ==
    /\ flow[s] = "claimed"
    /\ BetweenTurns(Home[s])
    /\ Advance(s, "releasing")
    /\ Move(s, "try")
    /\ UNCHANGED <<alive, fileVars, claims, chain, finalizing, behind, saw, previous,
                   granted, adapter, terminated, abandoned>>

\* claim.release: the lock the claim found is put back.
ReleaseClaim(s) ==
    /\ at[s] = "section"
    /\ flow[s] = "releasing"
    /\ MayRun(s)
    /\ lock' = IF lock.owner = s /\ lock.named THEN previous[s] ELSE lock
    /\ previous' = [previous EXCEPT ![s] = NoLock]
    /\ Disclaim(s)
    /\ Move(s, "leave")
    /\ UNCHANGED <<alive, guard, chain, finalizing, flow, behind, saw, granted, adapter,
                   terminated, abandoned>>

ReleaseEnds(s) ==
    /\ at[s] = "leave"
    /\ flow[s] = "releasing"
    /\ MayRun(s)
    /\ ReleaseGuard(s) /\ Move(s, "idle")
    /\ Advance(s, "rejected")
    /\ UNCHANGED <<alive, lock, claims, chain, finalizing, behind, saw, previous, granted,
                   adapter, terminated, abandoned>>

\* startDebugging of the attach command resolved to false or threw.
StartRejected(s) ==
    /\ s \in ByCommand
    /\ flow[s] \in {"reserved", "rejected"}
    /\ BetweenTurns(Home[s])
    /\ Advance(s, "over")
    /\ AbandonPidOwnership(s, FALSE) /\ at' = StartsRemoval(s, at)
    /\ UNCHANGED <<alive, fileVars, finalizing, behind, saw, previous, granted, adapter,
                   terminated>>

\* onDidStartDebugSession.
StartEvent(s) ==
    /\ flow[s] = "ready"
    /\ BetweenTurns(Home[s])
    /\ IF adapter[s] = "failed"
         THEN /\ AbandonPidOwnership(s, FALSE) /\ at' = StartsRemoval(s, at)
              /\ Advance(s, "stopping")
              /\ UNCHANGED behind
         ELSE /\ NothingAbandoned
              /\ Advance(s, "reclaiming")
              /\ AwaitRemovals(s, "await")
    /\ UNCHANGED <<alive, fileVars, finalizing, saw, previous, granted, adapter, terminated>>

\* The start event's handler after its claim.
ReclaimEnds(s) ==
    /\ at[s] = "leave"
    /\ flow[s] = "reclaiming"
    /\ MayRun(s)
    /\ ReleaseGuard(s)
    /\ \/ /\ ~granted[s]
          /\ Advance(s, "stopping") /\ Move(s, "idle")
          /\ NothingAbandoned
       \/ /\ granted[s] /\ adapter[s] = "failed"
          /\ Advance(s, "stopping") /\ at' = StartsRemoval(s, [at EXCEPT ![s] = "idle"])
          /\ claims' = [claims EXCEPT ![Home[s]] = None]
          /\ QueueRemoval(s, FALSE)
       \/ /\ granted[s] /\ adapter[s] # "failed"
          /\ Advance(s, "promoting") /\ Move(s, "try")
          /\ Claim(s)
          /\ UNCHANGED <<chain, abandoned>>
    /\ Settled(s)
    /\ UNCHANGED <<alive, lock, finalizing, behind, saw, previous, adapter, terminated>>

MayPromote(s) == lock.owner = s /\ lock.named

ActiveLock(s) == [owner |-> s, named |-> TRUE, phase |-> "active", expired |-> FALSE]

\* updatePidLockIf
PromoteLock(s) ==
    /\ at[s] = "section"
    /\ flow[s] = "promoting"
    /\ MayRun(s)
    /\ granted' = [granted EXCEPT ![s] = MayPromote(s)]
    /\ lock' = IF MayPromote(s) THEN ActiveLock(s) ELSE lock
    /\ Move(s, "leave")
    /\ UNCHANGED <<alive, guard, claims, chain, finalizing, flow, behind, saw, previous,
                   adapter, terminated, abandoned>>

\* The start event's handler after the promotion.
PromoteEnds(s) ==
    /\ at[s] = "leave"
    /\ flow[s] = "promoting"
    /\ MayRun(s)
    /\ ReleaseGuard(s)
    /\ \/ /\ ~granted[s]
          /\ Advance(s, "stopping") /\ Move(s, "idle")
          /\ Disclaim(s)
          /\ UNCHANGED <<chain, abandoned>>
       \/ /\ granted[s] /\ adapter[s] = "failed"
          /\ Advance(s, "stopping") /\ at' = StartsRemoval(s, [at EXCEPT ![s] = "idle"])
          /\ AbandonPidOwnership(s, FALSE)
       \/ /\ granted[s] /\ adapter[s] # "failed"
          /\ Advance(s, "active") /\ Move(s, "idle")
          /\ NothingAbandoned
    /\ Settled(s)
    /\ UNCHANGED <<alive, lock, finalizing, behind, saw, previous, adapter, terminated>>

\* A guarded operation of a session times out: the command, the factory or the
\* handler fails.
GivesUp(s) ==
    /\ at[s] = "guard"
    /\ BetweenTurns(Home[s])
    /\ guard # None
    /\ Move(s, "idle")
    /\ Advance(s, CASE flow[s] \in {"reclaiming", "promoting"} -> "unlocked"
                     [] flow[s] \in {"claiming", "releasing"}   -> "rejected"
                     [] OTHER                                   -> "over")
    /\ UNCHANGED <<alive, fileVars, claims, chain, finalizing, behind, saw, previous,
                   granted, adapter, terminated, abandoned>>

\* The session exists for VS Code.
Running(s) == flow[s] \in {"ready", "reclaiming", "promoting", "active", "unlocked", "stopping"}

\* The tracker sees the adapter reject a startup request, or end.
AdapterEnds(s) ==
    /\ Running(s)
    /\ adapter[s] = "starting"
    /\ BetweenTurns(Home[s])
    /\ \E outcome \in {"failed", "ended"} : adapter' = [adapter EXCEPT ![s] = outcome]
    /\ QueueFinalization(s)
    /\ UNCHANGED <<alive, fileVars, flow, behind, saw, previous, granted, terminated>>

\* onDidTerminateDebugSession, which VS Code fires after the start event.
TerminateEvent(s) ==
    /\ Running(s)
    /\ flow[s] # "ready"
    /\ s \notin terminated
    /\ BetweenTurns(Home[s])
    /\ terminated' = terminated \cup {s}
    /\ QueueFinalization(s)
    /\ UNCHANGED <<alive, fileVars, flow, behind, saw, previous, granted, adapter>>

\* A window dies: its memory is gone, its files stay.
WindowDies(w) ==
    /\ w \in alive
    /\ DiesInside \/ guard = None \/ WindowOf(guard) # w
    /\ alive' = alive \ {w}
    /\ claims' = [claims EXCEPT ![w] = None]
    /\ chain' = [chain EXCEPT ![w] = <<>>]
    /\ finalizing' = {s \in finalizing : Home[s] # w}
    /\ flow' = [s \in Session |-> IF Home[s] = w THEN "over" ELSE flow[s]]
    /\ at' = [t \in Thread |-> IF WindowOf(t) = w THEN "idle" ELSE at[t]]
    /\ behind' = [s \in Session |-> IF Home[s] = w THEN 0 ELSE behind[s]]
    /\ saw' = [s \in Session |-> IF Home[s] = w THEN NoLock ELSE saw[s]]
    /\ previous' = [s \in Session |-> IF Home[s] = w THEN NoLock ELSE previous[s]]
    /\ granted' = [s \in Session |-> Home[s] # w /\ granted[s]]
    /\ adapter' = [s \in Session |-> IF Home[s] = w THEN "starting" ELSE adapter[s]]
    /\ terminated' = {s \in terminated : Home[s] # w}
    /\ abandoned' = [s \in Session |-> IF Home[s] = w THEN "no" ELSE abandoned[s]]
    /\ UNCHANGED fileVars

-----------------------------------------------------------------------------

GuardStep(t) == AcquireGuard(t) \/ SeeStaleGuard(t) \/ SeeHeldGuard(t) \/ UnlinkGuard(t)

RemovalStep(w) == RemovePidLockIf(w) \/ FinishRemoval(w)

ReserveStep(s) ==
    \/ ClaimChecks(s)
    \/ ReserveAsks(s)
    \/ ReserveReads(s)
    \/ Judge(s)
    \/ ReserveEnds(s)

StartStep(s) ==
    \/ CleanReads(s)
    \/ CleanEnds(s)
    \/ ReleaseClaim(s)
    \/ ReleaseEnds(s)
    \/ ReclaimEnds(s)
    \/ PromoteLock(s)
    \/ PromoteEnds(s)

Step ==
    \/ \E t \in Thread : GuardStep(t)
    \/ \E s \in Session : \/ ReserveStep(s)
                          \/ StartStep(s)
                          \/ Preflight(s)
                          \/ Attach(s)
                          \/ CreateDescriptor(s)
                          \/ ActivationSucceeds(s)
                          \/ ActivationFails(s)
                          \/ StartRejected(s)
                          \/ StartEvent(s)
                          \/ GivesUp(s)
                          \/ AdapterEnds(s)
                          \/ TerminateEvent(s)
                          \/ FinalizationEnds(s)
    \/ \E w \in Window : RemovalStep(w) \/ RemovalGivesUp(w) \/ WindowDies(w)
    \/ PendingExpires

Next == Step /\ SleepIsShort

Spec == Init /\ [][Next]_vars

(***************************************************************************)
(* Once it has begun, an operation runs to its end: timers that poll the   *)
(* guard and continuations of promises are run.  A poll can find the guard *)
(* taken any number of times, so that getting it needs strong fairness.    *)
(***************************************************************************)
FairSpec ==
    /\ Spec
    /\ \A t \in Thread : SF_vars(GuardStep(t) /\ SleepIsShort)
    /\ \A s \in Session : /\ WF_vars(ReserveStep(s) /\ SleepIsShort)
                        /\ WF_vars(StartStep(s) /\ SleepIsShort)
    /\ \A w \in Window : WF_vars(RemovalStep(w) /\ SleepIsShort)
-----------------------------------------------------------------------------
(* Properties. *)

\* The guarded sections of all windows exclude each other: a thread between its
\* acquirePidClaimGuard and the release is the only one, and the guard file is
\* its own ("Re-read the token immediately before cleanup so a contender that
\* has already replaced the stale guard is not removed by an old snapshot").
GuardIsExclusive == \A t \in Thread : at[t] \in Inside => guard = t

\* "Keep a single debug session per target PID, regardless of engine or window":
\* as long as its ownership has not been given up, the lock on disk is that of
\* the session whose start event has gone through, so that there is one such
\* session at most, however slow its start was and whoever tried meanwhile.
ActiveSessionHoldsLock ==
    \A s \in Session :
        flow[s] = "active" /\ abandoned[s] = "no" => lock = ActiveLock(s)

Claiming(s) ==
    /\ flow[s] \in {"claimed", "ready", "reclaiming", "promoting", "active"}
    /\ abandoned[s] = "no"

\* Within a window, a session that has claimed the target keeps every other one
\* from it until it gives up, even when its pending lock has expired.
OneClaimPerWindow ==
    \A s, k \in Session :
        Claiming(s) /\ Claiming(k) /\ Home[s] = Home[k] => s = k

\* A live lock, active or still within its 30 s, is changed by threads of its
\* own window only, whatever a claim of another window has seen before.
LiveLockChangedByItsWindow ==
    [][lock # NoLock /\ lock' # lock /\ LiveOnDisk(lock)
         => \/ guard # None /\ WindowOf(guard) = Home[lock.owner]
            \/ lock' = [lock EXCEPT !.expired = TRUE]]_vars

\* No thread waits for ever: not for the guard, not for the removals queued
\* before a claim, whichever windows die meanwhile.
ThreadsGetThrough ==
    \A t \in Thread : at[t] # "idle" ~> at[t] = "idle"

\* The ownership a session has abandoned is removed from disk in the end, or
\* the removal times out at the guard, or its window dies: no removal is lost in
\* the chain.
AbandonmentSettles ==
    \A s \in Session : abandoned[s] = "asked" ~> abandoned[s] # "asked"

\* "Permanently abandon one exact owner generation."  When a session has
\* terminated, the removal of its lock has run and nothing of it is in flight
\* any more, the lock is not its.
AbandonedForGood ==
    \A s \in terminated :
        abandoned[s] = "done" /\ at[s] = "idle" /\ chain[Home[s]] = <<>>
            => lock.owner # s
=============================================================================
