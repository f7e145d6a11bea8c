# Django Process Debugger: a verification project

TLA+ models of the parts of this VS Code extension where steps of several
actors interleave, the TLC runs that check them on small instances, and proofs,
checked by TLAPS, for every instance. Paths below are relative to the
repository's root; the extension's sources are in `src/`.

## 1. The system

The extension attaches a debugger (debugpy, or an experimental tracer of its
own) to a running Python process. A bootstrap that `site` loads in the target
waits for control requests; the extension host of each VS Code window talks to
it through files and a control socket. Windows do not talk to each other: they
share files in `/tmp/django-process-debugger`.

| Component | Source | State | Operations |
|---|---|---|---|
| Hot reload lease manager | `src/hotReloadLeaseManager.ts` | sessions, session and pid generations, owners of a pid, one `LeaseRecord` per lease | register, unregister, setEnabled, reconcile, dispose; continuations of acquire, renew, release; heartbeat timers |
| Lease transport and lease table | `src/debugpyInjector.ts` (injector and bootstrap text) | a lease file per lease; the target's table of accepted leases | publish, renew, remove a file; accept, prune |
| Per-PID session lock | `src/extension.ts`, `src/debugSession.ts` | lock file and claim guard file per target; per window: claims, pending removals, running finalizations | acquire guard, reserve, claim, release, promote, abandon, finalize; start, terminate and adapter events |
| Hot reload orchestration | `src/extension.ts` | per target: backlog, debounce timer, current batch with its files pending and in flight; lifecycle tokens | collect, drain, flush, abort, reconcile, shut down |
| Reload requests and results | `src/debugpyInjector.ts` | request, claim and result files; watcher thread; suppressed autoreloader | request, poll, claim, reload, publish, suppress, restore |
| Engine activation, endpoint identity | `src/debugpyInjector.ts`, `src/listeningEndpoint.ts`, `src/debugSession.ts` | control socket; bootstrap state and active endpoint files of a pid; owner engine of the target | activate, judge, listen, publish, look up, drop stale records |
| Experimental tracer | `python/django_process_debugger_tracer.py` | clients, stopped threads, breakpoints, handles, log queue | stop, resume, evaluate, drop client, fork |
| MCP debug controller | `src/mcp/debugController.ts`, `src/extension.ts` (tracker) | target references, session records with stop epochs, waiters, owned breakpoints | list, start, wait, inspect, control, disconnect, breakpoints; session events, adapter messages |
| MCP window registry | `src/mcp/windowRegistry.ts`, `src/mcp/windowHost.ts` | a window's host; its lifetime lock and manifest | start, publish, heartbeat, dispose |
| MCP bridge and transport | `src/mcp/stdioBridge.ts`, `src/mcp/transport.ts` | cached manifest and discovery; requests in flight; active requests of a window | discover, forward, retry, cancel, authorize, dispatch, dispose |
| MCP setup, verification, diagnostics | `src/mcp/setup.ts`, ... | none shared | configuration edits, reports |
| Process discovery, runtime setup, clean up, telemetry, logging | `src/processFinder.ts`, `runtimeSetup.ts`, `debugpyManager.ts`, `cleanAll.ts`, `telemetry.ts`, ... | none shared | parsing, installation, removal, reporting |

How they interact. The attach command finds a process, activates the bootstrap
and reserves the target's lock before it calls `startDebugging`. VS Code calls
the descriptor factory, which claims the lock for the session and activates the
endpoint; VS Code's start event claims it once more, makes it active and
registers the session with the lease manager. The lease manager publishes a
lease file and asks the target to accept it; while the target holds a lease,
its own autoreloader is suppressed and file changes reach it as reload requests
that name the lease. Any end of a session (a rejected startup request, the
adapter's exit, the terminate event) abandons the lock and unregisters the
session. The MCP controller watches the same sessions on behalf of an agent: it
hears VS Code's session events and, through the tracker, every message of the
debug adapter. An agent reaches it through a stdio bridge, which finds the
window in a registry directory and posts to the window's loopback transport.

What is hard, and what makes each part correct:

* **Leases.** Every public call may overlap the continuations of earlier ones.
  Correct means: the latest call of a session decides; at most one lease of a
  pid is live, and only while it is wanted; its heartbeat never dies silently;
  a retired lease stays retired, leaves no file and leaves the target's table.
* **Session lock.** Windows crash, a start may outlast the 30 s of its pending
  lock, a claim sleeps while the session it is for comes to its end. Correct
  means: the guarded sections exclude each other; a session that has been made
  active keeps the lock; a live lock is changed by its own window only; within
  a window one session at most owns a target; no operation hangs and no removal
  is lost; an abandoned ownership does not come back.
* **Reload requests.** Two sides share files without locks: an overwritten
  request, a result that is replaced while it is read, a watcher that stops
  while a lease is accepted. Correct means: what is reported as reloaded is
  loaded; a change that was noted is not dropped; a target with a lease has a
  watcher and is suppressed.
* **Activation.** The files of a pid outlive their process, the process may die,
  fork or be another one between two file operations, and two windows may ask
  for different engines. Correct means: one engine per process; what a process
  publishes of itself is true; what an attempt reports is true of the process
  that has the pid by then.
* **MCP controller.** A call checks a stop, awaits, and acts; the adapter's
  events and answers arrive in between. Correct means: no answer and no request
  belongs to another stop than the one its caller saw, no stop is hidden, no
  event is missed by a waiter, what is over stays over.
* **MCP bridge.** Requests time out, windows reload, and their ports are used
  again. Correct means: a call that may have run is not repeated, a window named
  by the client is not replaced by another, and only what was cancelled or
  disposed of is aborted.
* **Tracer.** Stopped threads wait on one condition variable; clients come and
  go; the process forks. It is not modelled.

The hazards, each with its line, are listed in `PROJECT.json`.

## 2. The modules

| Module | What it is |
|---|---|
| `LeaseLifecycle` | abstract specification: a lease is unborn, live, retired, gone |
| `LeaseManager` | the lease manager with its transport and the target's lease table; refines `LeaseLifecycle` |
| `MCLeaseManager` | symmetry sets; three configurations |
| `LeaseManagerProofs` | theorems about `LeaseManager` |
| `PidLock` | the per-PID session lock over all windows |
| `MCPidLock` | assignments of sessions to windows; four configurations |
| `PidLockProofs` | theorems about `PidLock` |
| `HotReloadProofs`, `ActivationProofs`, `McpControllerProofs` | theorems about `HotReload`, `Activation`, `McpController` |
| `McpBridgeProofs` | theorems about `McpBridge` and, within it, `McpWindow` |
| `HotReload` | batches in the extension, reload files, the target's watcher |
| `Activation` | one pid with its successive processes, its files, and the attempts to attach |
| `McpController` | the tool calls, the session records and the two event streams that move them |
| `McpWindow` | the host of each window and its publication in the registry |
| `McpBridge` | clients, bridges and transports, composed with `McpWindow` |
| `MCHotReload`, `MCActivation`, `MCMcpController`, `MCMcpBridge` | instances and symmetry sets |

### LeaseManager

The variables are the fields of the class (`sessions`, `sessionGeneration`,
`owners`, `leases`, `generation`, `enabled`, `disposed`), one `record` per lease
(named by pid and generation), the calls of `registerSession` suspended at their
only await (`moves`), the lease files with the time they were written
(`leaseFile`), the target's table (`accepted`) and the clock. `intent` is
history: what the latest call of a session asked for.

One action is one run of JavaScript between two awaits. `record[l].op` is where
the record's promise chain stands; `release` is `releasePromise`. A
`then`-callback is one step with the settlement of its promise, as only
microtasks run in between. `registerSession` is three actions, by where it
suspends: `RegisterSession`, `MoveSession`, `FinishMove`. The acquisition is
`PublishLease` (the file), `TargetAccepts` (the control request),
`AcquireOk` / `AcquireFails`; a request may be accepted after its sender gave
up. A renewal is `Heartbeat`, `RenewPublishes`, `RenewOk` / `RenewFails`. A
removal of a file may fail (`leaked`). Left out: callbacks to the user
interface, the contents of lease files, error texts.

### PidLock

One target. `lock` and `guard` are its two files, `claims`, `chain` (the chain
of promises in `pendingPidOwnershipFinalizations`) and `finalizing` the memory
of each window. An activity that wants the guard is a *thread*: the start of a
session, or a window's chain of removals. `flow` is how far a session's start
has come, `at` where a thread stands in its guarded section.

Two grains of atomicity matter. Within a window, JavaScript runs a turn from
one timer or event to the next: `MayRun` and `BetweenTurns` keep the threads of
a window from interrupting each other. Between windows, only single file
operations are atomic: the creation of the guard, its removal, the reading of
the lock, and its writing are separate steps, and so are the check of a stale
guard and its unlink. A pending lock may expire at any time outside a guarded
section (inside, the lock is judged once, so the moment makes no difference),
but not before the sleeps that had begun when it was written are over. That is
`SleepIsShort`, a part of every step: `older` holds the sessions that have slept
since before the lock was written, and a pending lock expires only when there
are none. A sleep is a wait for the guard (500 times 10 ms) or for the removals
ahead in the window's chain (as long each, at most); a pending lock lives for
30 s. The bound leaves out a machine that is suspended while a claim sleeps, and
a claim behind five or more removals that all time out.

Windows die at any time outside guarded sections, and with `DiesInside` inside
them too. Windows in `Dead` have died before and left any lock, and with
`DiesInside` the guard.

Every session has one owner token. `GivesUp` is the timeout of the guard, which
may come whenever the guard is held; what the code does then (the command
fails, the factory returns null, the start handler throws) is part of the
model. Left out: the legacy global lock, guard files without an owner and the
120 s after which a guard counts as stale although its owner lives, the eight
attempts of `reservePidLock` (a guarded section needs two), the death of the
target, restarts of a session by VS Code.

### HotReload

One target and one window. `ext` and `drain` are the extension's state: the
backlog of the target, its debounce timer, the current batch, and the flush
chain of every batch, whose `pc` is where `drainHotReload` and
`requestHotReload` await. `reqFile`, `procFile` and `resFile` are the three
files both sides use; `sent` is history, what every request asked for.
`Abort`, `WithBatch`, `Flush`, `DisposeWatcher` and `Reconcile` are the
extension's synchronous helpers as functions of its state, so that every handler
that calls several of them is one step.

On the target's side a critical section of `_hot_reload_lock` is one step and so
is a file operation. `_start_hot_reload_watcher` is two critical sections
(`EnterStart`, `StartWatcher`), run by the control thread or by a watcher that
leaves; that is how the model, like the code, gets two watchers. The lease
manager appears as its interface (`OfferLease`, `LeaseGranted`, `Lapse`,
`Retire`); `LeaseManager` is the detailed model of it. As there, a lease of a
wanted target is retired only after it has lapsed or could not be acquired, so
an abort that hands files on (`src/extension.ts:2182`) runs while no lease
counts. Left out: what a reload
patches inside the target (one step that may fail for any of the files), a
failing installation of the hooks, several targets of one workspace.

### Activation

One pid and the processes that have it one after another, each with the runtime
id of its bootstrap; those in `Foreign` run none. A fork is the death of one
process and the start of another that has inherited nothing, which is what
`_start_activation_control_server` establishes in the child; no property would
notice if the child kept something of its parent's. `listen` says who
is behind each port. The control thread is a process of its own: it accepts a
connection and acknowledges it before it handles the request, so the caller may
have given up by then. An attempt (`call`) is `activateEndpoint`, with
`getActiveEndpoint` in it up to four times: for its own engine, for the other
one, while it waits, and for a racing activation of the other. Every file it
reads, the query of `lsof`, and the unlinking of a stale record are steps of
their own. An attempt runs twice, as in the code: the configuration's
resolution takes the credential of the endpoint, the descriptor factory checks
that it is still the same.

### McpController

`rec` holds the session records, `call` the tool calls in flight, `vs` and
`finalizing` what the extension knows of VS Code's sessions, `adapter` the debug
adapters with their unread messages. Answers and events travel in one stream, in
order. A stop, frame or variables reference is the pair of record and epoch. A
handler runs to its first await in one step; waiters that an event wakes return
in the event's step. The adapter and VS Code are external and may do what their
protocols allow: stop, continue with or without an event, end with `terminated`,
`exited` and late answers, create the session before or after `startDebugging`
resolves. Threads stop one by one, as the bundled tracer's do
(`python/django_process_debugger_tracer.py:2579`): `halted` is how many are
stopped, and `exec` is "stopped" while none has been resumed since the latest
stop. The user resumes one thread or all. The controller's own resume request
names no `singleThread` (`src/mcp/debugController.ts:1683`), so that an adapter
restarts all stopped threads (`_resume` in the tracer, line 5173). `seen`, `named` and `data` are history: they number the adapter's
stops, which the code never sees. Left out: the contents and size limits of
answers, the trimming of histories, read-only tools.

### McpWindow and McpBridge

`McpWindow` is the life of a window's host: the transport is started, then
published, renewed by heartbeats, and disposed of in the opposite order. What
happens between two awaits on a file is an action: the lock
(`AcquireLifetimeLock`), the check of the lock and the creation of the manifest
(`CreateManifest`), the second check (`FinishPublish`), and each may find the
file of an earlier host, no lock, or fail. A discovery id holds the pid and 128
random bits, so an id is `<<window, n>>` and the only files a window can meet
under its id are its own left-overs; the removal of a dead owner's lock is
therefore not a step. After a collision the window takes a new id, in up to
three attempts; after any other failure it keeps the one it has. Files may be
lost or not readable, manifests grow old, windows crash. `left` is history: the
ids of manifests whose publisher is over.

`McpBridge` extends it with clients. A request is a line; `line`, `posts` and
`calls` are its three places: at the bridge, on its way to a port, running at a
window. A port may have passed to another window when a request arrives, which
the token of the request decides (`Authorized`). After a time-out a window that
was busy may still read the request, and a call that runs goes on; what they
answer goes nowhere (`Awaited`). Reading the registry and the health
check of what is read are one step, `Discover`, in which any live window may
fail to answer in time. The transport issues no `mcp-session-id`, so the
bridge's session id and the protocol version decide nothing and are left out, as
are batches, HTTP framing and size limits.

## 3. What the runs check

| Run | Instance | Properties |
|---|---|---|
| `lease_moves` | 2 sessions, 2 pids, 1 generation per pid, 3 calls per session, no clock | `LiveLeaseIsCurrentAndWanted`, `ReleasedLeaseLeavesNoFile`, `OwnersMatchSessions`, `LatestCallWins`, `DisposedIsEmpty` |
| `lease_liveness` | 1 session, 1 pid, 2 generations, 3 calls, clock to 3 with TTL 2 and heartbeat 1, fairness | `TypeOK`, `HeartbeatAlive`, `RetiredForever`, `ImplementsLifecycle`, `RetiredLeaseLeavesTarget` |
| `lease_expiry` | 1 session, 1 pid, clock to 4 | finds `ActiveLeaseIsHeldByTarget` violated |
| `pid_sessions` | two sessions in one window, a third in another window; either it gets no further than its claim (`Brief`), or those two do not (`Takeover`) | `TypeOK`, `GuardIsExclusive`, `OneClaimPerWindow`, `ActiveSessionHoldsLock`, `LiveLockChangedByItsWindow` |
| `pid_recovery` | two sessions in one window, another window dead before it, perhaps with the guard; the first may die too; fairness | `ThreadsGetThrough`, `AbandonmentSettles` |
| `pid_guard` | two running windows and a dead one, a session each, with deaths inside guarded sections | finds `GuardIsExclusive` violated |
| `pid_abandon` | the same without such deaths | finds `AbandonedForGood` violated |
| `hot_reload` | 1 file, 2 watcher threads, 2 saves, leases, batches and requests | `TypeOK`, `LeasedTargetIsWatched`, `ReportedIsLoaded`, `ChangesAreKept` |
| `activation` | 2 attempts of either engine, 2 ports, 3 processes, the second without bootstrap | `TypeOK`, `EnginesAreExclusive`, `RecordIsOfItsListener`, `CredentialFits`, `OutcomeFitsTarget` |
| `mcp_calls` | 2 callers, 2 calls, 1 session, 1 target, 2 records, 4 adapter events, 2 requests per inspection | `TypeOK`, `StopsAreKnown`, `InspectionIsOfItsStop`, `TargetsAreOneShot`, `WaitsMissNothing`, `NoOrphanBreakpoints`, `ResumesAreCurrent`, `DeadStayDead` |
| `mcp_phantom` | 1 caller, 1 session, 4 adapter events | finds `EndedSessionsAreNotRunning` violated |
| `mcp_bridge` | 2 windows, 2 ports, 2 clients: one names its window and sends a safe request, one has an id from its environment and sends a mutating one; 2 transports per window, 1 fault (a file lost, not read, or too old); starts, faults and crashes at most 3, 1 cancellation where no fault happens, and nothing after the last request is over (`Brief`) | `TypeOK`, `MutatingRunsOnce`, `ExplicitWindowOnly`, `AbortsFit`, `LiveManifestIsServed` |

The bounds. Leases: two generations are the fewest with which a lease can be
restarted after its expiry or replaced while the old one is being released. A
TTL of two ticks and a heartbeat of one make room for a heartbeat in time, a
late one, and one after the expiry. Three calls per session let a call overtake
the continuation of an earlier one and be overtaken itself. In `lease_moves` the
clock is off and each pid has one lease: whose session it is does not depend on
renewals, and the proofs cover every other instance. Lock: two windows that run
are the least that contend; the third adds what a dead one leaves behind. Two
sessions per window are the least for which claims and removals of one window
wait for each other, and the contention that makes them sleep needs another
window. Under `Takeover` the slow claim of one session meets all that can
happen to the lock meanwhile: the other session of its window takes it, lets it
expire, loses it to another window, and that window's lock goes. Liveness with
two running windows is beyond TLC here; `pid_recovery`
checks it for one window after the death of another. Hot reload: two leases let
one be replaced while its drain is under way, two requests let one overwrite the
other, and two threads are what the two critical sections of a start can leave
running. Activation: three processes give a stale record of a process with a
bootstrap, a pid that is reused without one, and a reuse with one; two ports let
a record and a listener disagree. MCP calls: two calls race with each other and
four events allow ready, stop, continue, stop. Bridge: two transports in one
window and one in the other, with two ports, are the least for which a port
passes from one window to another; the client that retries and the one that must
not share an id. One fault and two transports are also the least for which a
window collides with a manifest it left behind, which needs a removal that
failed and a restart. A cancellation and a fault are not combined: no file of
the registry decides where a cancellation goes, but the manifest the bridge has
in memory.

Deadlock checking is off: the bounds end every behaviour, and a window whose
sessions are over, or a target without leases, has nothing left to do.

Fairness. `LeaseManager`: transport promises settle (file operations end, the
control request has a timeout), their continuations run, and the target's
watcher prunes its table (it wakes every 0.3 s); nothing is assumed of timers,
the clock and callers. `PidLock`: an operation that has begun is carried on by
its timers and continuations (weak fairness); a thread that polls the guard
gets it if it is free again and again (strong fairness, because a poll may
find it taken any number of times). Nothing is assumed of the user, VS Code or the
timeouts. The other modules state safety only and assume no fairness.

### Where code and comments disagree

* **`lease_expiry`.** `src/hotReloadLeaseManager.ts:221`: "Return only fully
  acquired, unexpired lease generations." The manager counts a lease's time
  from the moment its promise settles, the target from the writing of the file.
  A late heartbeat can rename a fresh file into place after the target has
  pruned the lease; a renewal never asks for acceptance again, so the manager
  keeps an active lease the target does not know.
* **`pid_guard`.** `src/extension.ts:614`: "Re-read the token immediately before
  cleanup so a contender that has already replaced the stale guard is not
  removed by an old snapshot." The re-read and the unlink are two operations:
  two windows that recover the guard of a dead one can end up inside together.
* **`pid_abandon`.** `src/extension.ts:434`: "Permanently abandon one exact owner
  generation." A start event's handler that sleeps at a contended guard while
  its session terminates locks the target again afterwards.

* **`mcp_phantom`.** `src/mcp/debugController.ts:385` describes the sessions
  resource as "Opaque session references and their current execution state". A
  session of the user's ends before the controller knows it; its finalization
  starts; a later message of the same adapter makes a new record in state
  running (`handleDapMessage` calls `handleSessionStarted`); the terminate event
  finds the finalization in flight (`src/extension.ts:517`) and tells the
  controller nothing. The record says running for good.

Behaviours the models reach, of which no property is stated because nothing in
the repository promises otherwise, or because the promise is about something the
model leaves out:

* *Lock.* A claim looks at its window's memory once, then sleeps for removals and
  for the guard, and does not look again. That no other session of the window
  owns the target when it wakes is due to the lock on disk alone, and that this
  lock still counts is due to the times: without `SleepIsShort`, two sessions of
  a window can both come to own the target.
* *Hot reload.* A lease that comes and goes while the last watcher leaves has
  the suppression hooks left installed with no watcher; they let the autoreloader
  through, as no lease is live. The control thread and a leaving watcher may
  both start a watcher. The drain of an aborted batch may overwrite the request
  of the next one (the later request then times out). A drain that ends between
  the lapse of its lease and the manager's callback forgets its files in flight.
* *Activation.* Where a reused pid runs no bootstrap, `getActiveEndpoint` may
  return whoever listens at the recorded port, for debugpy in any process. The
  unlinking of a stale record may remove the one the target has just written:
  the attempt fails although the engine listens, and the next one restores it.
* *Bridge.* A retried safe request whose first attempt still runs is refused as
  already active. A cancellation that overtakes its request is ignored, and one
  that follows a retry does not reach the earlier attempt at another window. A
  client whose window is named by its environment falls back to another live
  window if the health check of its own times out. If the lock file is lost, the
  heartbeats of that host write nothing any more.
* *Controller.* A `continued` event moves a terminating record back to running
  until the adapter ends. One for a single thread (`allThreadsContinued` false,
  `src/mcp/debugController.ts:1845`) makes the record run although other threads
  stay stopped; an agent can control the session again at its next stop.

## 4. What is proved

`LeaseManagerProofs` assumes `LeaseAssumption` (what the constructor demands of
TTL and heartbeat, and that the bounds are numbers) and proves, for all sets of
sessions and pids and all bounds:

| Theorem | Property |
|---|---|
| `TypeCorrect` | `TypeOK` |
| `LeasesAreCurrentAndWanted` | `LiveLeaseIsCurrentAndWanted` |
| `HeartbeatNeverDies` | `HeartbeatAlive` |
| `ReleaseIsLast` | `ReleasedLeaseLeavesNoFile` |
| `OwnersAgree` | `OwnersMatchSessions` |
| `LatestCallIsLast` | `LatestCallWins` |
| `DisposeIsFinal` | `DisposedIsEmpty` |
| `RetiredIsFinal` | `RetiredForever` |
| `ImplementsLifecycleSafety` | initial states and steps of `LeaseLifecycle` |

Two inductive invariants carry them. `LeaseInv` is about records: generations
are born in order (`BornInOrder`), the record in the map is live and the last of
its pid (`MappedIsLive`), a live record is in the map and wanted
(`LiveIsMapped`), the fields of a record go together (`RecordShape`: a timer
only while idle and active, done only when no operation is in flight). None of
these stands alone: that a release removes the file for good needs the shape of
the record, the shape needs that an undesired record has been retired, and that
is `LiveIsMapped`, which in turn needs that a new generation never meets an old
record. `SessionInv` is about calls: a suspended move that is still the latest
of its session finds it outside the maps and wants what `intent` says, and two
moves of a session never share a generation. The steps are grouped by what they
do to leases (`EnsureLeasesInv`, `RetireLeasesInv`, `OneLeaseInv`, `RestartInv`,
`SameLeasesInv`) and to sessions (`LeaveInv`, `SameSessionsInv`). For the
refinement and for `RetiredForever`, `RecordStep` says how one record may change
in a step.

`PidLockProofs` assumes `PidLockAssumption` and proves, for any number of
windows and sessions:

| Theorem | Property |
|---|---|
| `TypeCorrect` | `TypeOK` |
| `GuardExclusion` | `GuardIsExclusive` |
| `ClaimExclusion` | `OneClaimPerWindow` |
| `ActiveLocked` | `ActiveSessionHoldsLock` |
| `LiveLockSafe` | `LiveLockChangedByItsWindow` |

All but the first are proved of the windows that do not die inside a guarded
section (`~DiesInside`); they may die anywhere else. `pid_guard` shows that the
condition is needed: with it goes the exclusion of the guarded sections, on
which everything else rests. The inductive invariant is `LockInv`. `GuardInv`
says that the guard's token is the one of the thread inside and that nobody
stands between the check of a stale guard and its unlink. `TypeInv` adds to the
types whose the removals in a chain are (`ChainFits`), so that a removal can
only take its own window's lock. `SessionFits` says of each session what its
place in its start implies: what it has read in its guarded section is still on
disk, what it was granted is on disk when it leaves (`LockFits`), its active
lock stays (`ActiveFits`), its window's memory names it while it claims
(`ClaimFits`). `KeptOut` is the hard part. A claim that has passed the check in
memory does not look there again, so `ClaimFits` of one session can be
overwritten by another that has slept all the while; it is the lock that keeps
it out. While a session owns the target, any other of its window that is past
the check either leaves empty-handed, or is still to look at the lock and will
find it live: it is active, or the sleeper is in `older` and it cannot have
expired, or the sleeper is in its section, where nothing expires.

`HotReloadProofs` assumes `HotReloadAssumption` (the bounds are numbers, and `None`, the target's control thread and the watcher threads are told apart)
and proves, for any number of files, saves, leases, batches, requests and threads:

| Theorem | Property |
|---|---|
| `TypeCorrect` | `TypeOK` |
| `LeasedIsWatched` | `LeasedTargetIsWatched` |
| `ReportsAreLoaded` | `ReportedIsLoaded` |
| `ChangesKept` | `ChangesAreKept` |

The invariant is `HotReloadInv`. `LeasedTargetIsWatched` speaks of the moments
in which nobody starts or leaves; between them, `WatchedOrOnTheWay` says, a
target with a live lease has its watcher or a thread that is about to start one
or to look whether one is needed, which is how the code closes the gap between
its two critical sections. `ReportedIsLoaded` follows a result backwards through
the file, the watcher and the drain that polls for it: wherever a good result
is, it is of a request that was made (`RequestsFit`) and whose files are loaded
(`ResultsFit`), and versions only grow (`VersionsFit`). `ChangesAreKept` needs
that the current batch belongs to the lease that counts (`BatchFits`), so that a
drain of the current batch that ends "cancelled" can only be one whose lease no
longer counts. The end of that drain is all the property exempts: an abort, a
new batch, a lease that comes, lapses or is replaced hands every file on.

`ActivationProofs` assumes `ActivationAssumption` and proves, for any number of
windows, attempts, ports and processes:

| Theorem | Property |
|---|---|
| `TypeCorrect` | `TypeOK` |
| `OneEngine` | `EnginesAreExclusive` |
| `RecordsAreTrue` | `RecordIsOfItsListener` |
| `CredentialsFit` | `CredentialFits` |
| `OutcomesFit` | `OutcomeFitsTarget` |

The heart of `ActivationInv` is `IsTrue`: a record of an endpoint, whoever holds
it, is that of the engine which owns its process, if that process still has the
pid; of any other process it may say what it likes. It is kept for the files
(`RecordsFit`) and for the attempts that have read one (`CallsFit`), because
runtime ids are never used again (`ProcessFits`: nothing speaks of a process
that is still to come), and because a process listens once, with the owner's
engine and credential (`ControlFits`, `ListenersFit`).

`McpBridgeProofs` assumes `WindowAssumption` and `BridgeAssumption` and proves,
for any windows, ports, clients, lines, runs and faults:

| Theorem | Property |
|---|---|
| `TypeCorrect` | `TypeOK` |
| `LiveManifestIsAlwaysServed` | `LiveManifestIsServed` |
| `MutatingOnce` | `MutatingRunsOnce` |
| `ExplicitWindow` | `ExplicitWindowOnly` |
| `AbortsAreFit` | `AbortsFit` |

`WindowInv` is the part about the hosts: a host that is not off has a port and a
run of its own (`HostShape`), a manifest is filed under the id of the host it
describes, one its window has had (`ManifestIsFiled`), and what lies under a
window's id is its own while it publishes and otherwise left (`LeftAside`), so
that no publication starts over a manifest that does not count as left and none
succeeds over one that does.
`HostsArePast` says that a host which anybody keeps (a manifest, a bridge, a
request under way, a call) has run once; a later transport never has its token,
which is why a request that arrives at a reused port is refused.
`MutatingFits` says that a mutating line is in one place at a time and has not
run before its request is read. `LiveManifestIsServed` is proved of the
composition, in which a crash or the disposal of a host also ends its calls. It
does not speak of locks, which bridges never read. A manifest that its publisher
could not remove, or made and gave up, is exempt, but not under the id of a
window that is up: there `createJsonExclusive` refuses to publish.

`McpControllerProofs` assumes `ControllerAssumption` (`None` is no session, target
or caller, and the bounds are numbers) and proves, for any number of callers,
calls, records, targets, sessions, adapter messages and requests per inspection:

| Theorem | Property |
|---|---|
| `TypeCorrect` | `TypeOK` |
| `StopsKnown` | `StopsAreKnown` |
| `InspectionFits` | `InspectionIsOfItsStop` |
| `ResumesCurrent` | `ResumesAreCurrent` |
| `TargetsOneShot` | `TargetsAreOneShot` |
| `WaitsMiss` | `WaitsMissNothing` |
| `NoOrphans` | `NoOrphanBreakpoints` |
| `DeadStay` | `DeadStayDead` |

Their invariant, `ControllerInv` (theorem `Invariant`), relates each record to
what its adapter has said and the controller has not yet heard. `RecordsHear`:
every stop later than the record's is in the stream, and so is the last one if
the record says running while no thread has been resumed since. For that the stream itself
has to be in order (`StreamFits`: stops in their order, an answer behind the
stops it knew of, a resumption before the stop that followed it, nothing after
the end), and each session has one record and each record one session
(`SessionsFit`). `EndsFit` and `FinalizingFits` say that a record or session
which is over has nothing left to hear. `RepliesFit` and `CallsFit` tie the calls to this: an answer under
way is for one call that waits for it, from the session it asked; a call's epoch
is not from the future, and while it is current the stop it named is the one the
record has seen; a target that a resume has started again is stopped only by a
later stop. That last part is what the answer to a resume relies on when it
clears the stop.
Because a message may bind a record, be applied and
end the session in one step, all parts are operators on records, adapters and
calls, and the lemmas compose. `Moves` is what every step keeps of a record,
however such parts are composed; the action properties follow from it.

Only model-checked: liveness, which needs fairness and `ENABLED`
(`RetiredLeaseLeavesTarget`, the fairness part of `ImplementsLifecycle`,
`ThreadsGetThrough`, `AbandonmentSettles`). Every invariant and every action
property of the passing runs is a theorem as well. The four properties that are
expected to fail are TLC's, of course.

## 5. Not modelled

* The experimental tracer. To the rest of the extension it is a debug adapter,
  and that is how `McpController` and `Activation` have it. Its own threads,
  handles and evaluation would be a model of the size of this project.
* MCP setup, verification and diagnostics, process discovery, runtime setup and
  clean up: sequential work on files and subprocesses whose state nothing else
  shares.
* Telemetry, logging and presentation: wording.
* Inside the modelled parts: the legacy global lock, guards without owner or
  older than 120 s, lifecycle tokens of several sessions of one target, several
  workspaces, the hosts of an endpoint and the port debugpy falls back to, the
  checks of owner and mode of registry files, read-only MCP tools.

## 6. What to prove next

Liveness is out of the prover's reach, and every safety property of the models is
proved. What is left is more of the system: the death of a target under its lock
in `PidLock`, several targets in `HotReload`, and an abstract
specification of the lock (a target belongs to one session of one window) that
`PidLock` refines while no window dies inside.
