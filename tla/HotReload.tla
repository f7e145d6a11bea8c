------------------------------ MODULE HotReload ------------------------------
(***************************************************************************)
(* Hot reload of one target process from one VS Code window: the batches   *)
(* of changed files in src/extension.ts, the request and result files of   *)
(* src/debugpyInjector.ts, and the watcher thread of the bootstrap in the  *)
(* target with its suppression of Django's autoreloader.                   *)
(*                                                                         *)
(* The lease manager is its interface here (module LeaseManager is the     *)
(* manager itself): it publishes a lease, the target accepts it, it is     *)
(* active until its time is up, and it is released.  In the extension a    *)
(* handler runs to its first await in one step; in the target a critical   *)
(* section of _hot_reload_lock is one step, and so is one file operation.  *)
(***************************************************************************)
EXTENDS Integers, Sequences, FiniteSets

CONSTANTS File,
          Thread,     \* threads that can run the target's watcher
          Control,    \* the target's control thread
          None,       \* no thread
          MaxSaves,   \* bound on the saves of each file
          MaxLease,   \* bound on leases
          MaxBatch,   \* bound on batches (hotReloadBatchGeneration)
          MaxRequest  \* bound on reload requests

ASSUME HotReloadAssumption ==
    /\ Control \notin Thread /\ None \notin Thread \cup {Control}
    /\ MaxSaves \in Nat /\ MaxLease \in Nat /\ MaxBatch \in Nat /\ MaxRequest \in Nat

VARIABLES
    wanted,      \* hot reload is on and a session of the target is registered
    lease,       \* the manager's lease and what it knows of it
    fresh,       \* lease files that exist and are not older than their TTL
    saved,       \* version of every file on disk
    ext,         \* backlog, timer and current batch of the target in the extension
    drain,       \* the flush chain of every batch
    sent,        \* every reload request made: its batch, its files and their versions then
    reqFile, procFile, resFile,   \* .reload, .reload.processing, .reload.result
    accepted,    \* _hot_reload_leases
    thread,      \* _hot_reload_thread
    suppressed,  \* the suppression hooks are installed
    at,          \* where the control thread and every watcher are
    job,         \* the request a watcher works on
    loaded       \* version of every module in the target

extension == <<wanted, lease, ext, drain, sent>>
files == <<fresh, reqFile, procFile, resFile>>
target == <<accepted, thread, suppressed, at, job, loaded>>
vars == <<extension, files, saved, target>>

Lease == 1..MaxLease
Batch == 1..MaxBatch
Request == 1..MaxRequest
Version == 0..MaxSaves
Nothing == 0
NoResult == [req |-> Nothing, ok |-> FALSE]

TypeOK ==
    /\ wanted \in BOOLEAN
    /\ lease \in [id : Lease \cup {Nothing}, st : {"none", "offered", "active", "lapsed"}]
    /\ fresh \subseteq Lease
    /\ saved \in [File -> Version] /\ loaded \in [File -> Version]
    /\ ext \in [backlog : SUBSET File, timer : BOOLEAN, batch : Batch \cup {Nothing},
                pending : SUBSET File, inFlight : SUBSET File, next : 1..(MaxBatch + 1)]
    /\ ext.batch = Nothing => ext.pending = {} /\ ext.inFlight = {}
    /\ drain \in [Batch ->
                    [lease : Lease \cup {Nothing}, again : BOOLEAN,
                     pc : {"idle", "unlink", "rename", "sent", "poll", "check", "longPoll", "take"},
                     req : Request \cup {Nothing}, ok : BOOLEAN,
                     outcome : {"none", "cancelled", "reloaded", "failed", "timedOut"}]]
    /\ sent \in Seq([batch : Batch, files : SUBSET File, ver : [File -> Version]])
    /\ reqFile \in Request \cup {Nothing} /\ procFile \in Request \cup {Nothing}
    /\ resFile \in [req : Request \cup {Nothing}, ok : BOOLEAN]
    /\ accepted \subseteq Lease
    /\ thread \in Thread \cup {None}
    /\ suppressed \in BOOLEAN
    /\ at \in [Thread \cup {Control} ->
                 {"off", "loop", "claimed", "reload", "publish", "clear", "exit", "enter", "start", "fail"}]
    /\ job \in [Thread -> [req : Request \cup {Nothing}, ok : BOOLEAN]]

Init ==
    /\ wanted = FALSE
    /\ lease = [id |-> Nothing, st |-> "none"]
    /\ fresh = {} /\ accepted = {}
    /\ saved = [f \in File |-> 0] /\ loaded = [f \in File |-> 0]
    /\ ext = [backlog |-> {}, timer |-> FALSE, batch |-> Nothing, pending |-> {},
              inFlight |-> {}, next |-> 1]
    /\ drain = [b \in Batch |-> [lease |-> Nothing, again |-> FALSE, pc |-> "idle",
                                 req |-> Nothing, ok |-> FALSE, outcome |-> "none"]]
    /\ sent = <<>>
    /\ reqFile = Nothing /\ procFile = Nothing /\ resFile = NoResult
    /\ thread = None /\ suppressed = FALSE
    /\ at = [t \in Thread \cup {Control} |-> "off"]
    /\ job = [t \in Thread |-> NoResult]

-----------------------------------------------------------------------------
(* The extension's bookkeeping, as functions of x, its record of the target, *)
(* or of e, that record and the drains                                       *)

\* activeLeaseForPid: a lease whose time is up does not count.
Active(l) == IF l.st = "active" THEN l.id ELSE Nothing

State == [ext |-> ext, drain |-> drain]

\* Mutants: the files in flight are not put back; the sets of the batch are not cleared.
AbortForgets(x, want) ==
    IF x.batch = Nothing THEN x
    ELSE [x EXCEPT !.backlog = IF want THEN @ \cup x.pending ELSE @,
                   !.pending = {}, !.inFlight = {}, !.batch = Nothing]

AbortKeepsFiles(x, want) ==
    IF x.batch = Nothing THEN x
    ELSE [x EXCEPT !.backlog = IF want THEN @ \cup x.pending \cup x.inFlight ELSE @,
                   !.batch = Nothing]

\* abortHotReloadBatch keeps the files of the batch while the target is wanted.
Abort(x, want) ==
    IF x.batch = Nothing THEN x
    ELSE [x EXCEPT !.backlog = IF want THEN @ \cup x.pending \cup x.inFlight ELSE @,
                   !.pending = {}, !.inFlight = {}, !.batch = Nothing]

\* getOrCreateHotReloadBatch
WithBatch(e, l) ==
    IF e.ext.batch # Nothing /\ e.drain[e.ext.batch].lease = l THEN e
    ELSE [ext |-> [Abort(e.ext, TRUE) EXCEPT !.batch = e.ext.next, !.next = @ + 1],
          drain |-> [e.drain EXCEPT ![e.ext.next].lease = l]]

\* flushAvailableHotReloadBacklogs and scheduleHotReloadFlush
Flush(e, l) ==
    IF l = Nothing \/ e.ext.backlog = {} THEN e
    ELSE LET b == WithBatch(e, l) IN
         [ext |-> [b.ext EXCEPT !.pending = @ \cup b.ext.backlog, !.backlog = {}],
          drain |-> [b.drain EXCEPT ![b.ext.batch].again = TRUE]]

\* disposeWorkspaceHotReloadWatcher
DisposeWatcher(x) == [Abort(x, FALSE) EXCEPT !.backlog = {}, !.timer = FALSE]

\* reconcileHotReloadState
Reconcile(e, want, l) ==
    IF ~want THEN [ext |-> DisposeWatcher(e.ext), drain |-> e.drain]
    ELSE LET a == IF e.ext.batch # Nothing /\ e.drain[e.ext.batch].lease # l
                  THEN [ext |-> Abort(e.ext, TRUE), drain |-> e.drain] ELSE e
         IN IF a.ext.timer THEN a ELSE Flush(a, l)

\* There is a batch number left for a step that may need one.
MayBatch == ext.next <= MaxBatch

Become(x, d) == ext' = x /\ drain' = d /\ UNCHANGED sent

\* A reconciliation with the lease id l, as a step
Reconciles(want, l) ==
    LET r == Reconcile(State, want, l) IN Become(r.ext, r.drain)

-----------------------------------------------------------------------------
(* The manager's interface *)

\* A session registers: registerHotReloadSession
Want ==
    /\ ~wanted
    /\ wanted' = TRUE
    /\ UNCHANGED <<lease, ext, drain, sent, files, saved, target>>

\* The manager publishes a lease file; the target is to accept it next.
OfferLease(l) ==
    /\ wanted /\ lease.st = "none" /\ l = lease.id + 1
    /\ lease' = [id |-> l, st |-> "offered"]
    /\ fresh' = fresh \cup {l}
    /\ UNCHANGED <<wanted, ext, drain, sent, reqFile, procFile, resFile, saved, target>>

\* The target's answer has arrived: the lease is active.
LeaseGranted ==
    /\ lease.st = "offered" /\ lease.id \in accepted /\ at[Control] = "off"
    /\ MayBatch
    /\ lease' = [lease EXCEPT !.st = "active"]
    /\ Reconciles(wanted, lease.id)
    /\ UNCHANGED <<wanted, files, saved, target>>

\* The renewal is late: the lease is over for the target and for isCurrentHotReloadBatch;
\* the manager's own callback comes later.
Lapse ==
    /\ lease.st = "active"
    /\ lease' = [lease EXCEPT !.st = "lapsed"]
    /\ fresh' = fresh \ {lease.id}
    /\ UNCHANGED <<wanted, ext, drain, sent, reqFile, procFile, resFile, saved, target>>

\* The manager gives the lease of a wanted target up: acquiring it failed, or its time is up
\* (ensureLease, restartExpiredLease).
Retire ==
    /\ lease.st \in {"offered", "lapsed"}
    /\ MayBatch
    /\ lease' = [lease EXCEPT !.st = "none"]
    /\ fresh' = fresh \ {lease.id}
    /\ Reconciles(wanted, Nothing)
    /\ UNCHANGED <<wanted, reqFile, procFile, resFile, saved, target>>

\* revokeHotReloadSession of the last session, the setting, or shutdownHotReloadLifecycle
Unwant ==
    /\ wanted
    /\ wanted' = FALSE
    /\ lease' = [lease EXCEPT !.st = "none"]
    /\ fresh' = fresh \ {lease.id}
    /\ Reconciles(FALSE, Nothing)
    /\ UNCHANGED <<reqFile, procFile, resFile, saved, target>>

-----------------------------------------------------------------------------
(* Saves and drains *)

\* The user saves a file: onPyFileChanged
Save(f) ==
    /\ saved[f] < MaxSaves
    /\ saved' = [saved EXCEPT ![f] = @ + 1]
    /\ MayBatch
    /\ LET r == Reconcile(State, wanted, Active(lease)) IN
       Become(IF wanted THEN [r.ext EXCEPT !.backlog = @ \cup {f}, !.timer = TRUE] ELSE r.ext,
              r.drain)
    /\ UNCHANGED <<wanted, lease, files, target>>

\* The debounce timer
TimerFires ==
    /\ ext.timer
    /\ MayBatch
    /\ LET e == Flush(State, Active(lease)) IN
       Become([e.ext EXCEPT !.timer = FALSE], e.drain)
    /\ UNCHANGED <<wanted, lease, files, saved, target>>

\* isCurrentHotReloadBatch
Current(b) == ext.batch = b /\ Active(lease) = drain[b].lease

\* The finally of drainHotReload: the batch's files in flight are forgotten.
End(b, outcome) ==
    /\ drain' = [drain EXCEPT ![b].pc = "idle", ![b].outcome = outcome]
    /\ ext' = IF ext.batch = b THEN [ext EXCEPT !.inFlight = {}] ELSE ext
    /\ UNCHANGED sent

Goto(b, pc) == drain' = [drain EXCEPT ![b].pc = pc] /\ UNCHANGED <<ext, sent>>

\* drainHotReload up to its first await
DrainBegins(b) ==
    /\ drain[b].again /\ drain[b].pc = "idle"
    /\ IF Current(b) /\ ext.pending # {}
       THEN /\ Len(sent) < MaxRequest
            /\ sent' = Append(sent, [batch |-> b, files |-> ext.pending, ver |-> saved])
            /\ drain' = [drain EXCEPT ![b].again = FALSE, ![b].pc = "unlink",
                                      ![b].req = Len(sent')]
            /\ ext' = [ext EXCEPT !.inFlight = @ \cup ext.pending, !.pending = {}]
       ELSE drain' = [drain EXCEPT ![b].again = FALSE] /\ UNCHANGED <<ext, sent>>
    /\ UNCHANGED <<wanted, lease, files, saved, target>>

\* requestHotReload removes the last result and then renames its request into place, over
\* one that may still be there.
DrainUnlinks(b) ==
    /\ drain[b].pc = "unlink"
    /\ resFile' = NoResult
    /\ Goto(b, "rename")
    /\ UNCHANGED <<wanted, lease, fresh, reqFile, procFile, saved, target>>

DrainPublishes(b) ==
    /\ drain[b].pc = "rename"
    /\ reqFile' = drain[b].req
    /\ Goto(b, "sent")
    /\ UNCHANGED <<wanted, lease, fresh, procFile, resFile, saved, target>>

DrainSent(b) ==
    /\ drain[b].pc = "sent"
    /\ IF Current(b) THEN Goto(b, "poll") ELSE End(b, "cancelled")
    /\ UNCHANGED <<wanted, lease, files, saved, target>>

\* Mutant: a result is taken for the answer whatever its request id.
DrainReadsAny(b) ==
    /\ drain[b].pc \in {"poll", "longPoll", "check"}
    /\ drain[b].pc = "check" => drain[b].req \notin {reqFile, procFile}
    /\ resFile.req # Nothing
    /\ drain' = [drain EXCEPT ![b].pc = "take", ![b].ok = resFile.ok]
    /\ UNCHANGED <<wanted, lease, sent, ext, files, saved, target>>

\* readReloadResult reads a result of this request ...
DrainReads(b) ==
    /\ drain[b].pc \in {"poll", "longPoll", "check"}
    /\ drain[b].pc = "check" => drain[b].req \notin {reqFile, procFile}
    /\ resFile.req = drain[b].req
    /\ drain' = [drain EXCEPT ![b].pc = "take", ![b].ok = resFile.ok]
    /\ UNCHANGED <<wanted, lease, sent, ext, files, saved, target>>

\* ... and unlinks the file, whatever it is by then.
DrainTakes(b) ==
    /\ drain[b].pc = "take"
    /\ resFile' = NoResult
    /\ End(b, IF ~Current(b) THEN "cancelled" ELSE IF drain[b].ok THEN "reloaded" ELSE "failed")
    /\ UNCHANGED <<wanted, lease, fresh, reqFile, procFile, saved, target>>

\* pollReloadResult gives up, after its time or because the batch was aborted.
PollEnds(b) ==
    /\ drain[b].pc \in {"poll", "longPoll"}
    /\ IF ~Current(b) THEN End(b, "cancelled")
       ELSE IF drain[b].pc = "poll" THEN Goto(b, "check") ELSE End(b, "timedOut")
    /\ UNCHANGED <<wanted, lease, files, saved, target>>

\* isReloadPending: wait on if the request is still there, else look once more and give up.
DrainChecks(b) ==
    /\ drain[b].pc = "check"
    /\ IF ~Current(b) THEN End(b, "cancelled")
       ELSE IF drain[b].req \in {reqFile, procFile} THEN Goto(b, "longPoll")
       ELSE resFile.req # drain[b].req /\ End(b, "timedOut")
    /\ UNCHANGED <<wanted, lease, files, saved, target>>

-----------------------------------------------------------------------------
(* The target *)

Here(t, pc) == at' = [at EXCEPT ![t] = pc]

\* _prune_hot_reload_leases_locked
Pruned(leases) == leases \cap fresh

\* The hooks in Django's autoreloader, with the leases they are for, and without them
\* (_install_ and _restore_hot_reload_suppression_locked).
Installs(leases) == suppressed' = (suppressed \/ leases # {})
Restores == suppressed' = FALSE

\* The control thread gets the request of a lease: _acquire_hot_reload_lease
AcquireLease ==
    /\ at[Control] = "off"
    /\ lease.st = "offered" /\ lease.id \notin accepted
    /\ accepted' = Pruned(accepted \cup {lease.id})
    /\ Here(Control, IF lease.id \in accepted' THEN "enter" ELSE "off")
    /\ UNCHANGED <<extension, files, saved, thread, suppressed, job, loaded>>

\* _start_hot_reload_watcher, first critical section: a live thread will do.  Without a lease
\* it fails, which only the control thread looks at.
Failed(t) == IF t = Control THEN "fail" ELSE "off"

EnterStart(t) ==
    /\ at[t] = "enter"
    /\ accepted' = Pruned(accepted)
    /\ Installs(accepted')
    /\ Here(t, IF accepted' = {} THEN Failed(t) ELSE IF thread = None THEN "start" ELSE "off")
    /\ UNCHANGED <<extension, files, saved, thread, job, loaded>>

\* ... second critical section: it starts a watcher without another look for one.
StartWatcher(t) ==
    /\ at[t] = "start"
    /\ accepted' = Pruned(accepted)
    /\ IF accepted' = {}
       THEN Restores /\ Here(t, Failed(t)) /\ UNCHANGED thread
       ELSE \E w \in Thread :    \* a watcher that ends here lends its name to the new one
              /\ at[w] = "off" \/ w = t
              /\ thread' = w
              /\ at' = [at EXCEPT ![t] = "off", ![w] = "loop"]
              /\ UNCHANGED suppressed
    /\ UNCHANGED <<extension, files, saved, job, loaded>>

\* _acquire_hot_reload_lease takes its lease back (pruned already) and the hooks with it.
AcquireFails ==
    /\ at[Control] = "fail"
    /\ IF accepted = {} THEN Restores ELSE UNCHANGED suppressed
    /\ Here(Control, "off")
    /\ UNCHANGED <<extension, files, saved, accepted, thread, job, loaded>>

\* _reload_watcher wakes up: without a lease it leaves its loop, else it claims a request.
WatcherWakes(w) ==
    /\ at[w] = "loop"
    /\ accepted' = Pruned(accepted)
    /\ IF accepted' = {} THEN Here(w, "exit") /\ UNCHANGED <<reqFile, procFile>>
       ELSE /\ reqFile # Nothing
            /\ procFile' = reqFile /\ reqFile' = Nothing
            /\ Here(w, "claimed")
    /\ UNCHANGED <<extension, fresh, resFile, saved, thread, suppressed, job, loaded>>

\* It reads what it claimed.  Without a file or a live lease the answer is an error.
WatcherReads(w) ==
    /\ at[w] = "claimed"
    /\ accepted' = Pruned(accepted)
    /\ LET live == procFile # Nothing /\ drain[sent[procFile].batch].lease \in accepted' IN
         /\ job' = [job EXCEPT ![w] = [req |-> procFile, ok |-> live]]
         /\ Here(w, IF live THEN "reload" ELSE "publish")
    /\ UNCHANGED <<extension, files, saved, thread, suppressed, loaded>>

\* importlib.reload and the patching of every live generation, file by file; a broken file is
\* an error in the result.
WatcherReloads(w) ==
    /\ at[w] = "reload"
    /\ LET asked == sent[job[w].req].files IN
       \E good \in SUBSET asked :
         /\ loaded' = [f \in File |-> IF f \in good THEN saved[f] ELSE loaded[f]]
         /\ job' = [job EXCEPT ![w].ok = (good = asked)]
    /\ Here(w, "publish")
    /\ UNCHANGED <<extension, files, saved, accepted, thread, suppressed>>

\* _publish_reload_result and then _clear_reload_claim
WatcherPublishes(w) ==
    /\ at[w] = "publish"
    /\ resFile' = job[w]
    /\ Here(w, "clear")
    /\ UNCHANGED <<extension, fresh, reqFile, procFile, saved, accepted, thread, suppressed, job, loaded>>

WatcherClears(w) ==
    /\ at[w] = "clear"
    /\ procFile' = Nothing
    /\ job' = [job EXCEPT ![w] = NoResult]
    /\ Here(w, "loop")
    /\ UNCHANGED <<extension, fresh, reqFile, resFile, saved, accepted, thread, suppressed, loaded>>

\* Mutant: the leaving watcher does not look for a lease that came meanwhile.
WatcherLeaves(w) ==
    /\ at[w] = "exit"
    /\ thread' = IF thread = w THEN None ELSE thread
    /\ accepted' = Pruned(accepted)
    /\ Restores /\ reqFile' = Nothing /\ Here(w, "off")
    /\ UNCHANGED <<extension, fresh, procFile, resFile, saved, job, loaded>>

\* The watcher's finally: the last one restores the autoreloader; with a lease that came
\* meanwhile it starts a watcher again.
WatcherExits(w) ==
    /\ at[w] = "exit"
    /\ thread' = IF thread = w THEN None ELSE thread
    /\ accepted' = Pruned(accepted)
    /\ IF accepted' = {}
       THEN Restores /\ reqFile' = Nothing /\ Here(w, "off")
       ELSE UNCHANGED <<suppressed, reqFile>> /\ Here(w, "enter")
    /\ UNCHANGED <<extension, fresh, procFile, resFile, saved, job, loaded>>

-----------------------------------------------------------------------------
Manager == Want \/ (\E l \in Lease : OfferLease(l)) \/ LeaseGranted \/ Lapse \/ Retire \/ Unwant

Drain(b) ==
    \/ DrainBegins(b) \/ DrainUnlinks(b) \/ DrainPublishes(b) \/ DrainSent(b)
    \/ DrainReads(b) \/ DrainTakes(b) \/ PollEnds(b) \/ DrainChecks(b)

Watcher(w) ==
    \/ EnterStart(w) \/ StartWatcher(w) \/ WatcherWakes(w) \/ WatcherReads(w)
    \/ WatcherReloads(w) \/ WatcherPublishes(w) \/ WatcherClears(w) \/ WatcherExits(w)

ControlThread == AcquireLease \/ EnterStart(Control) \/ StartWatcher(Control) \/ AcquireFails

Next ==
    \/ Manager \/ TimerFires \/ ControlThread
    \/ \E f \in File : Save(f)
    \/ \E b \in Batch : Drain(b)
    \/ \E w \in Thread : Watcher(w)

Spec == Init /\ [][Next]_vars

-----------------------------------------------------------------------------
(* Properties *)

\* Nobody in the target is on the way to start or to end a watcher.
Settled == at[Control] = "off" /\ \A w \in Thread : at[w] \notin {"exit", "enter", "start"}

\* A lease that arrives while the watcher is leaving is seen by one of the two: a target
\* with a live lease has a watcher and is suppressed (debugpyInjector.ts:928).
LeasedTargetIsWatched ==
    Settled /\ Pruned(accepted) # {} =>
        suppressed /\ thread # None /\ at[thread] # "off"

\* What the extension reports as reloaded is loaded, in the version that was saved when
\* the request was made or a later one (debugpyInjector.ts:1510).
ReportedIsLoaded ==
    [][\A b \in Batch :
         drain[b].pc # "idle" /\ drain'[b].pc = "idle" /\ drain'[b].outcome = "reloaded"
         => LET q == sent[drain[b].req] IN \A f \in q.files : loaded[f] >= q.ver[f]]_vars

\* A change the extension has noted is forgotten only with its target, or by the drain it is in
\* flight with: one that has told its outcome, or whose lease no longer counts when it ends.  A
\* batch that is aborted for a wanted target hands every file on (extension.ts:2182).
Held == ext.backlog \cup ext.pending \cup ext.inFlight
DrainEnds(b) == ext.batch = b /\ drain[b].pc # "idle" /\ drain'[b].pc = "idle"
ChangesAreKept ==
    [][\A f \in Held \ Held' :
         \/ ~wanted'
         \/ /\ f \in ext.inFlight
            /\ \E b \in Batch :
                 /\ DrainEnds(b)
                 /\ \/ drain'[b].outcome \in {"reloaded", "failed", "timedOut"}
                    \/ drain'[b].outcome = "cancelled" /\ Active(lease) # drain[b].lease]_vars

=============================================================================
