---------------------------- MODULE McpController ----------------------------
(***************************************************************************)
(* DjangoMcpDebugController (src/mcp/debugController.ts): the tool calls   *)
(* of an MCP client, the records of the debug sessions they name, and the  *)
(* two streams that move a record: VS Code's session events and the debug  *)
(* adapter's messages as the tracker of src/extension.ts passes them on.   *)
(*                                                                         *)
(* A handler runs to its first await in one step and every continuation is *)
(* a step of its own; a waiter that an event wakes returns in the event's  *)
(* step (only microtasks lie between).                                     *)
(*                                                                         *)
(* A stop, frame or variables reference is random and belongs to one stop  *)
(* of one session: it is modelled as <<record, epoch>>.  Whether a dead    *)
(* reference is still in the stale history decides an error code only.     *)
(* sessionsById is the inverse of the records' field session: the code     *)
(* sets and clears the two in the same steps.                              *)
(***************************************************************************)
EXTENDS Integers, Sequences, FiniteSets

CONSTANTS Caller,      \* tool calls that can be in flight together
          Vs,          \* VS Code debug sessions
          Target,      \* target references
          None,
          MaxRef,      \* bound on session records
          MaxCalls,    \* bound on tool calls
          MaxMessages, \* bound on the events an adapter sends
          MaxRequests  \* bound on the adapter requests of one inspection

ASSUME ControllerAssumption ==
    /\ None \notin Vs \cup Target \cup Caller
    /\ MaxRef \in Nat \ {0} /\ MaxCalls \in Nat
    /\ MaxMessages \in Nat /\ MaxRequests \in Nat \ {0}

VARIABLES
    targets,     \* this.targets: "none" not issued, "live", "gone" used or expired
    rec,         \* the SessionRecords
    call,        \* the tool call of each caller
    made,        \* how many calls were made
    owned,       \* ownedBreakpoints: the call that made the list, 0 if empty
    editor,      \* the lists whose breakpoints VS Code has
    vs,          \* VS Code's view of every session
    finalizing,  \* debugSessionFinalizations
    adapter      \* the debug adapters and their unread messages

vars == <<targets, rec, call, made, owned, editor, vs, finalizing, adapter>>
breakpoints == <<owned, editor>>

Ref == 1..MaxRef
NoRef == 0
Dead == {"terminating", "terminated"}

SessionRecord ==
    [state   : {"none", "starting", "running", "stopped"} \cup Dead,
     known   : BOOLEAN,                  \* in this.sessions
     session : Vs \cup {None},
     target  : Target \cup {None},       \* history: the target it was started for
     ready   : BOOLEAN,                  \* adapterReady
     control : BOOLEAN,                  \* controlInFlight
     epoch   : 0..(2 * MaxMessages),     \* stopEpoch
     seen    : 0..MaxMessages,           \* history: the adapter's number of that stop
     cursor  : Nat]                      \* nextCursor - 1

Call ==
    [op    : {"none", "start", "wait", "ready", "inspect", "resume", "pause",
              "disconnect", "breakpoints"},
     pc    : {"idle", "revalidate", "launch", "waiting", "asked", "served",
              "answered", "sent", "executed", "settled", "stopping",
              "resolving", "returned"},
     ref   : Ref \cup {NoRef},
     target: Target \cup {None},
     mark  : Nat,     \* the cursor, stop epoch or list of breakpoints the call holds
     named : Nat,     \* history: the adapter's number of the stop it is about
     data  : Nat,     \* history: the stop the newest answer was computed at
     left  : 0..MaxRequests]

Kinds == {"ready", "rejected", "stopped", "continued", "ended", "notice",
          "response", "reply"}
Message == [kind : Kinds, no : 0..MaxMessages, call : Caller \cup {None}]

TypeOK ==
    /\ targets \in [Target -> {"none", "live", "gone"}]
    /\ rec \in [Ref -> SessionRecord]
    /\ call \in [Caller -> Call]
    /\ made \in 0..MaxCalls /\ owned \in 0..MaxCalls /\ editor \subseteq 1..MaxCalls
    /\ vs \in [Vs -> [cfg : Ref \cup {NoRef}, started : BOOLEAN, over : BOOLEAN,
                      ready : BOOLEAN, failed : BOOLEAN]]
    /\ finalizing \subseteq Vs
    /\ adapter \in [Vs -> [phase : {"off", "starting", "up", "ended"},
                           exec : {"running", "stopped"}, stops : 0..MaxMessages,
                           halted : Nat,
                           sent : 0..MaxMessages, queue : Seq(Message)]]

NoRecord == [state |-> "none", known |-> FALSE, session |-> None, target |-> None,
             ready |-> FALSE, control |-> FALSE, epoch |-> 0, seen |-> 0, cursor |-> 0]
NoCall == [op |-> "none", pc |-> "idle", ref |-> NoRef, target |-> None, mark |-> 0,
           named |-> 0, data |-> 0, left |-> 0]

Init ==
    /\ targets = [t \in Target |-> "none"]
    /\ rec = [r \in Ref |-> NoRecord]
    /\ call = [c \in Caller |-> NoCall]
    /\ made = 0 /\ owned = 0 /\ editor = {}
    /\ vs = [v \in Vs |-> [cfg |-> NoRef, started |-> FALSE, over |-> FALSE,
                            ready |-> FALSE, failed |-> FALSE]]
    /\ finalizing = {}
    /\ adapter = [v \in Vs |-> [phase |-> "off", exec |-> "running", stops |-> 0,
                                halted |-> 0, sent |-> 0, queue |-> <<>>]]

-----------------------------------------------------------------------------
(* Records *)

Fresh(R) == CHOOSE r \in Ref : R[r].state = "none"
MayMint == \E r \in Ref : rec[r].state = "none"

\* sessionsById
Bound(R, v) == IF \E r \in Ref : R[r].session = v
               THEN CHOOSE r \in Ref : R[r].session = v
               ELSE NoRef

\* appendEvent
Append1(rc) == [rc EXCEPT !.cursor = @ + 1]

\* invalidateStop
Invalidate(rc, state) ==
    [rc EXCEPT !.state = state,
               !.epoch = IF rc.state = "stopped" THEN @ + 1 ELSE @,
               !.ready = @ /\ state \notin Dead]

\* requireLiveDebugSession
Live(r) == /\ rec[r].known
           /\ rec[r].session # None
           /\ rec[r].state \in {"running", "stopped"}

\* ensureEpoch, requireCurrentStop and requireCurrentFrame
Current(r, epoch) == rec[r].state = "stopped" /\ rec[r].epoch = epoch

\* handleSessionStarted: the record of session v; a retired hidden reference has none
StartedRecord(R, v) ==
    IF vs[v].cfg # NoRef
    THEN IF R[vs[v].cfg].known THEN vs[v].cfg ELSE NoRef
    ELSE IF Bound(R, v) # NoRef THEN Bound(R, v) ELSE Fresh(R)

Started(rc, v) ==
    [rc EXCEPT !.known = TRUE,
               !.session = v,
               !.state = IF @ \in {"none", "starting"} THEN "running" ELSE @,
               !.cursor = IF rc.session = v THEN @ ELSE @ + 1]

Bind(R, v) ==
    LET r == StartedRecord(R, v) IN
    IF r = NoRef \/ R[r].state = "terminated" THEN R
    ELSE [R EXCEPT ![r] = Started(R[r], v)]

\* handleSessionTerminated
Ended(rc) ==
    [IF rc.state = "terminated" THEN rc
     ELSE Append1(Invalidate(rc, "terminated")) EXCEPT !.session = None]

Unbind(R, v) ==
    LET r == IF Bound(R, v) # NoRef THEN Bound(R, v)
             ELSE IF vs[v].cfg # NoRef /\ R[vs[v].cfg].known THEN vs[v].cfg ELSE NoRef
    IN IF r = NoRef THEN R ELSE [R EXCEPT ![r] = Ended(R[r])]

\* Mutant: the discarded record gets a state of its own.
DiscardMarked(R, r) ==
    [R EXCEPT ![r] = [Invalidate(R[r], "discarded") EXCEPT !.known = FALSE, !.session = None]]

\* discardRejectedSession
Discard(R, r) ==
    [R EXCEPT ![r] = [Invalidate(R[r], "terminated") EXCEPT !.known = FALSE, !.session = None]]

\* handleDapMessage, once the record is known
After(rc, m) ==
    CASE m.kind = "ready" /\ rc.state # "terminating" /\ ~rc.ready ->
            Append1([rc EXCEPT !.ready = TRUE, !.state = IF @ = "starting" THEN "running" ELSE @])
      [] m.kind = "stopped" ->
            Append1([rc EXCEPT !.state = "stopped", !.epoch = @ + 1, !.seen = m.no])
      [] m.kind = "continued" -> Append1(Invalidate(rc, "running"))
      [] m.kind = "ended" -> Append1(Invalidate(rc, "terminated"))
      [] m.kind = "notice" -> Append1(rc)
      [] OTHER -> rc

\* handleDapMessage
Handle(R, v, m) ==
    LET B == IF Bound(R, v) = NoRef THEN Bind(R, v) ELSE R
        r == Bound(B, v)
    IN CASE r = NoRef -> B
         [] r # NoRef /\ B[r].state = "terminated" -> B
         [] r # NoRef /\ B[r].state # "terminated" /\ m.kind = "rejected" -> Unbind(B, v)
         [] OTHER -> [B EXCEPT ![r] = After(B[r], m)]

-----------------------------------------------------------------------------
(* Waiters: appendEvent and discardRejectedSession wake every one of them. *)

\* Mutant: discardRejectedSession wakes nobody.
WokenByEvents(r) == rec'[r].cursor # rec[r].cursor

Woken(r) == rec'[r].cursor # rec[r].cursor \/ rec'[r].known # rec[r].known

\* A woken waitForExecution returns; waitForSessionReady looks at the record again.
Settled(cl) == \/ cl.op = "wait"
               \/ cl.op = "ready" /\ \/ rec'[cl.ref].ready
                                     \/ rec'[cl.ref].state \in {"stopped"} \cup Dead

\* The calls after a step that changes the records, from what it makes of them itself.
Notify(calls) ==
    call' = [c \in Caller |->
               IF calls[c].pc = "waiting" /\ Woken(calls[c].ref) /\ Settled(calls[c])
               THEN NoCall ELSE calls[c]]

NewCall(c, cl) ==
    /\ call' = [call EXCEPT ![c] = cl]
    /\ made' = made + 1

MayCall(c) == call[c].pc \in {"idle", "returned"} /\ made < MaxCalls

Reply(c) == call' = [call EXCEPT ![c] = NoCall]

-----------------------------------------------------------------------------
(* Targets and the start of a session *)

\* listTargets issues a reference; purgeExpiredTargets drops the expired ones.
ListTarget(t) ==
    /\ targets[t] = "none"
    /\ \E expired \in SUBSET {u \in Target : targets[u] = "live"} :
         targets' = [u \in Target |-> IF u = t THEN "live"
                                      ELSE IF u \in expired THEN "gone" ELSE targets[u]]
    /\ UNCHANGED <<rec, call, made, breakpoints, vs, finalizing, adapter>>

\* Mutant: the reference is used up only when the session is known to start.
StartKeepsTarget(c, t) ==
    /\ MayCall(c)
    /\ targets[t] = "live"
    /\ NewCall(c, [NoCall EXCEPT !.op = "start", !.pc = "revalidate", !.target = t])
    /\ UNCHANGED <<targets, rec, breakpoints, vs, finalizing, adapter>>

\* startSession up to the await in revalidateTarget; the reference is used up by then.
StartSession(c, t) ==
    /\ MayCall(c)
    /\ targets[t] = "live"
    /\ targets' = [targets EXCEPT ![t] = "gone"]
    /\ NewCall(c, [NoCall EXCEPT !.op = "start", !.pc = "revalidate", !.target = t])
    /\ UNCHANGED <<rec, breakpoints, vs, finalizing, adapter>>

\* ... the process is still the target's: the record, its first event, startDebugging.
Revalidated(c) ==
    /\ call[c].pc = "revalidate"
    /\ MayMint
    /\ LET r == Fresh(rec) IN
         /\ rec' = [rec EXCEPT ![r] = [NoRecord EXCEPT !.state = "starting", !.known = TRUE,
                                                       !.target = call[c].target, !.cursor = 1]]
         /\ call' = [call EXCEPT ![c].pc = "launch", ![c].ref = r]
    /\ UNCHANGED <<targets, made, breakpoints, vs, finalizing, adapter>>

\* ... or it is not: TARGET_CHANGED.
TargetChanged(c) ==
    /\ call[c].pc = "revalidate"
    /\ Reply(c)
    /\ UNCHANGED <<targets, rec, made, breakpoints, vs, finalizing, adapter>>

\* startDebugging resolves, maybe before the session's events and maybe after them.
Launched(c) ==
    /\ call[c].pc = "launch"
    /\ Reply(c)
    /\ UNCHANGED <<targets, rec, made, breakpoints, vs, finalizing, adapter>>

\* It rejects, or resolves to false: the record is discarded.
LaunchRefused(c) ==
    /\ call[c].pc = "launch"
    /\ rec' = Discard(rec, call[c].ref)
    /\ Notify([call EXCEPT ![c] = NoCall])
    /\ UNCHANGED <<targets, made, breakpoints, vs, finalizing, adapter>>

-----------------------------------------------------------------------------
(* Waiting for events *)

\* waitForExecution waits if nothing is newer than the cursor it is given; otherwise it
\* returns the newer events at once, which changes nothing.
WaitForExecution(c, r) ==
    /\ MayCall(c)
    /\ rec[r].known
    /\ NewCall(c, [NoCall EXCEPT !.op = "wait", !.pc = "waiting", !.ref = r,
                                 !.mark = rec[r].cursor])
    /\ UNCHANGED <<targets, rec, breakpoints, vs, finalizing, adapter>>

\* waitForSessionReady
WaitForReady(c, r) ==
    /\ MayCall(c)
    /\ rec[r].known
    /\ ~rec[r].ready /\ rec[r].state \in {"starting", "running"}
    /\ NewCall(c, [NoCall EXCEPT !.op = "ready", !.pc = "waiting", !.ref = r])
    /\ UNCHANGED <<targets, rec, breakpoints, vs, finalizing, adapter>>

\* The timer of a wait, or the cancellation of its request.
WaitEnds(c) ==
    /\ call[c].pc = "waiting"
    /\ Reply(c)
    /\ UNCHANGED <<targets, rec, made, breakpoints, vs, finalizing, adapter>>

-----------------------------------------------------------------------------
(* Inspection: snapshots, variables, request context and expressions.  All *)
(* of them send requests to the adapter one after the other and check the  *)
(* stop they are about when each answer is in.                             *)

\* requireStoppedSession and the references' own checks, then the first request
Ask(c, r, epoch, requests) ==
    /\ MayCall(c)
    /\ Live(r)
    /\ Current(r, epoch)
    /\ NewCall(c, [NoCall EXCEPT !.op = "inspect", !.pc = "asked", !.ref = r, !.mark = epoch,
                                 !.named = rec[r].seen, !.left = requests])
    /\ UNCHANGED <<targets, rec, breakpoints, vs, finalizing, adapter>>

\* With or without a stopRef or a frameRef: both have to be of the current stop.
StateSnapshot(c, r) == Ask(c, r, rec[r].epoch, MaxRequests)

\* The caller's reference names the epoch; only the current one is accepted.
ExpandVariables(c, r, epoch) == Ask(c, r, epoch, 1)
RequestContext(c, r, epoch) == Ask(c, r, epoch, MaxRequests)
InspectExpression(c, r, epoch) == Ask(c, r, epoch, 1)

\* Without a reference it takes the only session that is stopped.
FailureSnapshot(c) ==
    \E r \in Ref :
        /\ \A q \in Ref : rec[q].known /\ rec[q].session # None /\ rec[q].state = "stopped" => q = r
        /\ StateSnapshot(c, r)

\* Mutant: the answers are collected without a look at the stop.
InspectUnchecked(c) ==
    LET cl == call[c] IN
    /\ cl.op = "inspect" /\ cl.pc = "answered"
    /\ \/ cl.left > 1 /\ call' = [call EXCEPT ![c].pc = "asked", ![c].left = @ - 1]
       \/ call' = [call EXCEPT ![c].pc = "returned"]
    /\ UNCHANGED <<targets, rec, made, breakpoints, vs, finalizing, adapter>>

\* The answer is in: check the stop, then ask for more or return what was collected.
InspectContinues(c) ==
    LET cl == call[c] IN
    /\ cl.op = "inspect" /\ cl.pc = "answered"
    /\ IF ~Current(cl.ref, cl.mark) THEN Reply(c)
       ELSE \/ cl.left > 1 /\ call' = [call EXCEPT ![c].pc = "asked", ![c].left = @ - 1]
            \/ call' = [call EXCEPT ![c].pc = "returned"]
    /\ UNCHANGED <<targets, rec, made, breakpoints, vs, finalizing, adapter>>

-----------------------------------------------------------------------------
(* controlExecution *)

Controls(r, value) == rec' = [rec EXCEPT ![r].control = value]

\* availableThreadId: a thread that is not known is looked up.
AvailableThread(known) == IF known THEN "sent" ELSE "asked"

\* Resume or step from the stop the caller names; the thread may have to be looked up.
Resume(c, r, epoch) ==
    /\ MayCall(c)
    /\ Live(r) /\ ~rec[r].control
    /\ Current(r, epoch)
    /\ Controls(r, TRUE)
    /\ \E known \in BOOLEAN :
         NewCall(c, [NoCall EXCEPT !.op = "resume", !.pc = AvailableThread(known),
                                  !.ref = r, !.mark = epoch, !.named = rec[r].seen])
    /\ UNCHANGED <<targets, breakpoints, vs, finalizing, adapter>>

\* Pause always looks its thread up.
Pause(c, r) ==
    /\ MayCall(c)
    /\ Live(r) /\ ~rec[r].control
    /\ rec[r].state # "stopped"
    /\ Controls(r, TRUE)
    /\ NewCall(c, [NoCall EXCEPT !.op = "pause", !.pc = AvailableThread(FALSE), !.ref = r])
    /\ UNCHANGED <<targets, breakpoints, vs, finalizing, adapter>>

\* Mutant: the stop is not checked again after the look-up.
ThreadFoundUnchecked(c) ==
    LET cl == call[c] IN
    /\ cl.op \in {"resume", "pause"} /\ cl.pc = "answered"
    /\ call' = [call EXCEPT ![c].pc = "sent"]
    /\ UNCHANGED <<targets, rec, made, breakpoints, vs, finalizing, adapter>>

\* availableThreadId has answered: check again, and send the request or give up.
ThreadFound(c) ==
    LET cl == call[c]
        valid == IF cl.op = "resume" THEN Current(cl.ref, cl.mark)
                 ELSE Live(cl.ref) /\ rec[cl.ref].state # "stopped"
    IN
    /\ cl.op \in {"resume", "pause"} /\ cl.pc = "answered"
    /\ IF valid THEN call' = [call EXCEPT ![c].pc = "sent"] /\ UNCHANGED rec
       ELSE Reply(c) /\ Controls(cl.ref, FALSE)
    /\ UNCHANGED <<targets, made, breakpoints, vs, finalizing, adapter>>

\* Mutant: whatever the record says by now, it runs.
ControlReplyRuns(c) ==
    LET cl == call[c]
        rc == rec[cl.ref] IN
    /\ cl.pc = "settled"
    /\ rec' = [rec EXCEPT ![cl.ref] =
                 [IF cl.op = "resume" /\ rc.state = "stopped"
                  THEN Invalidate(rc, "running") ELSE rc EXCEPT !.control = FALSE]]
    /\ Reply(c)
    /\ UNCHANGED <<targets, made, breakpoints, vs, finalizing, adapter>>

\* The adapter's answer to the request: the stop is over unless it is another one by now.
ControlReply(c) ==
    LET cl == call[c]
        rc == rec[cl.ref] IN
    /\ cl.pc = "settled"
    /\ rec' = [rec EXCEPT ![cl.ref] =
                 [IF cl.op = "resume" /\ Current(cl.ref, cl.mark)
                  THEN Invalidate(rc, "running") ELSE rc EXCEPT !.control = FALSE]]
    /\ Reply(c)
    /\ UNCHANGED <<targets, made, breakpoints, vs, finalizing, adapter>>

Disconnect(c, r) ==
    /\ MayCall(c)
    /\ Live(r) /\ ~rec[r].control
    /\ Controls(r, TRUE)
    /\ NewCall(c, [NoCall EXCEPT !.op = "disconnect", !.pc = "stopping", !.ref = r])
    /\ UNCHANGED <<targets, breakpoints, vs, finalizing, adapter>>

\* Mutant: an accepted disconnect moves the record whatever has happened to it.
DisconnectedAlways(c) ==
    LET r == call[c].ref IN
    /\ call[c].pc = "stopping"
    /\ \E accepted \in BOOLEAN :
         rec' = [rec EXCEPT ![r] =
                  [IF accepted THEN Invalidate(rec[r], "terminating") ELSE rec[r]
                   EXCEPT !.control = FALSE]]
    /\ Reply(c)
    /\ UNCHANGED <<targets, made, breakpoints, vs, finalizing, adapter>>

\* stopDebugging resolves; a session that has ended meanwhile stays terminated.
Disconnected(c) ==
    LET r == call[c].ref IN
    /\ call[c].pc = "stopping"
    /\ \E accepted \in BOOLEAN :
         rec' = [rec EXCEPT ![r] =
                  [IF accepted /\ rec[r].state # "terminated" /\ rec[r].session # None
                   THEN Invalidate(rec[r], "terminating") ELSE rec[r] EXCEPT !.control = FALSE]]
    /\ Reply(c)
    /\ UNCHANGED <<targets, made, breakpoints, vs, finalizing, adapter>>

\* A request the adapter rejects or, being gone, never sees.
RequestFails(c) ==
    LET cl == call[c] IN
    /\ cl.pc \in {"asked", "sent"}
    /\ IF cl.op = "inspect" THEN UNCHANGED rec ELSE Controls(cl.ref, FALSE)
    /\ Reply(c)
    /\ UNCHANGED <<targets, made, breakpoints, vs, finalizing, adapter>>

-----------------------------------------------------------------------------
(* Breakpoints *)

\* updateBreakpoints resolves every source before it touches the old list.
UpdateBreakpoints(c) ==
    /\ MayCall(c)
    /\ NewCall(c, [NoCall EXCEPT !.op = "breakpoints", !.pc = "resolving", !.mark = made + 1])
    /\ UNCHANGED <<targets, rec, breakpoints, vs, finalizing, adapter>>

\* Mutant: the new list is recorded before VS Code has taken it.
SwapRecordsFirst(c) ==
    /\ call[c].pc = "resolving"
    /\ owned' = call[c].mark
    /\ editor' \in {(editor \ {owned}) \cup {call[c].mark}, editor, editor \ {owned}}
    /\ Reply(c)
    /\ UNCHANGED <<targets, rec, made, vs, finalizing, adapter>>

\* ... of which one is missing, ambiguous or outside the workspace: resolveBreakpointSource
\* throws and the old list stays.
BreakpointsRefused(c) ==
    /\ call[c].pc = "resolving"
    /\ Reply(c)
    /\ UNCHANGED <<targets, rec, made, breakpoints, vs, finalizing, adapter>>

\* ... and then swaps the lists; if VS Code throws it puts the old one back, if it can.
SwapBreakpoints(c) ==
    /\ call[c].pc = "resolving"
    /\ \/ owned' = call[c].mark /\ editor' = (editor \ {owned}) \cup {call[c].mark}
       \/ UNCHANGED owned /\ editor' \in {editor, editor \ {owned}}
    /\ Reply(c)
    /\ UNCHANGED <<targets, rec, made, vs, finalizing, adapter>>

\* clearOwnedBreakpoints, the user's command
ClearOwnedBreakpoints ==
    /\ owned # 0
    /\ owned' = 0 /\ editor' = editor \ {owned}
    /\ UNCHANGED <<targets, rec, call, made, vs, finalizing, adapter>>

-----------------------------------------------------------------------------
(* VS Code and the extension's session events *)

\* VS Code creates the session a startDebugging asked for, or one of the user's.
CreateSession(v, r) ==
    /\ adapter[v].phase = "off"
    /\ r = NoRef \/ /\ \E c \in Caller : call[c].pc = "launch" /\ call[c].ref = r
                    /\ \A w \in Vs : vs[w].cfg # r
    /\ vs' = [vs EXCEPT ![v].cfg = r]
    /\ adapter' = [adapter EXCEPT ![v].phase = "starting"]
    /\ UNCHANGED <<targets, rec, call, made, breakpoints, finalizing>>

\* finalizeDebugSession, which runs only once at a time for a session if it is queued
Finalize(v, R) ==
    /\ rec' = IF v \in finalizing THEN R ELSE Unbind(R, v)
    /\ finalizing' = finalizing \cup {v}

CanBind(v) == vs[v].cfg = NoRef /\ Bound(rec, v) = NoRef => MayMint

\* onDidStartDebugSession
SessionStarted(v) ==
    /\ adapter[v].phase # "off" /\ ~vs[v].started /\ ~vs[v].over
    /\ CanBind(v)
    /\ rec' = IF vs[v].failed THEN Unbind(rec, v) ELSE Bind(rec, v)
    /\ vs' = [vs EXCEPT ![v].started = TRUE]
    /\ Notify(call)
    /\ UNCHANGED <<targets, made, breakpoints, finalizing, adapter>>

\* onDidTerminateDebugSession, when the adapter is done and its messages are read
SessionTerminated(v) ==
    /\ adapter[v].phase = "ended" /\ adapter[v].queue = <<>> /\ ~vs[v].over
    /\ Finalize(v, rec)
    /\ vs' = [vs EXCEPT ![v].over = TRUE]
    /\ Notify(call)
    /\ UNCHANGED <<targets, made, breakpoints, adapter>>

\* The lock and lease of the session are released: its finalization is over.
Finalized(v) ==
    /\ v \in finalizing
    /\ finalizing' = finalizing \ {v}
    /\ UNCHANGED <<targets, rec, call, made, breakpoints, vs, adapter>>

\* onDidSendMessage of the tracker.  A reply settles the promise of its call.
MessageArrives(v) ==
    /\ adapter[v].queue # <<>>
    /\ CanBind(v)
    /\ LET m == Head(adapter[v].queue)
           R == Handle(rec, v, m)
           over == m.kind \in {"rejected", "ended"}
       IN /\ IF over THEN Finalize(v, R) ELSE rec' = R /\ UNCHANGED finalizing
          /\ vs' = [vs EXCEPT ![v].ready = @ \/ m.kind = "ready",
                              ![v].failed = @ \/ (over /\ ~vs[v].ready)]
          /\ Notify(IF m.kind # "reply" THEN call
                    ELSE [call EXCEPT ![m.call].pc = IF @ = "served" THEN "answered" ELSE "settled",
                                      ![m.call].data = m.no])
    /\ adapter' = [adapter EXCEPT ![v].queue = Tail(@)]
    /\ UNCHANGED <<targets, made, breakpoints>>

-----------------------------------------------------------------------------
(* The debug adapter.  Its events and answers travel in one stream.  It stops threads one by *)
(* one: halted is how many are stopped, and exec is "stopped" while none has been resumed   *)
(* since the latest stop, the one of number stops.                                          *)

Send(a, kind, no, c) ==
    [a EXCEPT !.queue = Append(@, [kind |-> kind, no |-> no, call |-> c]),
              !.sent = IF c = None THEN @ + 1 ELSE @]

Becomes(v, a) ==
    /\ adapter' = [adapter EXCEPT ![v] = a]
    /\ UNCHANGED <<targets, rec, made, breakpoints, vs, finalizing>>

MaySend(v) == adapter[v].sent < MaxMessages

\* configurationDone succeeds
AdapterReady(v) ==
    /\ adapter[v].phase = "starting" /\ MaySend(v)
    /\ Becomes(v, Send([adapter[v] EXCEPT !.phase = "up"], "ready", 0, None))
    /\ UNCHANGED call

\* initialize, attach or configurationDone is rejected, or the adapter ends.
AdapterEnds(v) ==
    /\ adapter[v].phase \in {"starting", "up"} /\ MaySend(v)
    /\ \E kind \in IF adapter[v].phase = "starting" THEN {"rejected", "ended"} ELSE {"ended"} :
         Becomes(v, Send([adapter[v] EXCEPT !.phase = "ended"], kind, 0, None))
    /\ UNCHANGED call

\* After "terminated" an adapter sends "exited" and the answer to VS Code's disconnect.
AdapterDisconnects(v) ==
    /\ adapter[v].phase = "ended" /\ ~vs[v].over /\ MaySend(v)
    /\ \E kind \in {"ended", "response"} : Becomes(v, Send(adapter[v], kind, 0, None))
    /\ UNCHANGED call

\* A breakpoint, a step or a pause stops a thread, whether others are stopped already or not.
AdapterStops(v) ==
    /\ adapter[v].phase = "up" /\ MaySend(v)
    /\ Becomes(v, Send([adapter[v] EXCEPT !.exec = "stopped", !.stops = @ + 1, !.halted = @ + 1],
                       "stopped", adapter[v].stops + 1, None))
    /\ UNCHANGED call

\* All threads of adapter a run but n; it may announce that some go on.
Runs(a, n) == [a EXCEPT !.exec = "running", !.halted = n]

MayAnnounce(a) ==
    {a} \cup IF a.sent < MaxMessages THEN {Send(a, "continued", 0, None)} ELSE {}

\* The user resumes one thread or all from the editor.
UserContinues(v) ==
    /\ adapter[v].phase = "up" /\ adapter[v].halted > 0
    /\ \E n \in {0, adapter[v].halted - 1} :
         \E a \in MayAnnounce(Runs(adapter[v], n)) : Becomes(v, a)
    /\ UNCHANGED call

\* thread and breakpoint events
AdapterNotes(v) ==
    /\ adapter[v].phase = "up" /\ MaySend(v)
    /\ Becomes(v, Send(adapter[v], "notice", 0, None))
    /\ UNCHANGED call

\* The adapter answers an inspection or a look-up of threads.
AdapterServes(v, c) ==
    /\ adapter[v].phase = "up"
    /\ call[c].pc = "asked" /\ rec[call[c].ref].session = v
    /\ Becomes(v, Send(adapter[v], "reply", adapter[v].stops, c))
    /\ call' = [call EXCEPT ![c].pc = "served"]

\* The adapter executes a resume or pause request that reaches it.  The controller's request
\* names no singleThread: a resume restarts every stopped thread.
AdapterExecutes(v, c) ==
    /\ adapter[v].phase = "up"
    /\ call[c].pc = "sent" /\ rec[call[c].ref].session = v
    /\ IF call[c].op = "resume"
       THEN \E a \in MayAnnounce(Send(Runs(adapter[v], 0), "reply", adapter[v].stops, c)) :
              Becomes(v, a)
       ELSE Becomes(v, Send(adapter[v], "reply", adapter[v].stops, c))
    /\ call' = [call EXCEPT ![c].pc = "executed", ![c].data = adapter[v].stops]

-----------------------------------------------------------------------------
ToolCall(c) ==
    \/ \E t \in Target : StartSession(c, t)
    \/ Revalidated(c) \/ TargetChanged(c) \/ Launched(c) \/ LaunchRefused(c)
    \/ \E r \in Ref : \/ WaitForExecution(c, r)
                      \/ WaitForReady(c, r)
                      \/ StateSnapshot(c, r)
                      \/ \E epoch \in 1..rec[r].epoch :
                           \/ ExpandVariables(c, r, epoch) \/ RequestContext(c, r, epoch)
                           \/ InspectExpression(c, r, epoch) \/ Resume(c, r, epoch)
                      \/ Pause(c, r)
                      \/ Disconnect(c, r)
    \/ FailureSnapshot(c)
    \/ WaitEnds(c) \/ InspectContinues(c) \/ ThreadFound(c) \/ ControlReply(c)
    \/ Disconnected(c) \/ RequestFails(c) \/ UpdateBreakpoints(c)
    \/ BreakpointsRefused(c) \/ SwapBreakpoints(c)

Session(v) ==
    \/ \E r \in Ref \cup {NoRef} : CreateSession(v, r)
    \/ SessionStarted(v) \/ SessionTerminated(v) \/ Finalized(v) \/ MessageArrives(v)

Adapter(v) ==
    \/ AdapterReady(v) \/ AdapterEnds(v) \/ AdapterDisconnects(v) \/ AdapterStops(v)
    \/ UserContinues(v) \/ AdapterNotes(v)
    \/ \E c \in Caller : AdapterServes(v, c) \/ AdapterExecutes(v, c)

Next ==
    \/ \E t \in Target : ListTarget(t)
    \/ \E c \in Caller : ToolCall(c)
    \/ \E v \in Vs : Session(v) \/ Adapter(v)
    \/ ClearOwnedBreakpoints

Spec == Init /\ [][Next]_vars

-----------------------------------------------------------------------------
(* Properties *)

\* An answer to a control request never hides a stop (debugController.ts:1698): once
\* everything the adapter has said was heard, a target of which no thread was resumed since
\* its latest stop has a record that says it is stopped, with that stop, unless it is being
\* ended.  (A thread that stays stopped when another one goes on has a record that runs.)
StopsAreKnown ==
    \A v \in Vs, r \in Ref :
        /\ rec[r].session = v /\ adapter[v].queue = <<>>
        /\ adapter[v].phase = "up" /\ adapter[v].exec = "stopped"
        => \/ rec[r].state \in Dead
           \/ rec[r].state = "stopped" /\ rec[r].seen = adapter[v].stops

\* What an inspection returns under a stop's reference was computed before any
\* later stop of the target (ensureEpoch after every await, debugController.ts:2311).
InspectionIsOfItsStop ==
    \A c \in Caller : call[c].op = "inspect" /\ call[c].pc = "returned"
                        => call[c].data <= call[c].named

\* A resume request leaves only while the stop its caller named is the current
\* one, however long the look-up of a thread took (debugController.ts:1671).
ResumesAreCurrent ==
    [][\A c \in Caller : call'[c].op = "resume" /\ call'[c].pc = "sent" /\ call[c].pc # "sent"
         => Current(call'[c].ref, call'[c].mark)]_vars

\* A target reference starts at most one session, also when two calls present it
\* at once ("Capabilities are one-shot", debugController.ts:819).
TargetsAreOneShot ==
    \A q, r \in Ref : rec[q].target # None /\ rec[q].target = rec[r].target => q = r

\* A record that has terminated stays so, although an accepted disconnect or a late
\* message comes after the end (debugController.ts:1628), and the reference of a start
\* that VS Code refused stays unknown ("must stay dead", debugController.ts:1721).
DeadStayDead ==
    [][\A r \in Ref : /\ rec[r].state = "terminated" => rec'[r].state = "terminated"
                      /\ rec[r].state # "none" /\ ~rec[r].known => ~rec'[r].known]_vars

\* No wait sleeps through an event: a call that waits has seen every event of
\* its session, and its session still exists (debugController.ts:1012).
WaitsMissNothing ==
    \A c \in Caller : call[c].pc = "waiting" =>
        /\ rec[call[c].ref].known
        /\ call[c].op = "wait" => call[c].mark = rec[call[c].ref].cursor
        /\ call[c].op = "ready" => ~rec[call[c].ref].ready /\ rec[call[c].ref].state # "stopped"

\* The editor has no MCP breakpoints but those of the current list, whichever of
\* VS Code's calls fail and however updates overlap (debugController.ts:945).
NoOrphanBreakpoints == editor \subseteq {owned}

\* After VS Code has ended a session and its finalization is over, no record says
\* that the session still runs.
EndedSessionsAreNotRunning ==
    \A v \in Vs, r \in Ref :
        vs[v].over /\ v \notin finalizing /\ rec[r].session = v
        => rec[r].state = "terminated"

=============================================================================
