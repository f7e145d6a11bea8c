------------------------------ MODULE Activation ------------------------------
(***************************************************************************)
(* Activation of a debug engine in a target process: the control thread of *)
(* the bootstrap (src/debugpyInjector.ts, the Python of                     *)
(* makeBootstrapScript), the files it publishes for the pid, and the calls  *)
(* of activateEndpoint that windows make for one pid, with what             *)
(* src/debugSession.ts and the attach command do with the endpoint.         *)
(*                                                                         *)
(* One pid is modelled with the processes that have it one after another:   *)
(* each has an identity of its own, the runtimeId of its bootstrap.  The    *)
(* files outlive their process.  A file operation, a query of lsof and one  *)
(* pass of the control thread between its file operations are single steps. *)
(***************************************************************************)
EXTENDS Integers, Sequences, FiniteSets

CONSTANTS Client,      \* attempts to attach, of any window
          Port,
          MaxRuntime,  \* bound on the processes that get the pid
          Foreign,     \* those of them that run no bootstrap
          None         \* no engine, no client

ASSUME ActivationAssumption ==
    /\ MaxRuntime \in Nat \ {0}     \* the pid has a process when the model starts
    /\ Foreign \subseteq 1..MaxRuntime
    /\ None \notin Client \cup {"debugpy", "experimental"}

VARIABLES
    proc,     \* the process that has the pid
    owner,    \* its _activated_engine
    own,      \* the entry of its owner in _engine_endpoints
    control,  \* its control thread and the request that works on
    backlog,  \* connections its control socket has not accepted yet
    listen,   \* who listens on every port
    state,    \* the runtime named in the pid's .bootstrap.json
    active,   \* the pid's active endpoint record of every engine
    call      \* the attach attempts

target == <<owner, own, control>>
files == <<state, active>>
vars == <<proc, target, backlog, listen, files, call>>

Engine == {"debugpy", "experimental"}
otherDebugEngine(e) == IF e = "debugpy" THEN "experimental" ELSE "debugpy"
Runtime == 1..MaxRuntime
Elsewhere == MaxRuntime + 1            \* a process with another pid
Token == (Client \X (1..2)) \cup {<<>>}

\* Who listens: a process, its engine and, for the experimental one, its credential.
Listener == [rt : 0..Elsewhere, engine : Engine \cup {None}, token : Token]
Free == [rt |-> 0, engine |-> None, token |-> <<>>]

\* An active endpoint record; rt = 0 for no file.
Record == [rt : 0..MaxRuntime, port : Port \cup {None}, token : Token]
NoRecord == [rt |-> 0, port |-> None, token |-> <<>>]

TypeOK ==
    /\ proc \in [id : 0..MaxRuntime, pc : {"none", "foreign", "booting", "bound", "up"}]
    /\ owner \in Engine \cup {None}
    /\ own \in Record
    /\ own # NoRecord => owner # None /\ own.rt = proc.id
    /\ control \in [pc : {"idle", "judge", "listen", "write", "store", "restore"},
                    by : Client \cup {None}, rec : Record]
    /\ backlog \in Seq(Client)
    /\ listen \in [Port -> Listener]
    /\ state \in 0..MaxRuntime
    /\ active \in [Engine -> Record]
    /\ call \in [Client ->
                   [engine : Engine, round : 1..2, port : Port,
                    pc : {"new", "state", "file", "listener", "recheck", "unlink",
                          "identity", "send", "sent", "over"},
                    why : {"own", "other", "wait", "raced"},
                    rt : 0..MaxRuntime, rec : Record, token : Token, acked : BOOLEAN,
                    end : {"none", "conflict", "noBootstrap", "channel", "notLoaded",
                           "changed", "connected"}]]

\* The first process of the pid runs a bootstrap and has published itself.
Init ==
    /\ proc = [id |-> 1, pc |-> "up"]
    /\ owner = None /\ own = NoRecord
    /\ control = [pc |-> "idle", by |-> None, rec |-> NoRecord]
    /\ backlog = <<>>
    /\ listen = [p \in Port |-> Free]
    /\ state = 1 /\ active = [e \in Engine |-> NoRecord]
    /\ call \in [Client ->
                   [engine : Engine, round : {1}, port : Port, pc : {"new"}, why : {"own"},
                    rt : {0}, rec : {NoRecord}, token : {<<>>}, acked : {FALSE}, end : {"none"}]]

-----------------------------------------------------------------------------
(* The process that has the pid *)

\* Mutant: the next process (a forked child) keeps the endpoints of its parent.
EndpointsStay ==
    /\ proc.pc # "none" /\ proc.id < MaxRuntime
    /\ proc' = [proc EXCEPT !.pc = "none"]
    /\ owner' = None
    /\ control' = [pc |-> "idle", by |-> None, rec |-> NoRecord]
    /\ backlog' = <<>>
    /\ listen' = [p \in Port |-> IF listen[p].rt = proc.id THEN Free ELSE listen[p]]
    /\ UNCHANGED <<own, files, call>>

ProcessDies ==
    /\ proc.pc # "none" /\ proc.id < MaxRuntime
    /\ proc' = [proc EXCEPT !.pc = "none"]
    /\ owner' = None /\ own' = NoRecord
    /\ control' = [pc |-> "idle", by |-> None, rec |-> NoRecord]
    /\ backlog' = <<>>
    /\ listen' = [p \in Port |-> IF listen[p].rt = proc.id THEN Free ELSE listen[p]]
    /\ UNCHANGED <<files, call>>

\* The pid is given to another process, whose bootstrap runs or is absent.
ProcessStarts ==
    /\ proc.pc = "none"
    /\ proc' = [id |-> proc.id + 1,
                pc |-> IF proc.id + 1 \in Foreign THEN "foreign" ELSE "booting"]
    /\ UNCHANGED <<target, backlog, listen, files, call>>

\* _start_activation_control_server, at start and after a fork: the socket, then the state
BindSocket ==
    /\ proc.pc = "booting"
    /\ proc' = [proc EXCEPT !.pc = "bound"]
    /\ UNCHANGED <<target, backlog, listen, files, call>>

WriteBootstrapState ==
    /\ proc.pc = "bound"
    /\ proc' = [proc EXCEPT !.pc = "up"]
    /\ state' = proc.id
    /\ UNCHANGED <<target, backlog, listen, active, call>>

\* Another process takes a port, the pid's own if that runs no bootstrap.
PortTaken(p) ==
    /\ listen[p] = Free
    /\ listen' = [listen EXCEPT ![p].rt = IF proc.pc = "foreign" THEN proc.id ELSE Elsewhere]
    /\ UNCHANGED <<proc, target, backlog, files, call>>

\* A listener ends and its process does not, as debugpy's adapter may.
PortReleased(p) ==
    /\ listen[p].rt = proc.id /\ listen[p].engine = "debugpy"
    /\ listen' = [listen EXCEPT ![p] = Free]
    /\ UNCHANGED <<proc, target, backlog, files, call>>

-----------------------------------------------------------------------------
(* The control thread: _activation_control_loop and _django_debugger_activation_handler *)

\* A connection is accepted and acknowledged before the request is handled; the answer to a
\* caller that has given up fails, and its request is dropped.
Accept ==
    /\ proc.pc = "up" /\ control.pc = "idle" /\ backlog # <<>>
    /\ backlog' = Tail(backlog)
    /\ LET c == Head(backlog) IN
         IF call[c].pc = "sent"
         THEN /\ control' = [pc |-> "judge", by |-> c,
                             rec |-> [rt |-> proc.id, port |-> call[c].port,
                                      token |-> IF call[c].engine = "experimental"
                                                THEN <<c, call[c].round>> ELSE <<>>]]
              /\ call' = [call EXCEPT ![c].acked = TRUE]
         ELSE UNCHANGED <<control, call>>
    /\ UNCHANGED <<proc, owner, own, listen, files>>

Asked == call[control.by].engine
Meant == call[control.by].rt = proc.id    \* _hmac.compare_digest of the runtime ids

\* _endpoint_is_alive: something accepts connections there.
Alive(rec) == rec # NoRecord /\ listen[rec.port] # Free

\* Mutant: every engine has a claim of its own on the process.
JudgePerEngine ==
    /\ control.pc = "judge"
    /\ state' = proc.id
    /\ owner' = IF Meant THEN Asked ELSE owner
    /\ control' = [control EXCEPT !.pc =
                     IF ~Meant THEN "idle"
                     ELSE IF owner # Asked THEN "listen"
                     ELSE IF Alive(own) THEN "restore" ELSE "idle"]
    /\ UNCHANGED <<proc, own, backlog, listen, active, call>>

\* The first engine owns the process; its endpoint is published again while it is alive.
\* (A record or an endpoint of this runtime has an owner, see RecordIsOfItsListener: the branches
\* of the code for one without are never taken.)
Judge ==
    /\ control.pc = "judge"
    /\ state' = proc.id
    /\ owner' = IF Meant /\ owner = None THEN Asked ELSE owner
    /\ control' = [control EXCEPT !.pc =
                     IF ~Meant THEN "idle"
                     ELSE IF owner = None THEN "listen"
                     ELSE IF owner = Asked /\ Alive(own) THEN "restore" ELSE "idle"]
    /\ UNCHANGED <<proc, own, backlog, listen, active, call>>

\* debugpy.listen or the tracer's start; failing, the engine stays the owner.
Listen ==
    /\ control.pc = "listen"
    /\ LET p == control.rec.port IN
         \/ /\ listen[p] = Free
            /\ listen' = [listen EXCEPT ![p] = [rt |-> proc.id, engine |-> owner,
                                                token |-> control.rec.token]]
            /\ control' = [control EXCEPT !.pc = "write"]
         \/ /\ listen[p] # Free
            /\ control' = [control EXCEPT !.pc = "idle"]
            /\ UNCHANGED listen
    /\ UNCHANGED <<proc, owner, own, backlog, files, call>>

WriteActiveEndpoint ==
    /\ control.pc = "write"
    /\ active' = [active EXCEPT ![owner] = control.rec]
    /\ control' = [control EXCEPT !.pc = "store"]
    /\ UNCHANGED <<proc, owner, own, backlog, listen, state, call>>

StoreEndpoint ==
    /\ control.pc = "store"
    /\ own' = control.rec
    /\ control' = [control EXCEPT !.pc = "idle"]
    /\ UNCHANGED <<proc, owner, backlog, listen, files, call>>

\* Mutant: the record is written from the request.
RestoreAsked ==
    /\ control.pc = "restore"
    /\ active' = [active EXCEPT ![owner] = control.rec]
    /\ control' = [control EXCEPT !.pc = "idle"]
    /\ UNCHANGED <<proc, owner, own, backlog, listen, state, call>>

RestoreEndpoint ==
    /\ control.pc = "restore"
    /\ active' = [active EXCEPT ![owner] = own]
    /\ control' = [control EXCEPT !.pc = "idle"]
    /\ UNCHANGED <<proc, owner, own, backlog, listen, state, call>>

-----------------------------------------------------------------------------
(* activateEndpoint and, in it, getActiveEndpoint *)

Step(c, pc) == [call EXCEPT ![c].pc = pc]
Over(c, end) == [call EXCEPT ![c].pc = "over", ![c].end = end]
Look(c, why) == [call EXCEPT ![c].pc = "state", ![c].why = why]

\* The engine whose endpoint c looks for.
Wanted(c) == IF call[c].why \in {"own", "wait"} THEN call[c].engine
             ELSE otherDebugEngine(call[c].engine)

\* waitForActiveEndpoint looks again, until its time is up.
KeepsWaiting(c) == call' = Look(c, "wait") \/ call' = Look(c, "raced")

\* getActiveEndpoint returns null.
NotFound(c) ==
    \/ call[c].why = "own" /\ call' = Look(c, "other")
    \/ call[c].why = "other" /\ call' = Step(c, "identity")
    \/ call[c].why = "wait" /\ KeepsWaiting(c)
    \/ call[c].why = "raced" /\ call' = Over(c, "notLoaded")

\* Mutant: the descriptor factory takes the endpoint it gets.
EndpointUnchecked(c, rec) ==
    call' = IF call[c].round = 1
            THEN [Look(c, "own") EXCEPT ![c].round = 2, ![c].token = rec.token]
            ELSE Over(c, "connected")

\* activateEndpoint returns the endpoint rec.  The first time the attach command or the
\* configuration provider takes the credential from it, the second time the descriptor factory
\* checks that it is still the same.
Endpoint(c, rec) ==
    call' = IF call[c].round = 1
            THEN [Look(c, "own") EXCEPT ![c].round = 2, ![c].token = rec.token]
            ELSE Over(c, IF rec.token = call[c].token THEN "connected" ELSE "changed")

Begin(c) ==
    /\ call[c].pc = "new"
    /\ call' = IF proc.pc = "none" THEN Over(c, "noBootstrap") ELSE Look(c, "own")
    /\ UNCHANGED <<proc, target, backlog, listen, files>>

\* readBootstrapState: the process is alive and the pid's state is readable.
Readable == proc.pc # "none" /\ state # 0

\* Without that the record is stale.
ReadState(c) ==
    /\ call[c].pc = "state"
    /\ call' = IF Readable THEN [Step(c, "file") EXCEPT ![c].rt = state]
               ELSE Step(c, "unlink")
    /\ UNCHANGED <<proc, target, backlog, listen, files>>

\* No file is an exception, which leaves the file alone.
ReadActiveFile(c) ==
    /\ call[c].pc = "file"
    /\ LET rec == active[Wanted(c)] IN
         IF rec = NoRecord THEN NotFound(c)
         ELSE call' = IF rec.rt = call[c].rt
                      THEN [Step(c, "listener") EXCEPT ![c].rec = rec] ELSE Step(c, "unlink")
    /\ UNCHANGED <<proc, target, backlog, listen, files>>

\* findListeningEndpoint: the experimental tracer listens in the process with the pid,
\* debugpy in a child of it that lsof cannot tell from other processes.
Listening(e, p) ==
    /\ listen[p] # Free
    /\ e = "experimental" => listen[p].rt = proc.id /\ proc.pc # "none"

FindListener(c) ==
    /\ call[c].pc = "listener"
    /\ call' = Step(c, IF Listening(Wanted(c), call[c].rec.port) THEN "recheck" ELSE "unlink")
    /\ UNCHANGED <<proc, target, backlog, listen, files>>

\* Mutant: only the process is looked at again.
StillAlive(c) == proc.pc # "none"

\* Finding the listener takes time: is the pid still the same runtime's?
SameRuntime(c) == Readable /\ state = call[c].rt

Recheck(c) ==
    /\ call[c].pc = "recheck"
    /\ IF SameRuntime(c)
       THEN IF call[c].why \in {"own", "wait"} THEN Endpoint(c, call[c].rec)
            ELSE call' = Over(c, "conflict")
       ELSE call' = Step(c, "unlink")
    /\ UNCHANGED <<proc, target, backlog, listen, files>>

UnlinkActiveFile(c) ==
    /\ call[c].pc = "unlink"
    /\ active' = [active EXCEPT ![Wanted(c)] = NoRecord]
    /\ NotFound(c)
    /\ UNCHANGED <<proc, target, backlog, listen, state>>

\* A valid identity of a runtime that has the engine, and a bootstrap its Python can import.
ReadIdentity(c) ==
    /\ call[c].pc = "identity"
    /\ call' = IF Readable THEN [Step(c, "send") EXCEPT ![c].rt = state]
               ELSE Over(c, "noBootstrap")
    /\ UNCHANGED <<proc, target, backlog, listen, files>>

\* sendControlRequest connects to the socket of the pid, whoever has bound it.
SendRequest(c) ==
    /\ call[c].pc = "send"
    /\ IF proc.pc \in {"bound", "up"}
       THEN /\ backlog' = Append(backlog, c)
            /\ call' = [Step(c, "sent") EXCEPT ![c].acked = FALSE]
       ELSE call' = Over(c, "channel") /\ UNCHANGED backlog
    /\ UNCHANGED <<proc, target, listen, files>>

Acknowledged(c) ==
    /\ call[c].pc = "sent" /\ call[c].acked
    /\ call' = Look(c, "wait")
    /\ UNCHANGED <<proc, target, backlog, listen, files>>

\* The connection breaks or three seconds pass.
ChannelFails(c) ==
    /\ call[c].pc = "sent"
    /\ call' = Over(c, "channel")
    /\ UNCHANGED <<proc, target, backlog, listen, files>>

-----------------------------------------------------------------------------
Process ==
    \/ ProcessDies \/ ProcessStarts \/ BindSocket \/ WriteBootstrapState
    \/ \E p \in Port : PortTaken(p) \/ PortReleased(p)

ControlThread ==
    Accept \/ Judge \/ Listen \/ WriteActiveEndpoint \/ StoreEndpoint \/ RestoreEndpoint

Attempt(c) ==
    \/ Begin(c) \/ ReadState(c) \/ ReadActiveFile(c) \/ FindListener(c) \/ Recheck(c)
    \/ UnlinkActiveFile(c) \/ ReadIdentity(c) \/ SendRequest(c) \/ Acknowledged(c) \/ ChannelFails(c)

Next == Process \/ ControlThread \/ \E c \in Client : Attempt(c)

Spec == Init /\ [][Next]_vars

-----------------------------------------------------------------------------
(* Properties *)

\* Two engines never run in one process, whatever the attempts of the windows and the ends of
\* listeners and processes (debugpyInjector.ts:1105).
EnginesAreExclusive ==
    \A p, q \in Port :
        /\ listen[p].rt = listen[q].rt /\ listen[p].rt \notin {0, Elsewhere}
        /\ None \notin {listen[p].engine, listen[q].engine}
        => listen[p].engine = listen[q].engine /\ listen[p].token = listen[q].token

\* What a process publishes of itself is true: the record is of the engine that owns it, and
\* where that listens, it does with the record's credential (debugpyInjector.ts:1044).
RecordIsOfItsListener ==
    \A e \in Engine : active[e].rt = proc.id /\ proc.pc = "up" =>
        /\ owner = e
        /\ listen[active[e].port].rt = proc.id
             => /\ listen[active[e].port].engine = e
                /\ listen[active[e].port].token = active[e].token

\* A client that connects to the tracer of the process that has the pid then brings the
\* tracer's own credential, never one of an earlier process (debugSession.ts:242).
CredentialFits ==
    [][\A c \in Client :
         call[c].end = "none" /\ call'[c].end = "connected" /\ call[c].engine = "experimental" =>
            LET l == listen[call[c].rec.port] IN
              l.rt = proc.id /\ l.engine # None => l.token = call[c].token]_vars

\* What an attempt reports is true of the process that has the pid by then: it connects to the
\* engine that owns it, and a conflict is with the other one (debugpyInjector.ts:1946).
OutcomeFitsTarget ==
    [][\A c \in Client : proc.pc = "up" /\ call[c].end = "none" =>
         /\ call'[c].end = "connected" => owner = call[c].engine
         /\ call'[c].end = "conflict" => owner = otherDebugEngine(call[c].engine)]_vars

=============================================================================
