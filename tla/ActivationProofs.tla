--------------------------- MODULE ActivationProofs ---------------------------
(***************************************************************************)
(* Proofs about the activation of an engine in a target, for every number  *)
(* of attempts, ports and processes that get the pid.                      *)
(***************************************************************************)
EXTENDS Activation, TLAPS

CallRecord == [engine : Engine, round : 1..2, port : Port,
               pc : {"new", "state", "file", "listener", "recheck", "unlink",
                     "identity", "send", "sent", "over"},
               why : {"own", "other", "wait", "raced"},
               rt : 0..MaxRuntime, rec : Record, token : Token, acked : BOOLEAN,
               end : {"none", "conflict", "noBootstrap", "channel", "notLoaded",
                      "changed", "connected"}]
ControlRecord == [pc : {"idle", "judge", "listen", "write", "store", "restore"},
                  by : Client \cup {None}, rec : Record]

-----------------------------------------------------------------------------
(* The inductive invariant *)

\* The endpoint of the process that has the pid, from the moment it listens.
TheRecord == IF control.pc \in {"write", "store"} THEN control.rec ELSE own

Current(r) == r = proc.id /\ proc.pc # "none"

\* What rec says of the process that has the pid, if it speaks of it, is so.
IsTrue(rec, e) == Current(rec.rt) => proc.pc = "up" /\ owner = e /\ rec = TheRecord

\* Nothing knows of a process that is still to come.
ProcessFits ==
    /\ proc.id > 0 /\ (proc.pc = "none" => proc.id < MaxRuntime)
    /\ owner # None \/ control.pc # "idle" => proc.pc = "up"
    /\ proc.pc = "up" => state = proc.id
    /\ state <= proc.id
    /\ \A e \in Engine : active[e].rt <= proc.id
    /\ \A c \in Client : call[c].rt <= proc.id

\* The request in work is of this process, and only the first one listens.
ControlFits ==
    /\ control.pc # "idle" => /\ control.by \in Client
                              /\ control.rec.rt = proc.id /\ control.rec.port \in Port
    /\ control.pc \in {"listen", "write", "store", "restore"} => owner # None
    /\ control.pc \in {"listen", "write", "store"} => own = NoRecord
    /\ control.pc = "restore" => own # NoRecord
    /\ own # NoRecord => own.port \in Port

\* A listener of the process is the one that its record names.
ListenersFit ==
    \A p \in Port :
        /\ listen[p].rt \in {0, Elsewhere} \/ Current(listen[p].rt)
        /\ listen[p].rt = proc.id =>
             IF listen[p].engine = None THEN proc.pc = "foreign"
             ELSE /\ listen[p].engine = owner
                  /\ TheRecord # NoRecord /\ TheRecord.port = p
                  /\ TheRecord.token = listen[p].token

RecordsFit ==
    \A e \in Engine : /\ IsTrue(active[e], e)
                      /\ active[e] # NoRecord => active[e].port \in Port

\* An attempt that looks for a listener holds a record of the runtime it has read.
CallsFit ==
    \A c \in Client : call[c].pc \in {"listener", "recheck"} =>
        /\ call[c].rec.rt = call[c].rt /\ call[c].rec.port \in Port
        /\ IsTrue(call[c].rec, Wanted(c))

ActivationInv ==
    TypeOK /\ ProcessFits /\ ControlFits /\ ListenersFit /\ RecordsFit /\ CallsFit

LEMMA Constants ==
    /\ MaxRuntime \in Nat /\ MaxRuntime > 0 /\ None \notin Client /\ None \notin Engine
    /\ Elsewhere \in Int /\ Elsewhere > MaxRuntime
    /\ NoRecord \in Record /\ NoRecord.rt = 0 /\ Free \in Listener /\ Free.rt = 0
    /\ <<>> \in Token
  BY ActivationAssumption
  DEF Engine, Elsewhere, NoRecord, Record, Free, Listener, Token

LEMMA Types ==
    ASSUME TypeOK
    PROVE  /\ proc \in [id : 0..MaxRuntime, pc : {"none", "foreign", "booting", "bound", "up"}]
           /\ control \in ControlRecord /\ call \in [Client -> CallRecord]
           /\ \A c \in Client : call[c] \in CallRecord
  BY DEF TypeOK, ControlRecord, CallRecord

LEMMA InitActivation == Init => ActivationInv
  <1> SUFFICES ASSUME Init PROVE ActivationInv
    OBVIOUS
  <1>1. call \in [Client -> CallRecord] /\ \A c \in Client : call[c].pc = "new" /\ call[c].rt = 0
    <2>1. call \in [Client ->
                   [engine : Engine, round : {1}, port : Port, pc : {"new"}, why : {"own"},
                    rt : {0}, rec : {NoRecord}, token : {<<>>}, acked : {FALSE}, end : {"none"}]]
      BY DEF Init
    <2>2. ASSUME NEW c \in Client
          PROVE  call[c] \in CallRecord /\ call[c].pc = "new" /\ call[c].rt = 0
      <3> DEFINE Early == [engine : Engine, round : {1}, port : Port, pc : {"new"}, why : {"own"},
                           rt : {0}, rec : {NoRecord}, token : {<<>>}, acked : {FALSE},
                           end : {"none"}]
      <3>1. call[c] \in Early
        BY <2>1
      <3>2. \A x \in {NoRecord} : x \in Record
        BY Constants
      <3>3. \A x \in {<<>>} : x \in Token
        BY Constants
      <3>4. 0 \in 0..MaxRuntime /\ 1 \in 1..2
        BY Constants
      <3> QED  BY ONLY <3>1, <3>2, <3>3, <3>4 DEF CallRecord
    <2> QED  BY <2>1, <2>2
  <1>2. TypeOK
    BY <1>1, Constants DEF Init, TypeOK, CallRecord
  <1>3. ProcessFits /\ ControlFits /\ ListenersFit /\ RecordsFit /\ CallsFit
    BY <1>1, Constants
    DEF Init, ProcessFits, ControlFits, ListenersFit, RecordsFit, CallsFit, IsTrue, Current
  <1> QED  BY <1>2, <1>3 DEF ActivationInv

-----------------------------------------------------------------------------
(* The attempts *)

\* A step of c that neither finds nor confirms a record, and reports no engine.
Quiet(c) ==
    /\ call' \in [Client -> CallRecord]
    /\ \A d \in Client \ {c} : call'[d] = call[d]
    /\ call'[c].engine = call[c].engine /\ call'[c].rt \in {call[c].rt, state}
    /\ call'[c].pc \notin {"listener", "recheck"}
    /\ call'[c].end \in {call[c].end, "noBootstrap", "channel", "notLoaded", "changed"}

LEMMA StepIsQuiet ==
    ASSUME TypeOK, NEW c \in Client, NEW pc, call' = Step(c, pc),
           pc \in {"new", "state", "file", "unlink", "identity", "send", "sent", "over"}
    PROVE  Quiet(c)
  <1> DEFINE x == [call[c] EXCEPT !.pc = pc]
  <1>1. call' = [call EXCEPT ![c] = x]
    BY Types DEF Step
  <1>2. x \in CallRecord /\ x.engine = call[c].engine /\ x.rt = call[c].rt /\ x.pc = pc
        /\ x.end = call[c].end
    BY Types DEF CallRecord
  <1> HIDE DEF x
  <1> QED  BY <1>1, <1>2, Types DEF Quiet

LEMMA LookIsQuiet ==
    ASSUME TypeOK, NEW c \in Client, NEW why \in {"own", "other", "wait", "raced"},
           call' = Look(c, why)
    PROVE  Quiet(c)
  <1> DEFINE x == [call[c] EXCEPT !.pc = "state"]
             y == [x EXCEPT !.why = why]
  <1>1. call' = [call EXCEPT ![c] = y]
    BY Types DEF Look, CallRecord
  <1>2. x \in CallRecord /\ x.engine = call[c].engine /\ x.rt = call[c].rt /\ x.pc = "state"
        /\ x.end = call[c].end
    BY Types DEF CallRecord
  <1> HIDE DEF x
  <1>3. y \in CallRecord /\ y.engine = call[c].engine /\ y.rt = call[c].rt /\ y.pc = "state"
        /\ y.end = call[c].end
    BY <1>2 DEF CallRecord
  <1> HIDE DEF y
  <1> QED  BY <1>1, <1>3, Types DEF Quiet

LEMMA OverFacts ==
    ASSUME TypeOK, NEW c \in Client,
           NEW end \in {"conflict", "noBootstrap", "channel", "notLoaded", "changed", "connected"},
           call' = Over(c, end)
    PROVE  /\ call' \in [Client -> CallRecord]
           /\ \A d \in Client \ {c} : call'[d] = call[d]
           /\ call'[c].engine = call[c].engine /\ call'[c].rt = call[c].rt
           /\ call'[c].pc = "over" /\ call'[c].end = end
  <1> DEFINE x == [call[c] EXCEPT !.pc = "over"]
             y == [x EXCEPT !.end = end]
  <1>1. call' = [call EXCEPT ![c] = y]
    BY Types DEF Over, CallRecord
  <1>2. x \in CallRecord /\ x.engine = call[c].engine /\ x.rt = call[c].rt /\ x.pc = "over"
    BY Types DEF CallRecord
  <1> HIDE DEF x
  <1>3. y \in CallRecord /\ y.engine = call[c].engine /\ y.rt = call[c].rt /\ y.pc = "over"
        /\ y.end = end
    BY <1>2 DEF CallRecord
  <1> HIDE DEF y
  <1> QED  BY <1>1, <1>3, Types

LEMMA NotFoundIsQuiet ==
    ASSUME TypeOK, NEW c \in Client, NotFound(c)
    PROVE  Quiet(c)
  <1>1. CASE \E why \in {"own", "other", "wait", "raced"} : call' = Look(c, why)
    BY <1>1, LookIsQuiet
  <1>2. CASE call' = Step(c, "identity")
    BY <1>2, StepIsQuiet
  <1>3. CASE call' = Over(c, "notLoaded")
    BY <1>3, OverFacts DEF Quiet
  <1> QED  BY <1>1, <1>2, <1>3 DEF NotFound, KeepsWaiting


\* What an attempt does is quiet, but for the two steps that find a record and the one that
\* ends with it.
LEMMA QuietAttempts ==
    ASSUME TypeOK, NEW c \in Client,
           \/ Begin(c) \/ ReadState(c) \/ UnlinkActiveFile(c) \/ ReadIdentity(c)
           \/ SendRequest(c) \/ Acknowledged(c) \/ ChannelFails(c)
    PROVE  Quiet(c)
  <1> state \in 0..MaxRuntime /\ \A d \in Client : call[d] \in CallRecord
    BY Types DEF TypeOK
  <1>1. CASE Begin(c)
    BY <1>1, LookIsQuiet, OverFacts DEF Begin, Quiet
  <1>2. CASE ReadState(c) \/ ReadIdentity(c)
    <2>1. CASE call' = Step(c, "unlink")
      BY <2>1, StepIsQuiet
    <2>2. CASE call' = Over(c, "noBootstrap")
      BY <2>2, OverFacts DEF Quiet
    <2>3. ASSUME NEW pc \in {"file", "send"}, call' = [Step(c, pc) EXCEPT ![c].rt = state]
          PROVE  Quiet(c)
      <3> DEFINE x == [call[c] EXCEPT !.pc = pc]
                 y == [x EXCEPT !.rt = state]
      <3>1. call' = [call EXCEPT ![c] = y]
        BY <2>3, Types DEF Step, CallRecord
      <3>2. x \in CallRecord /\ x.engine = call[c].engine /\ x.pc = pc /\ x.end = call[c].end
        BY DEF CallRecord
      <3> HIDE DEF x
      <3>3. y \in CallRecord /\ y.engine = call[c].engine /\ y.rt = state /\ y.pc = pc
            /\ y.end = call[c].end
        BY <3>2 DEF CallRecord
      <3> HIDE DEF y
      <3> QED  BY <3>1, <3>3, Types DEF Quiet
    <2> QED  BY <1>2, <2>1, <2>2, <2>3 DEF ReadState, ReadIdentity
  <1>3. CASE UnlinkActiveFile(c)
    BY <1>3, NotFoundIsQuiet DEF UnlinkActiveFile
  <1>4. CASE SendRequest(c)
    <2>1. CASE call' = Over(c, "channel")
      BY <2>1, OverFacts DEF Quiet
    <2>2. CASE call' = [Step(c, "sent") EXCEPT ![c].acked = FALSE]
      <3> DEFINE x == [call[c] EXCEPT !.pc = "sent"]
                 y == [x EXCEPT !.acked = FALSE]
      <3>1. call' = [call EXCEPT ![c] = y]
        BY <2>2, Types DEF Step, CallRecord
      <3>2. x \in CallRecord /\ x.engine = call[c].engine /\ x.pc = "sent" /\ x.end = call[c].end
            /\ x.rt = call[c].rt
        BY DEF CallRecord
      <3> HIDE DEF x
      <3>3. y \in CallRecord /\ y.engine = call[c].engine /\ y.rt = call[c].rt /\ y.pc = "sent"
            /\ y.end = call[c].end
        BY <3>2 DEF CallRecord
      <3> HIDE DEF y
      <3> QED  BY <3>1, <3>3, Types DEF Quiet
    <2> QED  BY <1>4, <2>1, <2>2 DEF SendRequest
  <1>5. CASE Acknowledged(c)
    BY <1>5, LookIsQuiet DEF Acknowledged
  <1>6. CASE ChannelFails(c)
    BY <1>6, OverFacts DEF ChannelFails, Quiet
  <1> QED  BY <1>1, <1>2, <1>3, <1>4, <1>5, <1>6

\* A record is taken where it names the runtime that was read.
Takes(c) ==
    /\ call' \in [Client -> CallRecord]
    /\ \A d \in Client \ {c} : call'[d] = call[d]
    /\ call'[c].engine = call[c].engine /\ call'[c].why = call[c].why
    /\ call'[c].rt = call[c].rt /\ call'[c].end = call[c].end
    /\ \/ call'[c].rec = active[Wanted(c)] /\ active[Wanted(c)] # NoRecord
          /\ active[Wanted(c)].rt = call[c].rt
       \/ call'[c].rec = call[c].rec /\ call[c].pc = "listener"

LEMMA ReadActiveFileTakes ==
    ASSUME TypeOK, NEW c \in Client, ReadActiveFile(c) \/ FindListener(c)
    PROVE  Quiet(c) \/ Takes(c)
  <1> DEFINE rec == active[Wanted(c)]
  <1>1. rec \in Record
    <2>1. Wanted(c) \in Engine
      BY Types DEF Wanted, CallRecord, otherDebugEngine, Engine
    <2> QED  BY <2>1 DEF TypeOK
  <1> HIDE DEF rec
  <1>2. CASE ReadActiveFile(c)
    <2>1. CASE NotFound(c)
      BY <2>1, NotFoundIsQuiet
    <2>2. CASE call' = Step(c, "unlink")
      BY <2>2, StepIsQuiet
    <2>3. CASE rec # NoRecord /\ rec.rt = call[c].rt
               /\ call' = [Step(c, "listener") EXCEPT ![c].rec = rec]
      <3> DEFINE x == [call[c] EXCEPT !.pc = "listener"]
                 y == [x EXCEPT !.rec = rec]
      <3>1. call' = [call EXCEPT ![c] = y]
        BY <2>3, Types DEF Step, CallRecord
      <3>2. x \in CallRecord /\ x.engine = call[c].engine /\ x.end = call[c].end
            /\ x.rt = call[c].rt /\ x.why = call[c].why
        BY Types DEF CallRecord
      <3> HIDE DEF x
      <3>3. y \in CallRecord /\ y.engine = call[c].engine /\ y.end = call[c].end
            /\ y.rt = call[c].rt /\ y.why = call[c].why /\ y.rec = rec
        BY <1>1, <3>2 DEF CallRecord
      <3> HIDE DEF y
      <3> QED  BY <2>3, <3>1, <3>3, Types DEF Takes, rec
    <2> QED  BY <1>2, <2>1, <2>2, <2>3 DEF ReadActiveFile, rec
  <1>3. CASE FindListener(c)
    <2>1. CASE call' = Step(c, "unlink")
      BY <2>1, StepIsQuiet
    <2>2. CASE call' = Step(c, "recheck") /\ call[c].pc = "listener"
      <3> DEFINE x == [call[c] EXCEPT !.pc = "recheck"]
      <3>1. call' = [call EXCEPT ![c] = x]
        BY <2>2 DEF Step
      <3>2. x \in CallRecord /\ x.engine = call[c].engine /\ x.end = call[c].end
            /\ x.rt = call[c].rt /\ x.why = call[c].why /\ x.rec = call[c].rec
        BY Types DEF CallRecord
      <3> HIDE DEF x
      <3> QED  BY <2>2, <3>1, <3>2, Types DEF Takes
    <2> QED  BY <1>3, <2>1, <2>2 DEF FindListener
  <1> QED  BY <1>2, <1>3

\* The end of an attempt that has looked at the runtime again.
Concludes(c) ==
    /\ call' \in [Client -> CallRecord]
    /\ \A d \in Client \ {c} : call'[d] = call[d]
    /\ call'[c].engine = call[c].engine /\ call'[c].rt = call[c].rt /\ call'[c].pc = "over"
    /\ call[c].pc = "recheck" /\ SameRuntime(c)
    /\ \/ call'[c].end = "connected" /\ call[c].why \in {"own", "wait"}
          /\ call[c].rec.token = call[c].token
       \/ call'[c].end = "conflict" /\ call[c].why \in {"other", "raced"}

LEMMA RecheckConcludes ==
    ASSUME TypeOK, NEW c \in Client, Recheck(c)
    PROVE  Quiet(c) \/ Concludes(c)
  <1> call[c] \in CallRecord /\ call[c].rec \in Record
    BY Types DEF CallRecord
  <1>1. CASE call' = Step(c, "unlink")
    BY <1>1, StepIsQuiet
  <1>2. CASE call' = Over(c, "conflict") /\ SameRuntime(c) /\ call[c].why \notin {"own", "wait"}
    <2>1. call[c].why \in {"other", "raced"}
      BY <1>2 DEF CallRecord
    <2> QED  BY <1>2, <2>1, OverFacts DEF Recheck, Concludes
  <1>3. CASE Endpoint(c, call[c].rec) /\ SameRuntime(c) /\ call[c].why \in {"own", "wait"}
    <2>1. CASE call' = Over(c, "changed")
      BY <2>1, OverFacts DEF Quiet
    <2>2. CASE call' = Over(c, "connected") /\ call[c].rec.token = call[c].token
      BY <1>3, <2>2, OverFacts DEF Recheck, Concludes
    <2>3. CASE call' = [Look(c, "own") EXCEPT ![c].round = 2, ![c].token = call[c].rec.token]
      <3> DEFINE x == [call[c] EXCEPT !.pc = "state"]
                 y == [x EXCEPT !.why = "own"]
                 z == [y EXCEPT !.round = 2]
                 t == [z EXCEPT !.token = call[c].rec.token]
      <3>0. call[c].rec.token \in Token
        BY DEF Record
      <3>1. call' = [call EXCEPT ![c] = t]
        BY <2>3, Types DEF Look, CallRecord
      <3>2. x \in CallRecord /\ x.engine = call[c].engine /\ x.pc = "state" /\ x.end = call[c].end
            /\ x.rt = call[c].rt
        BY DEF CallRecord
      <3> HIDE DEF x
      <3>3. y \in CallRecord /\ y.engine = call[c].engine /\ y.rt = call[c].rt /\ y.pc = "state"
            /\ y.end = call[c].end
        BY <3>2 DEF CallRecord
      <3> HIDE DEF y
      <3>4. z \in CallRecord /\ z.engine = call[c].engine /\ z.rt = call[c].rt /\ z.pc = "state"
            /\ z.end = call[c].end
        BY <3>3 DEF CallRecord
      <3> HIDE DEF z
      <3>5. t \in CallRecord /\ t.engine = call[c].engine /\ t.rt = call[c].rt /\ t.pc = "state"
            /\ t.end = call[c].end
        BY <3>0, <3>4 DEF CallRecord
      <3> HIDE DEF t
      <3> QED  BY <3>1, <3>5, Types DEF Quiet
    <2> QED  BY <1>3, <2>1, <2>2, <2>3 DEF Endpoint
  <1> QED  BY <1>1, <1>2, <1>3 DEF Recheck

LEMMA AttemptInv ==
    ASSUME ActivationInv, NEW c \in Client, Attempt(c)
    PROVE  ActivationInv' /\ (Quiet(c) \/ Takes(c) \/ Concludes(c))
  <1>1. TypeOK /\ UNCHANGED <<proc, owner, own, control, listen, state>>
    BY DEF ActivationInv, Attempt, Begin, ReadState, ReadActiveFile, FindListener, Recheck,
           UnlinkActiveFile, ReadIdentity, SendRequest, Acknowledged, ChannelFails, target, files
  <1>2. Quiet(c) \/ Takes(c) \/ Concludes(c)
    BY <1>1, QuietAttempts, ReadActiveFileTakes, RecheckConcludes DEF Attempt
  <1>3. /\ active' \in [Engine -> Record]
        /\ \A e \in Engine : active'[e] \in {active[e], NoRecord}
    <2>1. active' = active \/ active' = [active EXCEPT ![Wanted(c)] = NoRecord]
      BY DEF Attempt, Begin, ReadState, ReadActiveFile, FindListener, Recheck,
             UnlinkActiveFile, ReadIdentity, SendRequest, Acknowledged, ChannelFails, files
    <2>2. active \in [Engine -> Record] /\ NoRecord \in Record
      BY <1>1, Constants DEF TypeOK
    <2> QED  BY <2>1, <2>2
  <1>4. backlog' \in Seq(Client)
    <2>1. backlog' = backlog \/ backlog' = Append(backlog, c)
      BY DEF Attempt, Begin, ReadState, ReadActiveFile, FindListener, Recheck,
             UnlinkActiveFile, ReadIdentity, SendRequest, Acknowledged, ChannelFails
    <2>2. backlog \in Seq(Client)
      BY <1>1 DEF TypeOK
    <2> QED  BY <2>1, <2>2
  <1>5. TypeOK'
    BY <1>1, <1>2, <1>3, <1>4 DEF TypeOK, Quiet, Takes, Concludes, CallRecord
  <1>6. \A rec, e : IsTrue(rec, e)' <=> IsTrue(rec, e)
    BY <1>1 DEF IsTrue, Current, TheRecord
  <1>7. \A d \in Client \ {c} : call'[d] = call[d] /\ Wanted(d)' = Wanted(d)
    BY <1>2 DEF Quiet, Takes, Concludes, Wanted
  <1>8. ProcessFits'
    <2>1. call'[c].rt <= proc.id
      BY <1>1, <1>2 DEF ActivationInv, ProcessFits, Quiet, Takes, Concludes
    <2>2. \A e \in Engine : active'[e].rt <= proc.id
      BY <1>1, <1>3, Constants, Types DEF ActivationInv, ProcessFits
    <2> QED  BY <1>1, <1>7, <2>1, <2>2 DEF ActivationInv, ProcessFits
  <1>9. ControlFits' /\ ListenersFit'
    BY <1>1 DEF ActivationInv, ControlFits, ListenersFit, Current, TheRecord
  <1>10. RecordsFit'
    <2>1. \A e : IsTrue(NoRecord, e)
      BY Constants DEF IsTrue, Current, ActivationInv, ProcessFits
    <2> QED  BY <1>3, <1>6, <2>1 DEF ActivationInv, RecordsFit
  <1>11. CallsFit'
    <2>1. ASSUME NEW d \in Client, call'[d].pc \in {"listener", "recheck"}
          PROVE  /\ call'[d].rec.rt = call'[d].rt /\ call'[d].rec.port \in Port
                 /\ IsTrue(call'[d].rec, Wanted(d)')
      <3>1. CASE d # c
        BY <1>7, <2>1, <3>1 DEF ActivationInv, CallsFit
      <3>2. CASE d = c
        <4>1. Takes(c) /\ Wanted(c)' = Wanted(c) /\ Wanted(c) \in Engine
          <5>1. Takes(c)
            BY <1>2, <2>1, <3>2 DEF Quiet, Concludes
          <5> QED  BY <1>1, <5>1, Types DEF Takes, Wanted, CallRecord, otherDebugEngine, Engine
        <4> QED  BY <3>2, <4>1 DEF Takes, ActivationInv, CallsFit, RecordsFit
      <3> QED  BY <3>1, <3>2
    <2> QED  BY <1>6, <2>1 DEF CallsFit
  <1> QED  BY <1>2, <1>5, <1>8, <1>9, <1>10, <1>11 DEF ActivationInv

-----------------------------------------------------------------------------
(* The process and its control thread *)

\* What no step of the process or its control thread changes in the attempts.
LEMMA SameCalls ==
    ASSUME UNCHANGED call
    PROVE  \A c : Wanted(c)' = Wanted(c)
  BY DEF Wanted

LEMMA ProcessInv ==
    ASSUME ActivationInv, Process
    PROVE  ActivationInv' /\ UNCHANGED call
  <1>0. UNCHANGED call /\ UNCHANGED active /\ \A c : Wanted(c)' = Wanted(c)
    BY SameCalls DEF Process, ProcessDies, ProcessStarts, BindSocket, WriteBootstrapState,
                     PortTaken, PortReleased, files
  <1>t. /\ TypeOK /\ proc.id \in 1..MaxRuntime /\ state \in 0..MaxRuntime
        /\ proc.pc \in {"none", "foreign", "booting", "bound", "up"}
        /\ proc = [id |-> proc.id, pc |-> proc.pc]
        /\ listen \in [Port -> Listener] /\ \A p \in Port : listen[p] \in Listener
    BY Types DEF ActivationInv, ProcessFits, TypeOK
  <1>1. CASE ProcessDies
    <2>1. /\ proc'.pc = "none" /\ proc'.id = proc.id /\ proc.id < MaxRuntime
          /\ owner' = None /\ own' = NoRecord /\ control'.pc = "idle"
          /\ control' \in ControlRecord
      BY <1>1, <1>t, Constants DEF ProcessDies, ControlRecord
    <2>2. listen' \in [Port -> Listener]
      BY <1>1, <1>t, Constants DEF ProcessDies
    <2>3. TypeOK'
      BY <1>0, <1>1, <1>t, <2>1, <2>2, Constants DEF ProcessDies, TypeOK, ControlRecord, files
    <2>4. ProcessFits' /\ ControlFits'
      BY <1>0, <1>1, <2>1, Constants
      DEF ProcessDies, ActivationInv, ProcessFits, ControlFits, files
    <2>5. ListenersFit'
      <3>1. \A p \in Port : listen'[p].rt \in {0, Elsewhere}
        BY <1>1, Constants DEF ProcessDies, ActivationInv, ListenersFit, Current
      <3> QED  BY <1>t, <2>1, <3>1, Constants DEF ListenersFit, Current
    <2>6. RecordsFit' /\ CallsFit'
      BY <1>0, <2>1 DEF ActivationInv, RecordsFit, CallsFit, IsTrue, Current
    <2> QED  BY <1>0, <2>3, <2>4, <2>5, <2>6 DEF ActivationInv
  <1>2. CASE ProcessStarts
    <2>1. /\ proc'.id = proc.id + 1 /\ proc.pc = "none" /\ proc.id < MaxRuntime
          /\ proc'.pc \in {"foreign", "booting"}
          /\ proc' \in [id : 0..MaxRuntime, pc : {"none", "foreign", "booting", "bound", "up"}]
          /\ UNCHANGED <<owner, own, control, backlog, listen, state>>
      BY <1>2, <1>t, Constants DEF ProcessStarts, ActivationInv, ProcessFits, target, files
    <2>2. owner = None /\ own = NoRecord /\ control.pc = "idle"
      BY <2>1 DEF ActivationInv, ProcessFits, TypeOK
    <2>3. TypeOK'
      BY <1>0, <1>t, <2>1, <2>2 DEF TypeOK
    <2>4. ProcessFits' /\ ControlFits'
      BY <1>0, <1>t, <2>1, <2>2, Types DEF ActivationInv, ProcessFits, ControlFits, TypeOK, CallRecord, Record
    <2>5. ListenersFit'
      BY <1>t, <2>1, Constants DEF ActivationInv, ListenersFit, Current
    <2>6. \A rec : rec.rt <= proc.id /\ rec.rt \in Int => ~(Current(rec.rt)')
      BY <1>t, <2>1 DEF Current
    <2>7. RecordsFit' /\ CallsFit'
      <3>1. ASSUME NEW e \in Engine
            PROVE  IsTrue(active[e], e)'
        <4>1. active[e].rt \in Int
          BY <1>t DEF TypeOK, Record
        <4> QED  BY <1>0, <2>6, <4>1 DEF ActivationInv, ProcessFits, IsTrue, Current
      <3>2. ASSUME NEW c \in Client, call[c].pc \in {"listener", "recheck"}
            PROVE  IsTrue(call[c].rec, Wanted(c))'
        <4>1. call[c].rec.rt \in Int
          BY <1>t, Types DEF CallRecord, Record
        <4> QED  BY <1>0, <2>6, <3>2, <4>1 DEF ActivationInv, ProcessFits, CallsFit, IsTrue, Current
      <3> QED  BY <1>0, <3>1, <3>2 DEF RecordsFit, CallsFit, ActivationInv
    <2> QED  BY <1>0, <2>3, <2>4, <2>5, <2>7 DEF ActivationInv
  <1>3. CASE BindSocket \/ WriteBootstrapState
    <2>1. /\ proc'.id = proc.id /\ proc.pc \in {"booting", "bound"}
          /\ proc'.pc \in {"bound", "up"}
          /\ proc' \in [id : 0..MaxRuntime, pc : {"none", "foreign", "booting", "bound", "up"}]
          /\ UNCHANGED <<owner, own, control, backlog, listen>>
          /\ state' \in {state, proc.id} /\ (proc'.pc = "up" => state' = proc.id)
      BY <1>3, <1>t, Constants DEF BindSocket, WriteBootstrapState, target, files
    <2>2. owner = None /\ own = NoRecord /\ control.pc = "idle"
      BY <2>1 DEF ActivationInv, ProcessFits, TypeOK
    <2>3. TypeOK'
      BY <1>0, <1>t, <2>1, <2>2 DEF TypeOK
    <2>4. ProcessFits' /\ ControlFits'
      BY <1>0, <1>t, <2>1, <2>2 DEF ActivationInv, ProcessFits, ControlFits
    <2>5. ListenersFit'
      <3>1. \A p \in Port : listen[p].rt # proc.id
        BY <2>1, <2>2, Constants DEF ActivationInv, ListenersFit, TheRecord
      <3> QED  BY <1>t, <2>1, <3>1 DEF ActivationInv, ListenersFit, Current
    <2>6. \A rec, e : IsTrue(rec, e) => (IsTrue(rec, e))'
      BY <2>1 DEF IsTrue, Current
    <2>7. RecordsFit' /\ CallsFit'
      BY <1>0, <2>6 DEF ActivationInv, RecordsFit, CallsFit
    <2> QED  BY <1>0, <2>3, <2>4, <2>5, <2>7 DEF ActivationInv
  <1>4. ASSUME NEW p \in Port, PortTaken(p) \/ PortReleased(p)
        PROVE  ActivationInv'
    <2>1. UNCHANGED <<proc, owner, own, control, backlog, state>>
      BY <1>4 DEF PortTaken, PortReleased, target, files
    <2>2. /\ listen' \in [Port -> Listener]
          /\ \A q \in Port \ {p} : listen'[q] = listen[q]
          /\ \/ listen'[p] = Free
             \/ /\ listen'[p].engine = None
                /\ \/ listen'[p].rt = Elsewhere
                   \/ listen'[p].rt = proc.id /\ proc.pc = "foreign"
      <3>1. CASE PortReleased(p)
        BY <1>t, <3>1, Constants DEF PortReleased
      <3>2. CASE PortTaken(p)
        <4>1. \E r \in {Elsewhere, proc.id} :
                 /\ listen' = [listen EXCEPT ![p].rt = r]
                 /\ r = Elsewhere \/ proc.pc = "foreign"
          BY <3>2 DEF PortTaken
        <4>2. listen[p].engine = None /\ {Elsewhere, proc.id} \subseteq 0..Elsewhere
          BY <1>t, <3>2, Constants DEF PortTaken, Free, Elsewhere
        <4> QED  BY <1>t, <4>1, <4>2 DEF Listener
      <3> QED  BY <1>4, <3>1, <3>2
    <2>3. TypeOK'
      BY <1>0, <1>t, <2>1, <2>2 DEF TypeOK
    <2>4. ProcessFits' /\ ControlFits'
      BY <1>0, <2>1 DEF ActivationInv, ProcessFits, ControlFits
    <2>5. ListenersFit'
      BY <1>t, <2>1, <2>2, Constants DEF ActivationInv, ListenersFit, Current, TheRecord
    <2>6. \A rec, e : IsTrue(rec, e)' <=> IsTrue(rec, e)
      BY <2>1 DEF IsTrue, Current, TheRecord
    <2>7. RecordsFit' /\ CallsFit'
      BY <1>0, <2>6 DEF ActivationInv, RecordsFit, CallsFit
    <2> QED  BY <1>0, <2>3, <2>4, <2>5, <2>7 DEF ActivationInv
  <1> QED  BY <1>0, <1>1, <1>2, <1>3, <1>4 DEF Process

\* Nothing that is said of an attempt tells x from y.
SamePlace(x, y) ==
    /\ x.engine = y.engine /\ x.why = y.why /\ x.pc = y.pc
    /\ x.rt = y.rt /\ x.rec = y.rec /\ x.end = y.end

\* A step of the control thread leaves every attempt where it is.
LEMMA ControlKeepsCalls ==
    ASSUME ActivationInv, ControlThread
    PROVE  /\ call' \in [Client -> CallRecord]
           /\ \A c \in Client :
                /\ call'[c].engine = call[c].engine /\ call'[c].why = call[c].why
                /\ call'[c].pc = call[c].pc /\ call'[c].rt = call[c].rt
                /\ call'[c].rec = call[c].rec /\ call'[c].end = call[c].end
                /\ Wanted(c)' = Wanted(c)
  <1>1. call \in [Client -> CallRecord]
    BY Types DEF ActivationInv
  <1>2. call' = call \/ \E c \in Client : call' = [call EXCEPT ![c].acked = TRUE]
    <2>1. CASE Accept
      <3>1. backlog # <<>> => Head(backlog) \in Client
        <4>1. backlog \in Seq(Client)
          BY DEF ActivationInv, TypeOK
        <4> QED  BY <4>1
      <3> QED  BY <2>1, <3>1 DEF Accept
    <2> QED  BY <2>1 DEF ControlThread, Judge, Listen, WriteActiveEndpoint, StoreEndpoint,
                         RestoreEndpoint
  <1>3. call' \in [Client -> CallRecord] /\ \A c \in Client : SamePlace(call[c], call'[c])
    <2>1. ASSUME NEW c \in Client
          PROVE  /\ [call[c] EXCEPT !.acked = TRUE] \in CallRecord
                 /\ SamePlace(call[c], [call[c] EXCEPT !.acked = TRUE])
      <3>1. call[c] \in CallRecord
        BY <1>1
      <3> QED  BY <3>1 DEF CallRecord, SamePlace
    <2>2. CASE call' = call
      BY <1>1, <2>2 DEF SamePlace
    <2>3. ASSUME NEW c \in Client, NEW x \in CallRecord, call' = [call EXCEPT ![c] = x],
                 SamePlace(call[c], x)
          PROVE  /\ call' \in [Client -> CallRecord]
                 /\ \A d \in Client : SamePlace(call[d], call'[d])
      <3>1. SamePlace(call[c], call'[c]) /\ \A d \in Client \ {c} : call'[d] = call[d]
        BY <1>1, <2>3
      <3> QED  BY <1>1, <2>3, <3>1 DEF SamePlace
    <2> QED  BY <1>2, <2>1, <2>2, <2>3
  <1> QED  BY <1>3 DEF Wanted, SamePlace

\* A request that is accepted is of this process.
LEMMA AcceptFacts ==
    ASSUME ActivationInv, Accept
    PROVE  /\ proc.pc = "up" /\ control.pc = "idle" /\ control'.pc \in {"idle", "judge"}
           /\ control' \in ControlRecord /\ backlog' \in Seq(Client)
           /\ control'.pc # "idle" => /\ control'.by \in Client
                                      /\ control'.rec.rt = proc.id /\ control'.rec.port \in Port
           /\ UNCHANGED <<proc, owner, own, listen, state, active>>
  <1> DEFINE c == Head(backlog)
             rec == [rt |-> proc.id, port |-> call[c].port,
                     token |-> IF call[c].engine = "experimental"
                               THEN <<c, call[c].round>> ELSE <<>>]
  <1>1. backlog \in Seq(Client) /\ backlog # <<>> /\ proc.pc = "up" /\ control.pc = "idle"
    BY DEF ActivationInv, TypeOK, Accept
  <1>2. c \in Client /\ Tail(backlog) \in Seq(Client)
    BY <1>1
  <1>3. rec \in Record
    <2>1. call[c].port \in Port /\ call[c].round \in 1..2 /\ proc.id \in 0..MaxRuntime
      BY <1>2, Types DEF ActivationInv, CallRecord
    <2>2. (IF call[c].engine = "experimental" THEN <<c, call[c].round>> ELSE <<>>) \in Token
      BY <1>2, <2>1 DEF Token
    <2> QED  BY <2>1, <2>2 DEF Record
  <1>4. \/ UNCHANGED control
        \/ control' = [pc |-> "judge", by |-> c, rec |-> rec]
    BY DEF Accept
  <1>5. rec.rt = proc.id /\ rec.port \in Port
    BY <1>2, Types DEF ActivationInv, CallRecord
  <1> HIDE DEF rec
  <1>6. control \in ControlRecord /\ [pc |-> "judge", by |-> c, rec |-> rec] \in ControlRecord
    BY <1>2, <1>3, Types DEF ActivationInv, ControlRecord
  <1> QED  BY <1>1, <1>2, <1>4, <1>5, <1>6 DEF Accept, files

LEMMA ControlInv ==
    ASSUME ActivationInv, ControlThread
    PROVE  ActivationInv'
  <1>c. /\ call' \in [Client -> CallRecord]
        /\ \A c \in Client : /\ call'[c].pc = call[c].pc /\ call'[c].rt = call[c].rt
                             /\ call'[c].rec = call[c].rec /\ Wanted(c)' = Wanted(c)
    BY ControlKeepsCalls
  <1>t. /\ TypeOK /\ proc.id \in 1..MaxRuntime /\ control \in ControlRecord
        /\ control.rec \in Record /\ own \in Record /\ owner \in Engine \cup {None}
        /\ active \in [Engine -> Record]
        /\ listen \in [Port -> Listener] /\ \A p \in Port : listen[p] \in Listener
    BY Types DEF ActivationInv, ProcessFits, TypeOK, ControlRecord
  <1>u. /\ control.pc # "idle" => proc.pc = "up"
        /\ proc.pc = "up" => state = proc.id
        /\ own # NoRecord => owner # None
    BY DEF ActivationInv, ProcessFits, TypeOK
  <1>1. CASE Accept
    <2>1. /\ proc.pc = "up" /\ control.pc = "idle" /\ control'.pc \in {"idle", "judge"}
          /\ control' \in ControlRecord /\ backlog' \in Seq(Client)
          /\ control'.pc # "idle" => /\ control'.by \in Client
                                     /\ control'.rec.rt = proc.id /\ control'.rec.port \in Port
          /\ UNCHANGED <<proc, owner, own, listen, state, active>>
      BY <1>1, AcceptFacts
    <2>2. TypeOK'
      BY <1>c, <1>t, <2>1 DEF TypeOK, CallRecord, ControlRecord
    <2>3. ProcessFits' /\ ControlFits' /\ ListenersFit'
      BY <1>c, <2>1 DEF ActivationInv, ProcessFits, ControlFits, ListenersFit, Current, TheRecord
    <2>4. \A rec, e : IsTrue(rec, e)' <=> IsTrue(rec, e)
      BY <2>1 DEF IsTrue, Current, TheRecord
    <2> QED  BY <1>c, <2>1, <2>2, <2>3, <2>4 DEF ActivationInv, RecordsFit, CallsFit
  <1>2. CASE Judge
    <2>1. /\ control.pc = "judge" /\ proc.pc = "up" /\ state' = state
          /\ UNCHANGED <<proc, own, backlog, listen, active, call>>
          /\ control.by \in Client
      BY <1>2, <1>u DEF Judge, ActivationInv, ControlFits
    <2>2. owner' \in Engine \cup {None} /\ (owner # None => owner' = owner)
      <3>1. Asked \in Engine
        BY <2>1, Types DEF Asked, ActivationInv, CallRecord
      <3> QED  BY <1>2, <1>t, <3>1 DEF Judge
    <2>3. /\ control'.pc \in {"idle", "listen", "restore"} /\ control' \in ControlRecord
          /\ control'.rec = control.rec /\ control'.by = control.by
          /\ control'.pc = "listen" => owner = None /\ owner' # None
          /\ control'.pc = "restore" => owner # None /\ own # NoRecord
      <3>1. \E pc \in {"idle", "listen", "restore"} :
               /\ control' = [control EXCEPT !.pc = pc]
               /\ pc = "listen" => owner = None /\ owner' # None
               /\ pc = "restore" => owner # None /\ own # NoRecord
        <4>1. Asked \in Engine
          BY <2>1, Types DEF Asked, ActivationInv, CallRecord
        <4>2. CASE ~Meant
          BY <1>2, <4>2 DEF Judge
        <4>3. CASE Meant /\ owner = None
          BY <1>2, <4>1, <4>3, Constants DEF Judge
        <4>4. CASE Meant /\ owner # None
          BY <1>2, <1>t, <4>1, <4>4, Constants DEF Judge, Alive
        <4> QED  BY <4>2, <4>3, <4>4
      <3> QED  BY <1>t, <3>1 DEF ControlRecord
    <2>4. TypeOK'
      BY <1>t, <1>u, <1>c, <2>1, <2>2, <2>3 DEF TypeOK, CallRecord, ControlRecord
    <2>5. ProcessFits' /\ ControlFits'
      BY <1>u, <2>1, <2>2, <2>3 DEF ActivationInv, ProcessFits, ControlFits
    <2>6. TheRecord' = TheRecord
      BY <2>1, <2>3 DEF TheRecord
    <2>7. ListenersFit'
      <3>1. \A p \in Port : listen[p].rt = proc.id => owner # None
        BY <1>u, <2>1 DEF ActivationInv, ListenersFit, TheRecord
      <3> QED  BY <2>1, <2>2, <2>6, <3>1 DEF ActivationInv, ListenersFit, Current
    <2>8. \A rec, e : e # None /\ IsTrue(rec, e) => IsTrue(rec, e)'
      BY <2>1, <2>2, <2>6 DEF IsTrue, Current
    <2>9. \A c \in Client : Wanted(c) \in Engine
      BY <1>t, Types DEF Wanted, CallRecord, otherDebugEngine, Engine
    <2> QED  BY <1>c, <2>1, <2>4, <2>5, <2>7, <2>8, <2>9, Constants
             DEF ActivationInv, RecordsFit, CallsFit
  <1>3. CASE Listen
    <2>1. /\ control.pc = "listen" /\ proc.pc = "up" /\ own = NoRecord /\ owner # None
          /\ UNCHANGED <<proc, owner, own, backlog, state, active, call>>
          /\ control.rec.port \in Port /\ control.rec.rt = proc.id
      BY <1>3, <1>u DEF Listen, ActivationInv, ControlFits, files
    <2> DEFINE p == control.rec.port
               l == [rt |-> proc.id, engine |-> owner, token |-> control.rec.token]
    <2>2. CASE control' = [control EXCEPT !.pc = "idle"] /\ UNCHANGED listen
      <3>1. control' \in ControlRecord /\ control'.pc = "idle" /\ TheRecord' = TheRecord
        BY <1>t, <2>1, <2>2 DEF ControlRecord, TheRecord
      <3>2. TypeOK'
        BY <1>t, <1>c, <2>1, <2>2, <3>1 DEF TypeOK, CallRecord, ControlRecord
      <3>3. ProcessFits' /\ ControlFits' /\ ListenersFit'
        BY <1>u, <2>1, <2>2, <3>1
        DEF ActivationInv, ProcessFits, ControlFits, ListenersFit, Current
      <3>4. \A rec, e : IsTrue(rec, e)' <=> IsTrue(rec, e)
        BY <2>1, <3>1 DEF IsTrue, Current
      <3> QED  BY <1>c, <2>1, <3>2, <3>3, <3>4 DEF ActivationInv, RecordsFit, CallsFit
    <2>3. CASE control' = [control EXCEPT !.pc = "write"] /\ listen' = [listen EXCEPT ![p] = l]
      <3>1. /\ control' \in ControlRecord /\ control'.pc = "write" /\ control'.rec = control.rec
            /\ control'.by = control.by
            /\ TheRecord' = control.rec /\ TheRecord = NoRecord /\ control.rec # NoRecord
        BY <1>t, <2>1, <2>3, Constants DEF ControlRecord, TheRecord
      <3>2. l \in Listener
        <4>1. control.rec.token \in Token
          BY <1>t DEF Record
        <4> QED  BY <1>t, <4>1, Constants DEF Listener, Elsewhere
      <3>3. \A q \in Port : listen[q].rt # proc.id
        BY <2>1, <3>1 DEF ActivationInv, ListenersFit
      <3>4. \A rec, e : IsTrue(rec, e) /\ rec # NoRecord => IsTrue(rec, e)'
        BY <2>1, <3>1 DEF IsTrue, Current
      <3>5. \A e : IsTrue(NoRecord, e)'
        BY <1>t, <2>1, Constants DEF IsTrue, Current
      <3>6. TypeOK'
        BY <1>t, <1>c, <2>1, <2>3, <3>1, <3>2 DEF TypeOK, CallRecord, ControlRecord
      <3>7. ProcessFits' /\ ControlFits'
        BY <1>u, <2>1, <3>1 DEF ActivationInv, ProcessFits, ControlFits
      <3>8. ListenersFit'
        <4>1. \A q \in Port \ {p} : listen'[q] = listen[q]
          BY <1>t, <2>3
        <4>2. listen'[p] = l
          BY <1>t, <2>1, <2>3
        <4> QED  BY <1>t, <2>1, <3>1, <3>3, <4>1, <4>2, Constants
                 DEF ActivationInv, ListenersFit, Current
      <3> QED  BY <1>c, <2>1, <3>4, <3>5, <3>6, <3>7, <3>8
               DEF ActivationInv, RecordsFit, CallsFit
    <2> QED  BY <1>3, <2>2, <2>3 DEF Listen
  <1>4. CASE WriteActiveEndpoint
    <2>1. /\ control.pc = "write" /\ proc.pc = "up" /\ own = NoRecord /\ owner \in Engine
          /\ UNCHANGED <<proc, owner, own, backlog, listen, state, call>>
          /\ control' = [control EXCEPT !.pc = "store"]
          /\ active' = [active EXCEPT ![owner] = control.rec]
          /\ control.rec.rt = proc.id
      BY <1>4, <1>t, <1>u DEF WriteActiveEndpoint, ActivationInv, ControlFits
    <2>2. /\ control' \in ControlRecord /\ control'.pc = "store" /\ control'.rec = control.rec
          /\ control'.by = control.by
          /\ TheRecord' = control.rec /\ TheRecord = control.rec
      BY <1>t, <2>1 DEF ControlRecord, TheRecord
    <2>3. active' \in [Engine -> Record]
      BY <1>t, <2>1
    <2>4. TypeOK'
      BY <1>t, <1>c, <2>1, <2>2, <2>3 DEF TypeOK, CallRecord, ControlRecord
    <2>5. ProcessFits' /\ ControlFits' /\ ListenersFit'
      BY <1>t, <1>u, <2>1, <2>2
      DEF ActivationInv, ProcessFits, ControlFits, ListenersFit, Current
    <2>6. \A rec, e : IsTrue(rec, e)' <=> IsTrue(rec, e)
      BY <2>1, <2>2 DEF IsTrue, Current
    <2>7. RecordsFit'
      <3>1. IsTrue(control.rec, owner)
        BY <2>1, <2>2 DEF IsTrue, Current
      <3>2. active'[owner] = control.rec /\ \A e \in Engine \ {owner} : active'[e] = active[e]
        BY <1>t, <2>1
      <3>3. control.rec.port \in Port
        BY <2>1 DEF ActivationInv, ControlFits
      <3> QED  BY <2>6, <3>1, <3>2, <3>3 DEF ActivationInv, RecordsFit
    <2> QED  BY <1>c, <2>1, <2>4, <2>5, <2>6, <2>7 DEF ActivationInv, CallsFit
  <1>5. CASE StoreEndpoint
    <2>1. /\ control.pc = "store" /\ proc.pc = "up" /\ owner # None
          /\ UNCHANGED <<proc, owner, backlog, listen, state, active, call>>
          /\ control' = [control EXCEPT !.pc = "idle"] /\ own' = control.rec
          /\ control.rec.rt = proc.id /\ control.rec.port \in Port
      BY <1>5, <1>t, <1>u DEF StoreEndpoint, ActivationInv, ControlFits, files
    <2>2. /\ control' \in ControlRecord /\ control'.pc = "idle"
          /\ TheRecord' = control.rec /\ TheRecord = control.rec
      BY <1>t, <2>1 DEF ControlRecord, TheRecord
    <2>3. TypeOK'
      BY <1>t, <1>c, <2>1, <2>2 DEF TypeOK, CallRecord, ControlRecord
    <2>4. ProcessFits' /\ ControlFits' /\ ListenersFit'
      BY <1>t, <1>u, <2>1, <2>2
      DEF ActivationInv, ProcessFits, ControlFits, ListenersFit, Current
    <2>5. \A rec, e : IsTrue(rec, e)' <=> IsTrue(rec, e)
      BY <2>1, <2>2 DEF IsTrue, Current
    <2> QED  BY <1>c, <2>1, <2>3, <2>4, <2>5 DEF ActivationInv, RecordsFit, CallsFit
  <1>6. CASE RestoreEndpoint
    <2>1. /\ control.pc = "restore" /\ proc.pc = "up" /\ owner \in Engine
          /\ UNCHANGED <<proc, owner, own, backlog, listen, state, call>>
          /\ control' = [control EXCEPT !.pc = "idle"]
          /\ active' = [active EXCEPT ![owner] = own]
      BY <1>6, <1>t, <1>u DEF RestoreEndpoint, ActivationInv, ControlFits
    <2>2. /\ control' \in ControlRecord /\ control'.pc = "idle"
          /\ TheRecord' = own /\ TheRecord = own
      BY <1>t, <2>1 DEF ControlRecord, TheRecord
    <2>3. active' \in [Engine -> Record]
      BY <1>t, <2>1
    <2>4. TypeOK'
      BY <1>t, <1>c, <2>1, <2>2, <2>3 DEF TypeOK, CallRecord, ControlRecord
    <2>5. own.rt <= proc.id
      BY <1>t, Constants DEF TypeOK
    <2>6. ProcessFits' /\ ControlFits' /\ ListenersFit'
      BY <1>t, <1>u, <2>1, <2>2, <2>5
      DEF ActivationInv, ProcessFits, ControlFits, ListenersFit, Current
    <2>7. \A rec, e : IsTrue(rec, e)' <=> IsTrue(rec, e)
      BY <2>1, <2>2 DEF IsTrue, Current
    <2>8. RecordsFit'
      <3>1. IsTrue(own, owner)
        BY <2>1, <2>2 DEF IsTrue, Current
      <3>2. active'[owner] = own /\ \A e \in Engine \ {owner} : active'[e] = active[e]
        BY <1>t, <2>1
      <3>3. own.port \in Port
        BY <2>1 DEF ActivationInv, ControlFits
      <3> QED  BY <2>7, <3>1, <3>2, <3>3 DEF ActivationInv, RecordsFit
    <2> QED  BY <1>c, <2>1, <2>4, <2>6, <2>7, <2>8 DEF ActivationInv, CallsFit
  <1> QED  BY <1>1, <1>2, <1>3, <1>4, <1>5, <1>6 DEF ControlThread

-----------------------------------------------------------------------------
(* The invariant of every behaviour *)

LEMMA Stutter == ASSUME ActivationInv, UNCHANGED vars PROVE ActivationInv'
  <1>1. TypeOK' /\ ProcessFits' /\ ControlFits'
    BY DEF vars, target, files, ActivationInv, TypeOK, ProcessFits, ControlFits
  <1>2. ListenersFit' /\ RecordsFit' /\ CallsFit'
    BY DEF vars, target, files, ActivationInv, ListenersFit, RecordsFit, CallsFit, IsTrue,
           Current, TheRecord, Wanted
  <1> QED  BY <1>1, <1>2 DEF ActivationInv

LEMMA ActivationNext == ASSUME ActivationInv, [Next]_vars PROVE ActivationInv'
  BY Stutter, ProcessInv, ControlInv, AttemptInv DEF Next

LEMMA ActivationInvariant == Spec => []ActivationInv
  <1>1. Init => ActivationInv
    BY InitActivation
  <1>2. ActivationInv /\ [Next]_vars => ActivationInv'
    BY ActivationNext
  <1> QED  BY <1>1, <1>2, PTL DEF Spec

\* An attempt reports an engine only at the end of getActiveEndpoint, and then it is the owner of
\* the process, if that has a bootstrap, and holds its record.
LEMMA ReportsConclude ==
    ASSUME ActivationInv, [Next]_vars, NEW c \in Client,
           call[c].end = "none", call'[c].end \in {"connected", "conflict"}
    PROVE  /\ Concludes(c)
           /\ proc.pc = "up" => owner = Wanted(c) /\ call[c].rec = TheRecord
  <1>1. call'[c].end # call[c].end
    OBVIOUS
  <1>2. Concludes(c)
    <2>1. CASE UNCHANGED call
      BY <1>1, <2>1
    <2>2. CASE ControlThread
      BY <1>1, <2>2, ControlKeepsCalls
    <2>3. ASSUME NEW d \in Client, Attempt(d)
          PROVE  Concludes(c)
      <3>1. Quiet(d) \/ Takes(d) \/ Concludes(d)
        BY <2>3, AttemptInv
      <3>2. d = c
        BY <1>1, <3>1 DEF Quiet, Takes, Concludes
      <3> QED  BY <1>1, <3>1, <3>2 DEF Quiet, Takes, Concludes
    <2> QED  BY <2>1, <2>2, <2>3, ProcessInv DEF Next, vars
  <1>3. ASSUME proc.pc = "up"
        PROVE  owner = Wanted(c) /\ call[c].rec = TheRecord
    <2>1. call[c].pc = "recheck" /\ state = call[c].rt /\ state = proc.id
      BY <1>2, <1>3 DEF Concludes, SameRuntime, ActivationInv, ProcessFits
    <2>2. call[c].rec.rt = proc.id /\ IsTrue(call[c].rec, Wanted(c))
      BY <2>1 DEF ActivationInv, CallsFit
    <2> QED  BY <1>3, <2>2 DEF IsTrue, Current
  <1> QED  BY <1>2, <1>3

-----------------------------------------------------------------------------
(* What holds for every number of attempts, ports and processes *)

\* The types of the target's process, its control thread, its files and the attempts; an endpoint
\* a process knows of is its own, never one a process before it had with the pid.
THEOREM TypeCorrect == Spec => []TypeOK
  <1>1. ActivationInv => TypeOK
    BY DEF ActivationInv
  <1> QED  BY <1>1, ActivationInvariant, PTL

\* Two engines never run in one process, whatever the attempts of the windows and the ends of
\* listeners and processes (debugpyInjector.ts:1105).
THEOREM OneEngine == Spec => []EnginesAreExclusive
  <1>1. ActivationInv => EnginesAreExclusive
    <2> SUFFICES ASSUME ActivationInv, NEW p \in Port, NEW q \in Port,
                        listen[p].rt = listen[q].rt, listen[p].rt \notin {0, Elsewhere},
                        None \notin {listen[p].engine, listen[q].engine}
                 PROVE  listen[p].engine = listen[q].engine /\ listen[p].token = listen[q].token
      BY DEF EnginesAreExclusive
    <2>1. listen[p].rt = proc.id
      BY DEF ActivationInv, ListenersFit, Current
    <2> QED  BY <2>1 DEF ActivationInv, ListenersFit
  <1> QED  BY <1>1, ActivationInvariant, PTL

\* The record that a process publishes is of the engine that owns it, and where that listens, it
\* does with the record's credential (debugpyInjector.ts:1044).
THEOREM RecordsAreTrue == Spec => []RecordIsOfItsListener
  <1>1. ActivationInv => RecordIsOfItsListener
    <2> SUFFICES ASSUME ActivationInv, NEW e \in Engine, active[e].rt = proc.id, proc.pc = "up"
                 PROVE  /\ owner = e
                        /\ listen[active[e].port].rt = proc.id
                             => /\ listen[active[e].port].engine = e
                                /\ listen[active[e].port].token = active[e].token
      BY DEF RecordIsOfItsListener
    <2>1. owner = e /\ active[e] = TheRecord
      BY DEF ActivationInv, RecordsFit, IsTrue, Current
    <2>2. TheRecord # NoRecord
      BY <2>1, Constants DEF ActivationInv, ProcessFits
    <2>3. active[e].port \in Port
      BY <2>1, <2>2 DEF TheRecord, ActivationInv, ControlFits
    <2> QED  BY <2>1, <2>3 DEF ActivationInv, ListenersFit
  <1> QED  BY <1>1, ActivationInvariant, PTL

\* A client that connects to the tracer of the process that has the pid then brings the tracer's
\* own credential, never one of an earlier process (debugSession.ts:242).
THEOREM CredentialsFit == Spec => CredentialFits
  <1>1. ASSUME ActivationInv, [Next]_vars, NEW c \in Client,
               call[c].end = "none", call'[c].end = "connected",
               listen[call[c].rec.port].rt = proc.id, listen[call[c].rec.port].engine # None
        PROVE  listen[call[c].rec.port].token = call[c].token
    <2> DEFINE p == call[c].rec.port
    <2>1. Concludes(c) /\ (proc.pc = "up" => owner = Wanted(c) /\ call[c].rec = TheRecord)
      BY <1>1, ReportsConclude
    <2>2. call[c].rec.rt = call[c].rt /\ p \in Port /\ call[c].rec.token = call[c].token
      BY <1>1, <2>1 DEF Concludes, ActivationInv, CallsFit
    <2>4. owner = listen[p].engine /\ TheRecord.token = listen[p].token
      BY <1>1, <2>2 DEF ActivationInv, ListenersFit
    <2>5. proc.pc = "up"
      BY <1>1, <2>4 DEF ActivationInv, ProcessFits
    <2> QED  BY <2>1, <2>2, <2>4, <2>5
  <1>2. ActivationInv /\ [Next]_vars =>
          [\A c \in Client :
             call[c].end = "none" /\ call'[c].end = "connected" /\ call[c].engine = "experimental" =>
                LET l == listen[call[c].rec.port] IN
                  l.rt = proc.id /\ l.engine # None => l.token = call[c].token]_vars
    BY <1>1
  <1> QED  BY <1>2, ActivationInvariant, PTL DEF Spec, CredentialFits

\* What an attempt reports is true of the process that has the pid by then: it connects to the
\* engine that owns it, and a conflict is with the other one (debugpyInjector.ts:1946).
THEOREM OutcomesFit == Spec => OutcomeFitsTarget
  <1>1. ASSUME ActivationInv, [Next]_vars, NEW c \in Client, proc.pc = "up", call[c].end = "none"
        PROVE  /\ call'[c].end = "connected" => owner = call[c].engine
               /\ call'[c].end = "conflict" => owner = otherDebugEngine(call[c].engine)
    BY <1>1, ReportsConclude DEF Concludes, Wanted
  <1>2. ActivationInv /\ [Next]_vars =>
          [\A c \in Client : proc.pc = "up" /\ call[c].end = "none" =>
             /\ call'[c].end = "connected" => owner = call[c].engine
             /\ call'[c].end = "conflict" => owner = otherDebugEngine(call[c].engine)]_vars
    BY <1>1
  <1> QED  BY <1>2, ActivationInvariant, PTL DEF Spec, OutcomeFitsTarget

=============================================================================
