-------------------------- MODULE McpControllerProofs --------------------------
(***************************************************************************)
(* Proofs about the MCP debug controller, for every number of callers,     *)
(* sessions, targets, records, calls and messages.                         *)
(*                                                                         *)
(* A message that arrives changes the records in up to three steps: it may *)
(* bind one to its session, it is applied, and it may end the session.     *)
(* The parts of the invariant are therefore operators on what they relate: *)
(* R the records, A the adapters, C the reference each session was         *)
(* configured with, L the calls, n how many were made, T the targets.      *)
(***************************************************************************)
EXTENDS McpController, TLAPS

States == {"none", "starting", "running", "stopped"} \cup Dead
AdapterRecord == [phase : {"off", "starting", "up", "ended"}, exec : {"running", "stopped"},
                  stops : 0..MaxMessages, halted : Nat, sent : 0..MaxMessages,
                  queue : Seq(Message)]
VsRecord == [cfg : Ref \cup {NoRef}, started : BOOLEAN, over : BOOLEAN,
             ready : BOOLEAN, failed : BOOLEAN]

Cfg == [v \in Vs |-> vs[v].cfg]

-----------------------------------------------------------------------------
(* The inductive invariant *)

Typed(R, A, C, L) ==
    /\ R \in [Ref -> SessionRecord] /\ A \in [Vs -> AdapterRecord]
    /\ C \in [Vs -> Ref \cup {NoRef}] /\ L \in [Caller -> Call]

\* A record is what its state allows.  Every stop it has heard of gave it at most two epochs,
\* one by its event and one by its end.
RecordFits(rc) ==
    /\ rc \in SessionRecord
    /\ rc.state = "none" => rc = NoRecord
    /\ rc.state \in {"none", "starting"} => rc.epoch = 0 /\ rc.seen = 0 /\ rc.session = None
    /\ rc.state \notin {"none", "starting", "terminated"} => rc.session # None
    /\ rc.session # None => rc.known
    /\ ~rc.known => rc.state \in {"none", "terminated"}
    /\ rc.epoch <= 2 * rc.seen
    /\ rc.state = "stopped" => rc.epoch < 2 * rc.seen

RecordsFit(R) == \A r \in Ref : RecordFits(R[r])

\* The messages after which an adapter says nothing more of the target
Last == {"rejected", "ended", "response"}
Closing == {"ended", "response"}

\* The end of the session was heard: nothing is left of what adapter a said of the target.
Through(a) == a.phase = "ended" /\ \A i \in 1..Len(a.queue) : a.queue[i].kind \in Closing

\* VS Code's sessions and the records: each has at most one of the other.
SessionsFit(R, A, C) ==
    /\ \A q, r \in Ref : R[q].session # None /\ R[q].session = R[r].session => q = r
    /\ \A v, w \in Vs : C[v] # NoRef /\ C[v] = C[w] => v = w
    /\ \A v \in Vs, r \in Ref : R[r].session = v => A[v].phase # "off" /\ C[v] \in {NoRef, r}
    /\ \A v \in Vs, r \in Ref :
          C[v] = r => A[v].phase # "off" /\ R[r].state # "none" /\ R[r].session \in {None, v}

\* A record that is over for the extension is of a session that is over for the adapter.
EndsFit(R, A, C) ==
    \A v \in Vs, r \in Ref :
       R[r].state = "terminated" /\ R[r].known /\ (R[r].session = v \/ C[v] = r) => Through(A[v])

\* So is a session that is failed or being finalized.
FinalizingFits(S, F, A) == \A v \in Vs : S[v].failed \/ v \in F => Through(A[v])

\* A record whose startDebugging is under way is known, and no other call's.
LaunchesFit(R, C, L) ==
    \A c \in Caller : L[c].pc = "launch" =>
        /\ L[c].ref \in Ref /\ R[L[c].ref].known /\ R[L[c].ref].state # "none"
        /\ \A d \in Caller : L[d].pc = "launch" /\ L[d].ref = L[c].ref => c = d
        /\ \A v \in Vs : R[L[c].ref].session = v => C[v] = L[c].ref
        /\ (\A v \in Vs : C[v] # L[c].ref) => R[L[c].ref].state = "starting"

\* The stream of an adapter: its stops in their order, an answer behind the stops it knew of,
\* a resumption it announced before the stop that followed, and nothing after the end.
StreamFits(a) ==
    /\ a.stops <= a.sent
    /\ a.exec = "stopped" => a.stops > 0
    /\ a.phase = "off" => a.queue = <<>>
    /\ \A i \in 1..Len(a.queue) :
          /\ a.queue[i].kind = "stopped" => a.queue[i].no \in 1..a.stops
          /\ a.queue[i].kind = "reply" => a.queue[i].no <= a.stops
          /\ a.phase # "ended" => a.queue[i].kind \notin Last
          /\ a.queue[i].kind = "continued" /\ a.exec = "stopped" =>
                \E j \in 1..Len(a.queue) :
                   j > i /\ a.queue[j].kind = "stopped" /\ a.queue[j].no = a.stops
    /\ \A i, j \in 1..Len(a.queue) : i < j =>
          /\ a.queue[i].kind \in {"stopped", "reply"} /\ a.queue[j].kind = "stopped"
             => a.queue[i].no < a.queue[j].no
          /\ a.queue[i].kind \in Last => a.queue[j].kind \in Closing

StreamsFit(A) == \A v \in Vs : StreamFits(A[v])

\* Stop k of adapter a is still to be heard.
Announced(a, k) == \E i \in 1..Len(a.queue) : a.queue[i].kind = "stopped" /\ a.queue[i].no = k

\* What the record rc has not heard of its adapter is still to come.
Hears(rc, a) ==
    /\ rc.seen <= a.stops
    /\ \A i \in 1..Len(a.queue) : a.queue[i].kind = "stopped" => a.queue[i].no > rc.seen
    /\ ~Through(a) =>
          /\ \A k \in 1..a.stops : k > rc.seen => Announced(a, k)
          /\ rc.state = "running" /\ a.exec = "stopped" => Announced(a, a.stops)

RecordsHear(R, A, C) ==
    /\ \A v \in Vs, r \in Ref : R[r].session = v => Hears(R[r], A[v])
    /\ \A v \in Vs : ~Through(A[v]) /\ (\A r \in Ref : R[r].session # v) =>
          \/ C[v] # NoRef /\ ~R[C[v]].known
          \/ \A k \in 1..A[v].stops : Announced(A[v], k)

\* The answers on their way: one for a call that waits for it, from the session it asked.
RepliesFit(R, A, L) ==
    /\ \A v \in Vs : \A i \in 1..Len(A[v].queue) : A[v].queue[i].kind = "reply" =>
          LET m == A[v].queue[i] IN
          /\ m.call \in Caller /\ L[m.call].pc \in {"served", "executed"}
          /\ R[L[m.call].ref].session \in {None, v}
          /\ L[m.call].pc = "executed" => L[m.call].data = m.no
    /\ \A v, w \in Vs : \A i \in 1..Len(A[v].queue), j \in 1..Len(A[w].queue) :
          /\ A[v].queue[i].kind = "reply" /\ A[w].queue[j].kind = "reply"
          /\ A[v].queue[i].call = A[w].queue[j].call
          => v = w /\ i = j

IsCurrent(rc, epoch) == rc.state = "stopped" /\ rc.epoch = epoch

\* A call and the record it is about
CallFits(cl, R, n) ==
    /\ cl.pc = "resolving" => cl.mark \in 1..n
    /\ cl.pc \in {"revalidate", "launch"} => cl.op = "start"
    /\ cl.pc = "waiting" => cl.op \in {"wait", "ready"} /\ cl.ref \in Ref
    /\ cl.pc \in {"asked", "served", "answered"} => cl.op \in {"inspect", "resume", "pause"}
    /\ cl.pc \in {"sent", "executed", "settled"} => cl.op \in {"resume", "pause"}
    /\ cl.pc = "stopping" => cl.op = "disconnect"
    /\ cl.op \in {"inspect", "resume", "pause", "disconnect"} =>
          cl.ref \in Ref /\ R[cl.ref].state \notin {"none", "starting"}
    /\ cl.op \in {"inspect", "resume"} =>
          /\ cl.mark <= R[cl.ref].epoch
          /\ cl.mark = R[cl.ref].epoch => cl.named = R[cl.ref].seen
    /\ cl.op = "inspect" /\ cl.pc = "answered" /\ IsCurrent(R[cl.ref], cl.mark) =>
          cl.data <= cl.named
    /\ cl.op = "inspect" /\ cl.pc = "returned" => cl.data <= cl.named

\* A target that a resume request has started again is stopped only by a later stop.
ResumeFits(cl, R, A) ==
    cl.op = "resume" /\ cl.pc \in {"executed", "settled"} =>
       \A v \in Vs : R[cl.ref].session = v =>
          /\ cl.data <= A[v].stops
          /\ cl.mark = R[cl.ref].epoch => cl.named <= cl.data
          /\ A[v].exec = "stopped" => cl.data < A[v].stops

CallsFit(R, A, L, n) == \A c \in Caller : CallFits(L[c], R, n) /\ ResumeFits(L[c], R, A)

\* A target reference that was used is gone, and one start or one record has it.
TargetsFit(R, L, T) ==
    /\ \A q, r \in Ref : R[q].target # None /\ R[q].target = R[r].target => q = r
    /\ \A r \in Ref : R[r].target # None => T[R[r].target] = "gone"
    /\ \A c \in Caller : L[c].pc = "revalidate" =>
          /\ L[c].target \in Target /\ T[L[c].target] = "gone"
          /\ \A r \in Ref : R[r].target # L[c].target
          /\ \A d \in Caller : L[d].pc = "revalidate" /\ L[d].target = L[c].target => c = d

\* What the steps of the records, the adapters and the calls share
Core(R, A, C, L, n) ==
    /\ Typed(R, A, C, L)
    /\ RecordsFit(R) /\ SessionsFit(R, A, C) /\ EndsFit(R, A, C) /\ StreamsFit(A)
    /\ RepliesFit(R, A, L) /\ CallsFit(R, A, L, n) /\ LaunchesFit(R, C, L)

Fits(R, A, C, L, n) == Core(R, A, C, L, n) /\ RecordsHear(R, A, C)

Tables ==
    /\ targets \in [Target -> {"none", "live", "gone"}]
    /\ made \in 0..MaxCalls /\ owned \in 0..MaxCalls /\ editor \subseteq 1..MaxCalls
    /\ vs \in [Vs -> VsRecord] /\ finalizing \subseteq Vs

ControllerInv ==
    /\ Tables /\ Fits(rec, adapter, Cfg, call, made)
    /\ FinalizingFits(vs, finalizing, adapter)
    /\ TargetsFit(rec, call, targets) /\ WaitsMissNothing /\ NoOrphanBreakpoints

-----------------------------------------------------------------------------
(* Constants *)

LEMMA Constants ==
    /\ None \notin Vs /\ None \notin Target /\ MaxMessages \in Nat /\ MaxCalls \in Nat
    /\ Ref \subseteq Int /\ NoRef \notin Ref /\ 2 * MaxMessages \in Nat
<1>1. MaxRef \in Nat /\ MaxMessages \in Nat /\ MaxCalls \in Nat
  BY ControllerAssumption
<1> QED
  BY <1>1, ControllerAssumption, SMT DEF Ref, NoRef

-----------------------------------------------------------------------------
(* How a step moves a record *)

\* What every step keeps of a record, however the steps of one message are put together:
\* an epoch is of one stop, an end is final, a dead reference stays dead, and a record
\* that moved without a new event became neither ready nor stopped.
Moves(a, b) ==
    /\ b.target = a.target
    /\ a.epoch <= b.epoch /\ a.cursor <= b.cursor
    /\ a.epoch = b.epoch => b.seen = a.seen /\ (b.state = "stopped" => a.state = "stopped")
    /\ a.state = "terminated" => b.state = "terminated"
    /\ a.state # "none" => b.state # "none" /\ (~a.known => ~b.known)
    /\ a.state \notin {"none", "starting"} =>
          b.state \notin {"none", "starting"} /\ b.session \in {None, a.session}
    /\ a.known /\ ~b.known => b.state = "terminated"
    /\ a.known /\ b.known /\ a.cursor = b.cursor =>
          (b.ready => a.ready) /\ (b.state = "stopped" => a.state = "stopped")

\* No step moves a record backwards, and neither do two of them.
LEMMA MovesStay == ASSUME NEW a \in SessionRecord PROVE Moves(a, a)
BY Constants, SMT DEF Moves, SessionRecord

LEMMA MovesAgain ==
    ASSUME NEW a \in SessionRecord, NEW b \in SessionRecord, NEW c \in SessionRecord,
           Moves(a, b), Moves(b, c)
    PROVE  Moves(a, c)
<1>1. /\ a.epoch \in Int /\ b.epoch \in Int /\ c.epoch \in Int
      /\ a.cursor \in Int /\ b.cursor \in Int /\ c.cursor \in Int
  BY Constants, SMT DEF SessionRecord
<1>2. a.epoch <= c.epoch /\ a.cursor <= c.cursor
  BY <1>1, SMT DEF Moves
<1>3. a.epoch = c.epoch => a.epoch = b.epoch /\ b.epoch = c.epoch
  BY <1>1, SMT DEF Moves
<1>4. a.cursor = c.cursor => a.cursor = b.cursor /\ b.cursor = c.cursor
  BY <1>1, SMT DEF Moves
<1>5. a.known /\ c.known => b.known
  BY SMT DEF Moves
<1> QED
  BY <1>2, <1>3, <1>4, <1>5, SMT DEF Moves

-----------------------------------------------------------------------------
(* The fields of a record, one at a time *)

LEMMA SetState ==
    ASSUME NEW rc \in SessionRecord, NEW x \in States
    PROVE  LET b == [rc EXCEPT !.state = x] IN
           /\ b \in SessionRecord /\ b.state = x /\ b.known = rc.known
           /\ b.session = rc.session /\ b.target = rc.target /\ b.ready = rc.ready
           /\ b.control = rc.control /\ b.epoch = rc.epoch /\ b.seen = rc.seen
           /\ b.cursor = rc.cursor
BY SMT DEF SessionRecord, States, Dead

LEMMA SetReadyOnly ==
    ASSUME NEW rc \in SessionRecord, NEW x \in BOOLEAN
    PROVE  [rc EXCEPT !.ready = x, !.state = rc.state] = [rc EXCEPT !.ready = x]
<1> DEFINE i == [rc EXCEPT !.ready = x]
<1>1. i \in SessionRecord /\ i.state = rc.state
  BY SMT DEF SessionRecord
<1>2. [i EXCEPT !.state = rc.state] = i
  <2> HIDE DEF i
  <2> QED
    BY <1>1, SMT DEF SessionRecord
<1> QED
  BY <1>2

LEMMA SetAllAgain ==
    ASSUME NEW rc \in SessionRecord
    PROVE  [rc EXCEPT !.known = rc.known, !.session = rc.session, !.state = rc.state,
                      !.cursor = rc.cursor] = rc
<1>1. [rc EXCEPT !.known = rc.known] = rc
  BY SMT DEF SessionRecord
<1>2. [rc EXCEPT !.session = rc.session] = rc
  BY SMT DEF SessionRecord
<1>3. [rc EXCEPT !.state = rc.state] = rc
  BY SMT DEF SessionRecord
<1>4. [rc EXCEPT !.cursor = rc.cursor] = rc
  BY SMT DEF SessionRecord
<1> QED
  BY ONLY <1>1, <1>2, <1>3, <1>4

LEMMA SetKnown ==
    ASSUME NEW rc \in SessionRecord, NEW x \in BOOLEAN
    PROVE  LET b == [rc EXCEPT !.known = x] IN
           /\ b \in SessionRecord /\ b.state = rc.state /\ b.known = x
           /\ b.session = rc.session /\ b.target = rc.target /\ b.ready = rc.ready
           /\ b.control = rc.control /\ b.epoch = rc.epoch /\ b.seen = rc.seen
           /\ b.cursor = rc.cursor
BY SMT DEF SessionRecord, States, Dead

LEMMA SetSession ==
    ASSUME NEW rc \in SessionRecord, NEW x \in Vs \cup {None}
    PROVE  LET b == [rc EXCEPT !.session = x] IN
           /\ b \in SessionRecord /\ b.state = rc.state /\ b.known = rc.known
           /\ b.session = x /\ b.target = rc.target /\ b.ready = rc.ready
           /\ b.control = rc.control /\ b.epoch = rc.epoch /\ b.seen = rc.seen
           /\ b.cursor = rc.cursor
BY SMT DEF SessionRecord, States, Dead

LEMMA SetReady ==
    ASSUME NEW rc \in SessionRecord, NEW x \in BOOLEAN
    PROVE  LET b == [rc EXCEPT !.ready = x] IN
           /\ b \in SessionRecord /\ b.state = rc.state /\ b.known = rc.known
           /\ b.session = rc.session /\ b.target = rc.target /\ b.ready = x
           /\ b.control = rc.control /\ b.epoch = rc.epoch /\ b.seen = rc.seen
           /\ b.cursor = rc.cursor
BY SMT DEF SessionRecord, States, Dead

LEMMA SetControl ==
    ASSUME NEW rc \in SessionRecord, NEW x \in BOOLEAN
    PROVE  LET b == [rc EXCEPT !.control = x] IN
           /\ b \in SessionRecord /\ b.state = rc.state /\ b.known = rc.known
           /\ b.session = rc.session /\ b.target = rc.target /\ b.ready = rc.ready
           /\ b.control = x /\ b.epoch = rc.epoch /\ b.seen = rc.seen
           /\ b.cursor = rc.cursor
BY SMT DEF SessionRecord, States, Dead

LEMMA SetEpoch ==
    ASSUME NEW rc \in SessionRecord, NEW x \in 0..(2 * MaxMessages)
    PROVE  LET b == [rc EXCEPT !.epoch = x] IN
           /\ b \in SessionRecord /\ b.state = rc.state /\ b.known = rc.known
           /\ b.session = rc.session /\ b.target = rc.target /\ b.ready = rc.ready
           /\ b.control = rc.control /\ b.epoch = x /\ b.seen = rc.seen
           /\ b.cursor = rc.cursor
BY SMT DEF SessionRecord, States, Dead

LEMMA SetSeen ==
    ASSUME NEW rc \in SessionRecord, NEW x \in 0..MaxMessages
    PROVE  LET b == [rc EXCEPT !.seen = x] IN
           /\ b \in SessionRecord /\ b.state = rc.state /\ b.known = rc.known
           /\ b.session = rc.session /\ b.target = rc.target /\ b.ready = rc.ready
           /\ b.control = rc.control /\ b.epoch = rc.epoch /\ b.seen = x
           /\ b.cursor = rc.cursor
BY SMT DEF SessionRecord, States, Dead

LEMMA SetCursor ==
    ASSUME NEW rc \in SessionRecord, NEW x \in Nat
    PROVE  LET b == [rc EXCEPT !.cursor = x] IN
           /\ b \in SessionRecord /\ b.state = rc.state /\ b.known = rc.known
           /\ b.session = rc.session /\ b.target = rc.target /\ b.ready = rc.ready
           /\ b.control = rc.control /\ b.epoch = rc.epoch /\ b.seen = rc.seen
           /\ b.cursor = x
BY SMT DEF SessionRecord, States, Dead

-----------------------------------------------------------------------------
(* What the operators on records do *)

\* invalidateStop: the epoch moves on exactly if the record was stopped.
LEMMA InvalidateFacts ==
    ASSUME NEW rc, RecordFits(rc), NEW s \in {"running", "terminating", "terminated"}
    PROVE  LET b == Invalidate(rc, s) IN
           /\ b \in SessionRecord /\ b.state = s /\ b.known = rc.known
           /\ b.session = rc.session /\ b.target = rc.target /\ (b.ready => rc.ready)
           /\ b.epoch = (IF rc.state = "stopped" THEN rc.epoch + 1 ELSE rc.epoch)
           /\ b.seen = rc.seen /\ b.cursor = rc.cursor
<1> DEFINE e == IF rc.state = "stopped" THEN rc.epoch + 1 ELSE rc.epoch
           y == rc.ready /\ s \notin Dead
           b1 == [rc EXCEPT !.state = s]
           b2 == [b1 EXCEPT !.epoch = e]
           b3 == [b2 EXCEPT !.ready = y]
<1>1. rc \in SessionRecord /\ s \in States
  BY Zenon DEF RecordFits, States, Dead
<1>2. e \in 0..(2 * MaxMessages)
  BY <1>1, Constants, SMT DEF RecordFits, SessionRecord
<1>3. y \in BOOLEAN
  OBVIOUS
<1>4. Invalidate(rc, s) = [rc EXCEPT !.state = s, !.epoch = e, !.ready = y]
  BY Zenon DEF Invalidate
<1>0. e = (IF rc.state = "stopped" THEN rc.epoch + 1 ELSE rc.epoch) /\ (y => rc.ready)
  OBVIOUS
<1> HIDE DEF e, y
<1>9. Invalidate(rc, s) = b3
  BY <1>1, <1>2, <1>3, <1>4, SMT DEF SessionRecord
<1>5. /\ b1 \in SessionRecord /\ b1.state = s /\ b1.known = rc.known
      /\ b1.session = rc.session /\ b1.target = rc.target /\ b1.ready = rc.ready
      /\ b1.epoch = rc.epoch /\ b1.seen = rc.seen /\ b1.cursor = rc.cursor
  BY <1>1, SetState
<1> HIDE DEF b1
<1>6. /\ b2 \in SessionRecord /\ b2.state = b1.state /\ b2.known = b1.known
      /\ b2.session = b1.session /\ b2.target = b1.target /\ b2.ready = b1.ready
      /\ b2.epoch = e /\ b2.seen = b1.seen /\ b2.cursor = b1.cursor
  BY <1>5, <1>2, SetEpoch
<1> HIDE DEF b2
<1>7. /\ b3 \in SessionRecord /\ b3.state = b2.state /\ b3.known = b2.known
      /\ b3.session = b2.session /\ b3.target = b2.target /\ b3.ready = y
      /\ b3.epoch = b2.epoch /\ b3.seen = b2.seen /\ b3.cursor = b2.cursor
  BY <1>6, <1>3, SetReady
<1> HIDE DEF b3
<1> QED
  BY <1>0, <1>5, <1>6, <1>7, <1>9, Zenon

\* appendEvent
LEMMA Append1Facts ==
    ASSUME NEW rc \in SessionRecord
    PROVE  LET b == Append1(rc) IN
           /\ b \in SessionRecord /\ b.state = rc.state /\ b.known = rc.known
           /\ b.session = rc.session /\ b.target = rc.target /\ b.ready = rc.ready
           /\ b.control = rc.control /\ b.epoch = rc.epoch /\ b.seen = rc.seen
           /\ b.cursor = rc.cursor + 1
<1>1. rc.cursor + 1 \in Nat
  BY SMT DEF SessionRecord
<1>2. Append1(rc) = [rc EXCEPT !.cursor = rc.cursor + 1]
  BY DEF Append1
<1> QED
  BY <1>1, <1>2, SetCursor

\* A record that hears the target runs again
LEMMA ContinuedFacts ==
    ASSUME NEW rc, RecordFits(rc), rc.session # None
    PROVE  LET b == Append1(Invalidate(rc, "running")) IN
           /\ RecordFits(b) /\ (rc.state # "terminated" => Moves(rc, b))
           /\ b.state = "running" /\ b.session = rc.session /\ b.known = rc.known
           /\ b.seen = rc.seen
<1> DEFINE i == Invalidate(rc, "running")
           b == Append1(i)
<1>1. /\ i \in SessionRecord /\ i.state = "running" /\ i.known = rc.known
      /\ i.session = rc.session /\ i.target = rc.target
      /\ i.epoch = (IF rc.state = "stopped" THEN rc.epoch + 1 ELSE rc.epoch)
      /\ i.seen = rc.seen /\ i.cursor = rc.cursor
  BY InvalidateFacts
<1> HIDE DEF i
<1>2. /\ b \in SessionRecord /\ b.state = i.state /\ b.known = i.known
      /\ b.session = i.session /\ b.target = i.target
      /\ b.epoch = i.epoch /\ b.seen = i.seen /\ b.cursor = i.cursor + 1
  BY <1>1, Append1Facts
<1> HIDE DEF b
<1>3. /\ rc.epoch \in Int /\ rc.seen \in Int /\ rc.cursor \in Int /\ rc \in SessionRecord
  BY Constants, SMT DEF RecordFits, SessionRecord
<1>4. RecordFits(b)
  BY <1>1, <1>2, <1>3, SMT DEF RecordFits
<1>5. rc.state # "terminated" => Moves(rc, b)
  BY <1>1, <1>2, <1>3, SMT DEF RecordFits, Moves
<1> QED
  BY <1>1, <1>2, <1>4, <1>5 DEF b, i

\* ... and one that hears it has ended
LEMMA TerminatedFacts ==
    ASSUME NEW rc, RecordFits(rc), rc.known, rc.state # "none"
    PROVE  LET b == Append1(Invalidate(rc, "terminated")) IN
           /\ RecordFits(b) /\ Moves(rc, b)
           /\ b.state = "terminated" /\ b.session = rc.session /\ b.known = rc.known
           /\ b.seen = rc.seen
<1> DEFINE i == Invalidate(rc, "terminated")
           b == Append1(i)
<1>1. /\ i \in SessionRecord /\ i.state = "terminated" /\ i.known = rc.known
      /\ i.session = rc.session /\ i.target = rc.target
      /\ i.epoch = (IF rc.state = "stopped" THEN rc.epoch + 1 ELSE rc.epoch)
      /\ i.seen = rc.seen /\ i.cursor = rc.cursor
  BY InvalidateFacts
<1> HIDE DEF i
<1>2. /\ b \in SessionRecord /\ b.state = i.state /\ b.known = i.known
      /\ b.session = i.session /\ b.target = i.target
      /\ b.epoch = i.epoch /\ b.seen = i.seen /\ b.cursor = i.cursor + 1
  BY <1>1, Append1Facts
<1> HIDE DEF b
<1>3. /\ rc.epoch \in Int /\ rc.seen \in Int /\ rc.cursor \in Int /\ rc \in SessionRecord
  BY Constants, SMT DEF RecordFits, SessionRecord
<1>4. RecordFits(b)
  BY <1>1, <1>2, <1>3, SMT DEF RecordFits
<1>5. Moves(rc, b)
  BY <1>1, <1>2, <1>3, SMT DEF RecordFits, Moves
<1> QED
  BY <1>1, <1>2, <1>4, <1>5 DEF b, i

\* handleSessionTerminated
LEMMA EndedFacts ==
    ASSUME NEW rc, RecordFits(rc), rc.known, rc.state # "none"
    PROVE  LET b == Ended(rc) IN
           /\ RecordFits(b) /\ Moves(rc, b)
           /\ b.state = "terminated" /\ b.session = None /\ b.known = rc.known
<1> DEFINE i == IF rc.state = "terminated" THEN rc ELSE Append1(Invalidate(rc, "terminated"))
           b == [i EXCEPT !.session = None]
<1>1. rc \in SessionRecord
  BY DEF RecordFits
<1>2. /\ RecordFits(i) /\ Moves(rc, i) /\ i.state = "terminated" /\ i.known = rc.known
      /\ i.session = rc.session
  BY <1>1, TerminatedFacts, MovesStay
<1> HIDE DEF i
<1>7. i \in SessionRecord
  BY <1>2 DEF RecordFits
<1>3. /\ b \in SessionRecord /\ b.state = i.state /\ b.known = i.known
      /\ b.session = None /\ b.target = i.target /\ b.ready = i.ready
      /\ b.epoch = i.epoch /\ b.seen = i.seen /\ b.cursor = i.cursor
  BY <1>7, SetSession
<1> HIDE DEF b
<1>4. RecordFits(b)
  BY <1>2, <1>3, SMT DEF RecordFits
<1>5. Moves(rc, b)
  BY <1>2, <1>3, SMT DEF Moves
<1>6. Ended(rc) = b
  BY DEF Ended, b, i
<1> QED
  BY <1>2, <1>3, <1>4, <1>5, <1>6

\* discardRejectedSession
LEMMA DiscardedFacts ==
    ASSUME NEW rc, RecordFits(rc), rc.known, rc.state # "none"
    PROVE  LET b == [Invalidate(rc, "terminated") EXCEPT !.known = FALSE, !.session = None] IN
           /\ RecordFits(b) /\ Moves(rc, b)
           /\ b.state = "terminated" /\ b.session = None /\ b.known = FALSE
<1> DEFINE i == Invalidate(rc, "terminated")
           j == [i EXCEPT !.known = FALSE]
           b == [j EXCEPT !.session = None]
<1>1. /\ i \in SessionRecord /\ i.state = "terminated" /\ i.known = rc.known
      /\ i.session = rc.session /\ i.target = rc.target
      /\ i.epoch = (IF rc.state = "stopped" THEN rc.epoch + 1 ELSE rc.epoch)
      /\ i.seen = rc.seen /\ i.cursor = rc.cursor
  BY InvalidateFacts
<1>2. [i EXCEPT !.known = FALSE, !.session = None] = b
  BY <1>1, SMT DEF SessionRecord
<1> HIDE DEF i
<1>3. /\ j \in SessionRecord /\ j.state = i.state /\ j.known = FALSE
      /\ j.session = i.session /\ j.target = i.target
      /\ j.epoch = i.epoch /\ j.seen = i.seen /\ j.cursor = i.cursor
  BY <1>1, SetKnown
<1> HIDE DEF j
<1>4. /\ b \in SessionRecord /\ b.state = j.state /\ b.known = j.known
      /\ b.session = None /\ b.target = j.target
      /\ b.epoch = j.epoch /\ b.seen = j.seen /\ b.cursor = j.cursor
  BY <1>3, SetSession
<1> HIDE DEF b
<1>5. /\ rc.epoch \in Int /\ rc.seen \in Int /\ rc.cursor \in Int /\ rc \in SessionRecord
  BY Constants, SMT DEF RecordFits, SessionRecord
<1>6. RecordFits(b)
  BY <1>1, <1>3, <1>4, <1>5, SMT DEF RecordFits
<1>7. Moves(rc, b)
  BY <1>1, <1>3, <1>4, <1>5, SMT DEF RecordFits, Moves
<1> QED
  BY <1>1, <1>2, <1>3, <1>4, <1>6, <1>7 DEF i

\* handleDapMessage of a bound record that is not over: what it is afterwards
LEMMA AfterFacts ==
    ASSUME NEW rc, RecordFits(rc), rc.session # None, rc.state # "terminated",
           NEW m \in Message, m.kind # "rejected", m.kind = "stopped" => m.no > rc.seen
    PROVE  LET b == After(rc, m) IN
           /\ RecordFits(b) /\ Moves(rc, b) /\ b.session = rc.session /\ b.known = rc.known
           /\ b.seen = (IF m.kind = "stopped" THEN m.no ELSE rc.seen)
           /\ m.kind = "stopped" => b.state = "stopped"
           /\ m.kind = "ended" => b.state = "terminated"
           /\ m.kind = "continued" => b.state = "running"
           /\ m.kind \notin {"stopped", "ended", "continued"} => b.state = rc.state
           /\ m.kind = "reply" => b = rc
<1>1. /\ rc \in SessionRecord /\ rc.known
      /\ rc.epoch \in Int /\ rc.seen \in Int /\ rc.cursor \in Int
      /\ rc.epoch <= 2 * rc.seen /\ rc.state \notin {"none", "starting"}
  BY Constants, SMT DEF RecordFits, SessionRecord
<1>2. CASE m.kind = "ready"
  <2>1. CASE rc.state # "terminating" /\ ~rc.ready
    <3> DEFINE i == [rc EXCEPT !.ready = TRUE]
               b == Append1(i)
    <3>1. /\ i \in SessionRecord /\ i.state = rc.state /\ i.known = rc.known
          /\ i.session = rc.session /\ i.target = rc.target
          /\ i.epoch = rc.epoch /\ i.seen = rc.seen /\ i.cursor = rc.cursor
      BY <1>1, SetReady
    <3>2. [rc EXCEPT !.ready = TRUE, !.state = IF @ = "starting" THEN "running" ELSE @] = i
      <4>1. [rc EXCEPT !.ready = TRUE, !.state = IF @ = "starting" THEN "running" ELSE @]
            = [rc EXCEPT !.ready = TRUE, !.state = rc.state]
        BY <1>1, Zenon
      <4> QED
        BY <1>1, <4>1, SetReadyOnly, Zenon
    <3>3. After(rc, m) = b
      BY <1>2, <2>1, <3>2, Zenon DEF After
    <3> HIDE DEF i
    <3>4. /\ b \in SessionRecord /\ b.state = i.state /\ b.known = i.known
          /\ b.session = i.session /\ b.target = i.target
          /\ b.epoch = i.epoch /\ b.seen = i.seen /\ b.cursor = i.cursor + 1
      BY <3>1, Append1Facts
    <3> HIDE DEF b
    <3>5. RecordFits(b)
      BY <1>1, <3>1, <3>4, SMT DEF RecordFits
    <3>6. Moves(rc, b)
      BY <1>1, <3>1, <3>4, SMT DEF RecordFits, Moves
    <3> QED
      BY <1>2, <3>1, <3>3, <3>4, <3>5, <3>6
  <2>2. CASE ~(rc.state # "terminating" /\ ~rc.ready)
    <3>1. After(rc, m) = rc
      BY <1>2, <2>2, Zenon DEF After
    <3> QED
      BY <1>1, <1>2, <3>1, MovesStay
  <2> QED
    BY <2>1, <2>2
<1>3. CASE m.kind = "stopped"
  <2> DEFINE i1 == [rc EXCEPT !.state = "stopped"]
             i2 == [i1 EXCEPT !.epoch = rc.epoch + 1]
             i3 == [i2 EXCEPT !.seen = m.no]
             b == Append1(i3)
  <2>1. /\ m.no \in 0..MaxMessages /\ m.no \in Int /\ "stopped" \in States
        /\ rc.epoch + 1 \in 0..(2 * MaxMessages)
    BY <1>1, <1>3, Constants, SMT DEF Message, States, SessionRecord
  <2>2. [rc EXCEPT !.state = "stopped", !.epoch = @ + 1, !.seen = m.no] = i3
    BY <1>1, SMT DEF SessionRecord
  <2>3. After(rc, m) = b
    BY <1>3, <2>2, Zenon DEF After
  <2>4. /\ i1 \in SessionRecord /\ i1.state = "stopped" /\ i1.known = rc.known
        /\ i1.session = rc.session /\ i1.target = rc.target
        /\ i1.seen = rc.seen /\ i1.cursor = rc.cursor
    BY <1>1, <2>1, SetState, ZenonT(40)
  <2> HIDE DEF i1
  <2>5. /\ i2 \in SessionRecord /\ i2.state = i1.state /\ i2.known = i1.known
        /\ i2.session = i1.session /\ i2.target = i1.target
        /\ i2.epoch = rc.epoch + 1 /\ i2.cursor = i1.cursor
    BY <2>4, <2>1, SetEpoch
  <2> HIDE DEF i2
  <2>6. /\ i3 \in SessionRecord /\ i3.state = i2.state /\ i3.known = i2.known
        /\ i3.session = i2.session /\ i3.target = i2.target
        /\ i3.epoch = i2.epoch /\ i3.seen = m.no /\ i3.cursor = i2.cursor
    BY <2>5, <2>1, SetSeen
  <2> HIDE DEF i3
  <2>7. /\ b \in SessionRecord /\ b.state = i3.state /\ b.known = i3.known
        /\ b.session = i3.session /\ b.target = i3.target
        /\ b.epoch = i3.epoch /\ b.seen = i3.seen /\ b.cursor = i3.cursor + 1
    BY <2>6, Append1Facts
  <2> HIDE DEF b
  <2>8. RecordFits(b)
    BY <1>1, <1>3, <2>1, <2>4, <2>5, <2>6, <2>7, SMT DEF RecordFits
  <2>9. Moves(rc, b)
    BY <1>1, <2>4, <2>5, <2>6, <2>7, SMT DEF RecordFits, Moves
  <2> QED
    BY <1>3, <2>3, <2>4, <2>5, <2>6, <2>7, <2>8, <2>9
<1>4. CASE m.kind = "continued"
  <2>1. After(rc, m) = Append1(Invalidate(rc, "running"))
    BY <1>4, Zenon DEF After
  <2> QED
    BY <1>4, <2>1, ContinuedFacts
<1>5. CASE m.kind = "ended"
  <2>1. After(rc, m) = Append1(Invalidate(rc, "terminated"))
    BY <1>5, Zenon DEF After
  <2> QED
    BY <1>1, <1>5, <2>1, TerminatedFacts
<1>6. CASE m.kind = "notice"
  <2> DEFINE b == Append1(rc)
  <2>1. After(rc, m) = b
    BY <1>6, Zenon DEF After
  <2>2. /\ b \in SessionRecord /\ b.state = rc.state /\ b.known = rc.known
        /\ b.session = rc.session /\ b.target = rc.target
        /\ b.epoch = rc.epoch /\ b.seen = rc.seen /\ b.cursor = rc.cursor + 1
    BY <1>1, Append1Facts
  <2> HIDE DEF b
  <2>3. RecordFits(b)
    BY <1>1, <2>2, SMT DEF RecordFits
  <2>4. Moves(rc, b)
    BY <1>1, <2>2, SMT DEF RecordFits, Moves
  <2> QED
    BY <1>6, <2>1, <2>2, <2>3, <2>4
<1>7. CASE m.kind \in {"response", "reply"}
  <2>1. After(rc, m) = rc
    BY <1>7, Zenon DEF After
  <2> QED
    BY <1>1, <1>7, <2>1, MovesStay
<1> QED
  BY <1>2, <1>3, <1>4, <1>5, <1>6, <1>7 DEF Message, Kinds

\* controlInFlight is set and cleared without an event.
LEMMA ControlFacts ==
    ASSUME NEW rc, RecordFits(rc), rc.state # "none", NEW x \in BOOLEAN
    PROVE  LET b == [rc EXCEPT !.control = x] IN
           /\ RecordFits(b) /\ Moves(rc, b) /\ b.state = rc.state /\ b.known = rc.known
           /\ b.session = rc.session /\ b.seen = rc.seen /\ b.cursor = rc.cursor
<1> DEFINE b == [rc EXCEPT !.control = x]
<1>1. rc \in SessionRecord
  BY DEF RecordFits
<1>2. /\ b \in SessionRecord /\ b.state = rc.state /\ b.known = rc.known
      /\ b.session = rc.session /\ b.target = rc.target /\ b.ready = rc.ready
      /\ b.epoch = rc.epoch /\ b.seen = rc.seen /\ b.cursor = rc.cursor
  BY <1>1, SetControl
<1> HIDE DEF b
<1>3. RecordFits(b)
  BY <1>2, SMT DEF RecordFits
<1>4. Moves(rc, b)
  <2>1. rc.epoch \in Int /\ rc.cursor \in Int
    BY <1>1, Constants, SMT DEF SessionRecord
  <2> QED
    BY <1>2, <2>1, SMT DEF Moves
<1> QED
  BY <1>2, <1>3, <1>4 DEF b

\* The end of controlExecution: the record is invalidated first, if it is what it was.
LEMMA SettledFacts ==
    ASSUME NEW rc, RecordFits(rc), NEW s \in {"running", "terminating"},
           rc.session # None, rc.state # "terminated", s = "running" => rc.state = "stopped"
    PROVE  LET b == [Invalidate(rc, s) EXCEPT !.control = FALSE] IN
           /\ RecordFits(b) /\ Moves(rc, b) /\ b.state = s /\ b.known = rc.known
           /\ b.session = rc.session /\ b.seen = rc.seen /\ b.cursor = rc.cursor
<1> DEFINE i == Invalidate(rc, s)
           b == [i EXCEPT !.control = FALSE]
<1>1. /\ i \in SessionRecord /\ i.state = s /\ i.known = rc.known
      /\ i.session = rc.session /\ i.target = rc.target /\ (i.ready => rc.ready)
      /\ i.epoch = (IF rc.state = "stopped" THEN rc.epoch + 1 ELSE rc.epoch)
      /\ i.seen = rc.seen /\ i.cursor = rc.cursor
  BY InvalidateFacts
<1> HIDE DEF i
<1>2. /\ b \in SessionRecord /\ b.state = i.state /\ b.known = i.known
      /\ b.session = i.session /\ b.target = i.target /\ b.ready = i.ready
      /\ b.epoch = i.epoch /\ b.seen = i.seen /\ b.cursor = i.cursor
  BY <1>1, SetControl
<1> HIDE DEF b
<1>3. /\ rc.epoch \in Int /\ rc.seen \in Int /\ rc.cursor \in Int /\ rc \in SessionRecord
      /\ rc.state \notin {"none", "starting"}
  BY Constants, SMT DEF RecordFits, SessionRecord
<1>4. RecordFits(b)
  BY <1>1, <1>2, <1>3, SMT DEF RecordFits
<1>5. Moves(rc, b)
  BY <1>1, <1>2, <1>3, SMT DEF RecordFits, Moves
<1> QED
  BY <1>1, <1>2, <1>4, <1>5 DEF b, i

\* handleSessionStarted of a record that has no session yet
LEMMA StartedFacts ==
    ASSUME NEW rc, RecordFits(rc), rc.state \in {"none", "starting"}, NEW v \in Vs
    PROVE  LET b == Started(rc, v) IN
           /\ RecordFits(b) /\ Moves(rc, b) /\ b.state = "running" /\ b.known = TRUE
           /\ b.session = v /\ b.seen = 0 /\ b.epoch = 0
<1> DEFINE i1 == [rc EXCEPT !.known = TRUE]
           i2 == [i1 EXCEPT !.session = v]
           i3 == [i2 EXCEPT !.state = "running"]
           b == [i3 EXCEPT !.cursor = rc.cursor + 1]
<1>1. /\ rc \in SessionRecord /\ rc.session = None /\ rc.epoch = 0 /\ rc.seen = 0
      /\ v # None /\ rc.cursor + 1 \in Nat /\ "running" \in States /\ rc.cursor \in Int
      /\ rc.state = "starting" => rc.known
  BY Constants, SMT DEF RecordFits, States, SessionRecord
<1>2. Started(rc, v) = b
  <2>1. Started(rc, v) = [rc EXCEPT !.known = TRUE, !.session = v, !.state = "running",
                                    !.cursor = rc.cursor + 1]
    BY <1>1, Zenon DEF Started
  <2> QED
    BY <1>1, <2>1, SMT DEF SessionRecord
<1>3. /\ i1 \in SessionRecord /\ i1.known = TRUE /\ i1.target = rc.target
      /\ i1.epoch = rc.epoch /\ i1.seen = rc.seen
  BY <1>1, SetKnown
<1> HIDE DEF i1
<1>4. /\ i2 \in SessionRecord /\ i2.known = i1.known /\ i2.target = i1.target
      /\ i2.session = v /\ i2.epoch = i1.epoch /\ i2.seen = i1.seen
  BY <1>3, SetSession
<1> HIDE DEF i2
<1>5. /\ i3 \in SessionRecord /\ i3.known = i2.known /\ i3.target = i2.target
      /\ i3.session = i2.session /\ i3.epoch = i2.epoch /\ i3.seen = i2.seen
      /\ i3.state = "running"
  BY <1>1, <1>4, SetState
<1> HIDE DEF i3
<1>6. /\ b \in SessionRecord /\ b.known = i3.known /\ b.target = i3.target
      /\ b.session = i3.session /\ b.epoch = i3.epoch /\ b.seen = i3.seen
      /\ b.state = i3.state /\ b.cursor = rc.cursor + 1
  BY <1>1, <1>5, SetCursor
<1> HIDE DEF b
<1>7. RecordFits(b)
  BY <1>1, <1>3, <1>4, <1>5, <1>6, SMT DEF RecordFits
<1>8. Moves(rc, b)
  BY <1>1, <1>3, <1>4, <1>5, <1>6, SMT DEF Moves
<1> QED
  BY <1>1, <1>2, <1>3, <1>4, <1>5, <1>6, <1>7, <1>8

\* ... and of one that has this session: nothing happens.
LEMMA StartedAgain ==
    ASSUME NEW rc, RecordFits(rc), NEW v \in Vs, rc.session = v
    PROVE  Started(rc, v) = rc
<1>1. /\ rc \in SessionRecord /\ rc.known = TRUE /\ rc.state \notin {"none", "starting"}
  BY Constants, SMT DEF RecordFits, SessionRecord
<1>2. Started(rc, v) = [rc EXCEPT !.known = rc.known, !.session = rc.session,
                                  !.state = rc.state, !.cursor = rc.cursor]
  BY <1>1, Zenon DEF Started
<1> QED
  BY <1>1, <1>2, SetAllAgain, Zenon

-----------------------------------------------------------------------------
(* The parts of the invariant when a call moves *)

\* A call that waits for no answer gets none.
LEMMA NoReplies ==
    ASSUME NEW R, NEW A, NEW L, RepliesFit(R, A, L), NEW c \in Caller,
           L[c].pc \notin {"served", "executed"}
    PROVE  \A v \in Vs : \A i \in 1..Len(A[v].queue) :
              A[v].queue[i].kind = "reply" => A[v].queue[i].call # c
BY DEF RepliesFit

LEMMA LaunchesStay ==
    ASSUME NEW R, NEW C, NEW L, LaunchesFit(R, C, L), NEW L2,
           \A d \in Caller : L2[d] = L[d] \/ L2[d].pc # "launch"
    PROVE  LaunchesFit(R, C, L2)
<1> SUFFICES ASSUME NEW c \in Caller, L2[c].pc = "launch"
             PROVE  /\ L2[c].ref \in Ref /\ R[L2[c].ref].known /\ R[L2[c].ref].state # "none"
                    /\ \A d \in Caller : L2[d].pc = "launch" /\ L2[d].ref = L2[c].ref => c = d
                    /\ \A v \in Vs : R[L2[c].ref].session = v => C[v] = L2[c].ref
                    /\ (\A v \in Vs : C[v] # L2[c].ref) => R[L2[c].ref].state = "starting"
  BY DEF LaunchesFit
<1>1. L2[c] = L[c] /\ \A d \in Caller : L2[d].pc = "launch" => L2[d] = L[d]
  OBVIOUS
<1> QED
  BY <1>1 DEF LaunchesFit

\* More calls were made: what fitted a call still does.
LEMMA CallStays ==
    ASSUME NEW R, NEW n \in Nat, NEW m \in Nat, n <= m, NEW cl, CallFits(cl, R, n)
    PROVE  CallFits(cl, R, m)
<1>1. cl.pc = "resolving" => cl.mark \in 1..m
  BY SMT DEF CallFits
<1> QED
  BY <1>1 DEF CallFits

LEMMA CallsMove ==
    ASSUME NEW R, NEW A, NEW C, NEW L, NEW n \in Nat, Fits(R, A, C, L, n),
           NEW L2 \in [Caller -> Call], NEW m \in Nat, n <= m, LaunchesFit(R, C, L2),
           \A d \in Caller :
              \/ L2[d] = L[d]
              \/ /\ CallFits(L2[d], R, m) /\ ResumeFits(L2[d], R, A)
                 /\ \A v \in Vs : \A i \in 1..Len(A[v].queue) :
                       A[v].queue[i].kind = "reply" => A[v].queue[i].call # d
    PROVE  Fits(R, A, C, L2, m)
<1>1. Typed(R, A, C, L2)
  BY DEF Fits, Core, Typed
<1>2. CallsFit(R, A, L2, m)
  <2> SUFFICES ASSUME NEW c \in Caller PROVE CallFits(L2[c], R, m) /\ ResumeFits(L2[c], R, A)
    BY DEF CallsFit
  <2>1. CallFits(L[c], R, n) /\ ResumeFits(L[c], R, A)
    BY DEF Fits, Core, CallsFit
  <2>2. CallFits(L[c], R, m)
    BY <2>1, CallStays, SMTT(30)
  <2> QED
    BY <2>1, <2>2
<1>3. RepliesFit(R, A, L2)
  <2>1. RepliesFit(R, A, L)
    BY SMTT(30) DEF Fits, Core
  <2>2. ASSUME NEW v \in Vs, NEW i \in 1..Len(A[v].queue), A[v].queue[i].kind = "reply"
        PROVE  LET x == A[v].queue[i] IN
               /\ x.call \in Caller /\ L2[x.call].pc \in {"served", "executed"}
               /\ R[L2[x.call].ref].session \in {None, v}
               /\ L2[x.call].pc = "executed" => L2[x.call].data = x.no
    <3>1. A[v].queue[i].call \in Caller
      BY <2>1, <2>2 DEF RepliesFit
    <3>2. L2[A[v].queue[i].call] = L[A[v].queue[i].call]
      BY <2>2, <3>1
    <3> QED
      BY <2>1, <2>2, <3>1, <3>2, Zenon DEF RepliesFit
  <2> QED
    BY <2>1, <2>2, Zenon DEF RepliesFit
<1> QED
  BY <1>1, <1>2, <1>3 DEF Fits, Core

-----------------------------------------------------------------------------
(* The parts of the invariant when a record moves *)

\* What a call holds of a record outlives every move of it.
LEMMA CallOutlives ==
    ASSUME NEW R \in [Ref -> SessionRecord], NEW S \in [Ref -> SessionRecord],
           \A q \in Ref : Moves(R[q], S[q]),
           NEW n, NEW cl \in Call, CallFits(cl, R, n)
    PROVE  CallFits(cl, S, n)
<1>1. CASE cl.op \in {"inspect", "resume", "pause", "disconnect"}
  <2> DEFINE a == R[cl.ref]
             b == S[cl.ref]
  <2>1. /\ cl.ref \in Ref /\ a.state \notin {"none", "starting"} /\ Moves(a, b)
        /\ a \in SessionRecord /\ b \in SessionRecord
        /\ cl.op \in {"inspect", "resume"} =>
              cl.mark <= a.epoch /\ (cl.mark = a.epoch => cl.named = a.seen)
        /\ cl.op = "inspect" /\ cl.pc = "answered" /\ IsCurrent(a, cl.mark) =>
              cl.data <= cl.named
    BY <1>1 DEF CallFits
  <2> HIDE DEF a, b
  <2>2. a.epoch \in Int /\ b.epoch \in Int /\ cl.mark \in Int
    BY <2>1, Constants, SMT DEF SessionRecord, Call
  <2>3. b.state \notin {"none", "starting"}
    BY <2>1 DEF Moves
  <2>4. cl.op \in {"inspect", "resume"} =>
           cl.mark <= b.epoch /\ (cl.mark = b.epoch => cl.named = b.seen)
    BY <2>1, <2>2, SMT DEF Moves
  <2>5. cl.op = "inspect" /\ cl.pc = "answered" /\ IsCurrent(b, cl.mark) =>
           cl.data <= cl.named
    BY <2>1, <2>2, SMT DEF Moves, IsCurrent
  <2> QED
    BY <2>1, <2>3, <2>4, <2>5 DEF CallFits, b
<1>2. CASE cl.op \notin {"inspect", "resume", "pause", "disconnect"}
  BY <1>2 DEF CallFits
<1> QED
  BY <1>1, <1>2

\* ... and so does what is known of the adapter a resume request has run.
LEMMA ResumeOutlives ==
    ASSUME NEW R \in [Ref -> SessionRecord], NEW S \in [Ref -> SessionRecord],
           \A q \in Ref : Moves(R[q], S[q]),
           NEW A, NEW n, NEW cl \in Call, CallFits(cl, R, n), ResumeFits(cl, R, A)
    PROVE  ResumeFits(cl, S, A)
<1> SUFFICES ASSUME cl.op = "resume", cl.pc \in {"executed", "settled"},
                    NEW v \in Vs, S[cl.ref].session = v
             PROVE  /\ cl.data <= A[v].stops
                    /\ cl.mark = S[cl.ref].epoch => cl.named <= cl.data
                    /\ A[v].exec = "stopped" => cl.data < A[v].stops
  BY DEF ResumeFits
<1> DEFINE a == R[cl.ref]
           b == S[cl.ref]
<1>1. /\ cl.ref \in Ref /\ a.state \notin {"none", "starting"} /\ Moves(a, b)
      /\ a \in SessionRecord /\ b \in SessionRecord /\ cl.mark <= a.epoch
  BY DEF CallFits
<1>2. a.session = v
  BY <1>1, Constants DEF Moves
<1>3. /\ cl.data <= A[v].stops
      /\ cl.mark = a.epoch => cl.named <= cl.data
      /\ A[v].exec = "stopped" => cl.data < A[v].stops
  BY <1>2 DEF ResumeFits
<1> HIDE DEF a, b
<1>4. cl.mark = b.epoch => cl.mark = a.epoch
  <2>1. a.epoch \in Int /\ b.epoch \in Int /\ cl.mark \in Int
    BY <1>1, Constants, SMT DEF SessionRecord, Call
  <2> QED
    BY <1>1, <2>1, SMTT(30) DEF Moves
<1> QED
  BY <1>3, <1>4 DEF b

\* An answer on its way is still of the session its call asked.
LEMMA RepliesOutlive ==
    ASSUME NEW R \in [Ref -> SessionRecord], NEW S \in [Ref -> SessionRecord],
           \A q \in Ref : Moves(R[q], S[q]),
           NEW A, NEW L \in [Caller -> Call], NEW n, CallsFit(R, A, L, n), RepliesFit(R, A, L)
    PROVE  RepliesFit(S, A, L)
<1>1. ASSUME NEW v \in Vs, NEW i \in 1..Len(A[v].queue), A[v].queue[i].kind = "reply"
      PROVE  LET x == A[v].queue[i] IN
             /\ x.call \in Caller /\ L[x.call].pc \in {"served", "executed"}
             /\ S[L[x.call].ref].session \in {None, v}
             /\ L[x.call].pc = "executed" => L[x.call].data = x.no
  <2> DEFINE x == A[v].queue[i]
             d == L[x.call]
  <2>1. /\ x.call \in Caller /\ d.pc \in {"served", "executed"}
        /\ R[d.ref].session \in {None, v} /\ (d.pc = "executed" => d.data = x.no)
    BY <1>1 DEF RepliesFit
  <2>2. CallFits(d, R, n)
    BY <2>1, SMTT(30) DEF CallsFit
  <2>3. d.ref \in Ref /\ R[d.ref].state \notin {"none", "starting"}
    BY <2>1, <2>2, ZenonT(40) DEF CallFits
  <2>4. S[d.ref].session \in {None, R[d.ref].session}
    BY <2>3, Zenon DEF Moves
  <2> QED
    BY <2>1, <2>4, ZenonT(40)
<1> QED
  BY <1>1, ZenonT(40) DEF RepliesFit

LEMMA CallsOutlive ==
    ASSUME NEW R \in [Ref -> SessionRecord], NEW S \in [Ref -> SessionRecord],
           \A q \in Ref : Moves(R[q], S[q]),
           NEW A, NEW L \in [Caller -> Call], NEW n, CallsFit(R, A, L, n)
    PROVE  CallsFit(S, A, L, n)
<1> SUFFICES ASSUME NEW c \in Caller PROVE CallFits(L[c], S, n) /\ ResumeFits(L[c], S, A)
  BY DEF CallsFit
<1>1. L[c] \in Call /\ CallFits(L[c], R, n) /\ ResumeFits(L[c], R, A)
  BY DEF CallsFit
<1> QED
  BY <1>1, CallOutlives, ResumeOutlives

\* One record changes, the others stay.
LEMMA OneMoves ==
    ASSUME NEW R \in [Ref -> SessionRecord], NEW r \in Ref, NEW b \in SessionRecord,
           Moves(R[r], b)
    PROVE  LET S == [R EXCEPT ![r] = b] IN
           /\ S \in [Ref -> SessionRecord] /\ S[r] = b
           /\ \A q \in Ref : q # r => S[q] = R[q]
           /\ \A q \in Ref : Moves(R[q], S[q])
<1> DEFINE S == [R EXCEPT ![r] = b]
<1>1. S \in [Ref -> SessionRecord] /\ S[r] = b /\ \A q \in Ref : q # r => S[q] = R[q]
  OBVIOUS
<1> HIDE DEF S
<1>2. ASSUME NEW q \in Ref PROVE Moves(R[q], S[q])
  <2>1. CASE q = r
    BY <1>1, <2>1
  <2>2. CASE q # r
    <3>1. S[q] = R[q] /\ R[q] \in SessionRecord
      BY <1>1, <2>2
    <3> QED
      BY <3>1, MovesStay
  <2> QED
    BY <2>1, <2>2
<1> QED
  BY <1>1, <1>2 DEF S

\* A record that keeps or loses its session: everything but what it hears
LEMMA RecordCore ==
    ASSUME NEW R, NEW A, NEW C, NEW L, NEW n \in Nat, Core(R, A, C, L, n),
           NEW r \in Ref, NEW b, RecordFits(b), Moves(R[r], b),
           b.session \in {None, R[r].session},
           b.state = "terminated" /\ b.known =>
              \A v \in Vs : R[r].session = v \/ C[v] = r => Through(A[v]),
           \/ \A c \in Caller : ~(L[c].pc = "launch" /\ L[c].ref = r)
           \/ /\ b.known
              /\ R[r].state = "starting" => b.state = "starting" \/ \E v \in Vs : C[v] = r
    PROVE  Core([R EXCEPT ![r] = b], A, C, L, n)
<1> DEFINE S == [R EXCEPT ![r] = b]
<1>1. /\ Typed(R, A, C, L) /\ RecordsFit(R) /\ SessionsFit(R, A, C) /\ EndsFit(R, A, C)
      /\ StreamsFit(A) /\ RepliesFit(R, A, L) /\ CallsFit(R, A, L, n)
      /\ LaunchesFit(R, C, L) /\ R \in [Ref -> SessionRecord] /\ L \in [Caller -> Call]
      /\ b \in SessionRecord
  BY DEF Core, Typed, RecordFits
<1>2. /\ S \in [Ref -> SessionRecord] /\ S[r] = b
      /\ \A q \in Ref : q # r => S[q] = R[q]
      /\ \A q \in Ref : Moves(R[q], S[q])
  BY <1>1, OneMoves
<1> HIDE DEF S
<1>3. Typed(S, A, C, L)
  BY <1>1, <1>2 DEF Typed
<1>4. RecordsFit(S)
  BY <1>1, <1>2 DEF RecordsFit
<1>5. \A q \in Ref : S[q].session \in {None, R[q].session}
  BY <1>2
<1>6. \A q \in Ref : R[q].state # "none" => S[q].state # "none"
  BY <1>2 DEF Moves
<1>7. SessionsFit(S, A, C)
  <2>1. \A p, q \in Ref : S[p].session # None /\ S[p].session = S[q].session => p = q
    BY <1>1, <1>5 DEF SessionsFit
  <2>2. \A v \in Vs, q \in Ref : S[q].session = v => A[v].phase # "off" /\ C[v] \in {NoRef, q}
    BY <1>1, <1>5, Constants DEF SessionsFit
  <2>3. \A v \in Vs, q \in Ref :
           C[v] = q => A[v].phase # "off" /\ S[q].state # "none" /\ S[q].session \in {None, v}
    BY <1>1, <1>5, <1>6 DEF SessionsFit
  <2> QED
    BY <1>1, <2>1, <2>2, <2>3 DEF SessionsFit
<1>8. EndsFit(S, A, C)
  <2> SUFFICES ASSUME NEW v \in Vs, NEW q \in Ref, S[q].state = "terminated", S[q].known,
                      S[q].session = v \/ C[v] = q
               PROVE  Through(A[v])
    BY DEF EndsFit
  <2>1. R[q].session = v \/ C[v] = q
    BY <1>5, Constants
  <2>2. CASE q = r
    BY <1>2, <2>1, <2>2
  <2>3. CASE q # r
    BY <1>1, <1>2, <2>1, <2>3 DEF EndsFit
  <2> QED
    BY <2>2, <2>3
<1>9. RepliesFit(S, A, L)
  BY <1>1, <1>2, RepliesOutlive
<1>10. CallsFit(S, A, L, n)
  BY <1>1, <1>2, CallsOutlive
<1>11. LaunchesFit(S, C, L)
  <2> SUFFICES ASSUME NEW c \in Caller, L[c].pc = "launch"
               PROVE  /\ L[c].ref \in Ref /\ S[L[c].ref].known /\ S[L[c].ref].state # "none"
                      /\ \A d \in Caller : L[d].pc = "launch" /\ L[d].ref = L[c].ref => c = d
                      /\ \A v \in Vs : S[L[c].ref].session = v => C[v] = L[c].ref
                      /\ (\A v \in Vs : C[v] # L[c].ref) => S[L[c].ref].state = "starting"
    BY DEF LaunchesFit
  <2> DEFINE q == L[c].ref
  <2>1. /\ q \in Ref /\ R[q].known /\ R[q].state # "none"
        /\ \A d \in Caller : L[d].pc = "launch" /\ L[d].ref = q => c = d
        /\ \A v \in Vs : R[q].session = v => C[v] = q
        /\ (\A v \in Vs : C[v] # q) => R[q].state = "starting"
    BY <1>1 DEF LaunchesFit
  <2>2. S[q].known
    BY <1>2, <2>1
  <2>3. S[q].state # "none"
    BY <1>6, <2>1
  <2>4. \A v \in Vs : S[q].session = v => C[v] = q
    BY <1>5, <2>1, Constants
  <2>5. (\A v \in Vs : C[v] # q) => S[q].state = "starting"
    BY <1>2, <2>1
  <2> QED
    BY <2>1, <2>2, <2>3, <2>4, <2>5
<1> QED
  BY <1>1, <1>3, <1>4, <1>7, <1>8, <1>9, <1>10, <1>11 DEF Core, S

\* ... and what it hears
LEMMA RecordHear ==
    ASSUME NEW R \in [Ref -> SessionRecord], NEW A, NEW C, RecordsHear(R, A, C),
           SessionsFit(R, A, C), C \in [Vs -> Ref \cup {NoRef}],
           NEW r \in Ref, NEW b \in SessionRecord, Moves(R[r], b),
           b.session \in {None, R[r].session},
           \A v \in Vs : b.session = v => Hears(b, A[v]),
           \A v \in Vs : R[r].session = v /\ b.session # v =>
              Through(A[v]) \/ (C[v] = r /\ ~b.known)
    PROVE  RecordsHear([R EXCEPT ![r] = b], A, C)
<1> DEFINE S == [R EXCEPT ![r] = b]
<1>1. /\ S \in [Ref -> SessionRecord] /\ S[r] = b
      /\ \A q \in Ref : q # r => S[q] = R[q]
      /\ \A q \in Ref : Moves(R[q], S[q])
  BY OneMoves
<1> HIDE DEF S
<1>2. \A v \in Vs, q \in Ref : S[q].session = v => Hears(S[q], A[v])
  <2> SUFFICES ASSUME NEW v \in Vs, NEW q \in Ref, S[q].session = v PROVE Hears(S[q], A[v])
    OBVIOUS
  <2>1. CASE q = r
    BY <1>1, <2>1
  <2>2. CASE q # r
    BY <1>1, <2>2 DEF RecordsHear
  <2> QED
    BY <2>1, <2>2
<1>3. ASSUME NEW v \in Vs, ~Through(A[v]), \A q \in Ref : S[q].session # v
      PROVE  \/ C[v] # NoRef /\ ~S[C[v]].known
             \/ \A k \in 1..A[v].stops : Announced(A[v], k)
  <2>1. CASE R[r].session = v
    <3>1. C[v] = r /\ ~b.known
      BY <1>1, <1>3, <2>1
    <3> QED
      BY <1>1, <3>1, Constants
  <2>2. CASE R[r].session # v
    <3>1. \A q \in Ref : R[q].session # v
      BY <1>1, <1>3, <2>2
    <3>2. \/ C[v] # NoRef /\ ~R[C[v]].known
          \/ \A k \in 1..A[v].stops : Announced(A[v], k)
      BY <1>3, <3>1 DEF RecordsHear
    <3>3. CASE C[v] # NoRef /\ ~R[C[v]].known
      <4>1. C[v] \in Ref /\ R[C[v]].state # "none"
        BY <3>3 DEF SessionsFit
      <4>2. Moves(R[C[v]], S[C[v]])
        BY <1>1, <4>1
      <4> QED
        BY <3>3, <4>1, <4>2 DEF Moves
    <3> QED
      BY <3>2, <3>3
  <2> QED
    BY <2>1, <2>2
<1> QED
  BY <1>2, <1>3 DEF RecordsHear, S

\* A record that has no session yet is bound to one that has no record.
LEMMA NewlyBound ==
    ASSUME NEW R, NEW A, NEW C, NEW L, NEW n \in Nat, Fits(R, A, C, L, n),
           NEW r \in Ref, NEW v \in Vs, R[r].state \in {"none", "starting"},
           \A q \in Ref : R[q].session # v, A[v].phase # "off",
           \/ C[v] = r /\ R[r].known
           \/ C[v] = NoRef /\ R[r].state = "none"
    PROVE  LET S == [R EXCEPT ![r] = Started(R[r], v)] IN
           /\ Fits(S, A, C, L, n) /\ \A q \in Ref : Moves(R[q], S[q])
           /\ S[r].session = v
<1> DEFINE b == Started(R[r], v)
           S == [R EXCEPT ![r] = b]
<1>1. /\ Typed(R, A, C, L) /\ RecordsFit(R) /\ SessionsFit(R, A, C) /\ EndsFit(R, A, C)
      /\ StreamsFit(A) /\ RepliesFit(R, A, L) /\ CallsFit(R, A, L, n)
      /\ LaunchesFit(R, C, L) /\ RecordsHear(R, A, C)
      /\ R \in [Ref -> SessionRecord] /\ L \in [Caller -> Call]
      /\ RecordFits(R[r])
  BY DEF Fits, Core, Typed, RecordsFit
<1>2. /\ RecordFits(b) /\ Moves(R[r], b) /\ b.state = "running" /\ b.known = TRUE
      /\ b.session = v /\ b.seen = 0 /\ b.epoch = 0
  BY <1>1, StartedFacts
<1>3. b \in SessionRecord
  BY <1>2 DEF RecordFits
<1> HIDE DEF b
<1>4. /\ S \in [Ref -> SessionRecord] /\ S[r] = b
      /\ \A q \in Ref : q # r => S[q] = R[q]
      /\ \A q \in Ref : Moves(R[q], S[q])
  BY <1>1, <1>2, <1>3, OneMoves
<1> HIDE DEF S
<1>5. R[r].session = None /\ v # None
  BY <1>1, Constants DEF RecordFits
<1>6. \A w \in Vs : C[w] = r => w = v
  BY <1>1, Constants DEF SessionsFit
<1>7. Typed(S, A, C, L) /\ RecordsFit(S)
  BY <1>1, <1>2, <1>4 DEF Typed, RecordsFit
<1>8. SessionsFit(S, A, C)
  <2>1. \A p, q \in Ref : S[p].session # None /\ S[p].session = S[q].session => p = q
    BY <1>1, <1>2, <1>4, <1>5 DEF SessionsFit
  <2>2. \A w \in Vs, q \in Ref : S[q].session = w => A[w].phase # "off" /\ C[w] \in {NoRef, q}
    BY <1>1, <1>2, <1>4 DEF SessionsFit
  <2>3. \A w \in Vs, q \in Ref :
           C[w] = q => A[w].phase # "off" /\ S[q].state # "none" /\ S[q].session \in {None, w}
    BY <1>1, <1>2, <1>4, <1>6 DEF SessionsFit
  <2> QED
    BY <1>1, <2>1, <2>2, <2>3 DEF SessionsFit
<1>9. EndsFit(S, A, C)
  BY <1>1, <1>2, <1>4 DEF EndsFit
<1>10. RepliesFit(S, A, L) /\ CallsFit(S, A, L, n)
  BY <1>1, <1>4, RepliesOutlive, CallsOutlive
<1>11. LaunchesFit(S, C, L)
  <2> SUFFICES ASSUME NEW c \in Caller, L[c].pc = "launch"
               PROVE  /\ L[c].ref \in Ref /\ S[L[c].ref].known /\ S[L[c].ref].state # "none"
                      /\ \A d \in Caller : L[d].pc = "launch" /\ L[d].ref = L[c].ref => c = d
                      /\ \A w \in Vs : S[L[c].ref].session = w => C[w] = L[c].ref
                      /\ (\A w \in Vs : C[w] # L[c].ref) => S[L[c].ref].state = "starting"
    BY DEF LaunchesFit
  <2> DEFINE q == L[c].ref
  <2>1. /\ q \in Ref /\ R[q].known /\ R[q].state # "none"
        /\ \A d \in Caller : L[d].pc = "launch" /\ L[d].ref = q => c = d
        /\ \A w \in Vs : R[q].session = w => C[w] = q
        /\ (\A w \in Vs : C[w] # q) => R[q].state = "starting"
    BY <1>1 DEF LaunchesFit
  <2>2. CASE q # r
    BY <1>4, <2>1, <2>2
  <2>3. CASE q = r
    BY <1>2, <1>4, <2>1, <2>3
  <2> QED
    BY <2>2, <2>3
<1>12. RecordsHear(S, A, C)
  <2>1. Hears(b, A[v])
    <3>1. A[v].stops \in Int /\ 0 <= A[v].stops
      <4>1. A[v] \in AdapterRecord
        BY <1>1 DEF Typed
      <4> QED
        BY <4>1, Constants, SMT DEF AdapterRecord
    <3>2. \A i \in 1..Len(A[v].queue) : A[v].queue[i].kind = "stopped" => A[v].queue[i].no > 0
      <4>1. \A i \in 1..Len(A[v].queue) :
               A[v].queue[i].kind = "stopped" => A[v].queue[i].no \in 1..A[v].stops
        BY <1>1 DEF StreamsFit, StreamFits
      <4> QED
        BY <3>1, <4>1, SMT
    <3>3. ~Through(A[v]) => \A k \in 1..A[v].stops : Announced(A[v], k)
      BY <1>1 DEF RecordsHear
    <3>4. A[v].exec = "stopped" => A[v].stops \in 1..A[v].stops
      BY <1>1, <3>1, SMT DEF StreamsFit, StreamFits
    <3> QED
      BY <1>2, <3>1, <3>2, <3>3, <3>4 DEF Hears
  <2>2. \A w \in Vs, q \in Ref : S[q].session = w => Hears(S[q], A[w])
    <3> SUFFICES ASSUME NEW w \in Vs, NEW q \in Ref, S[q].session = w PROVE Hears(S[q], A[w])
      OBVIOUS
    <3>1. CASE q = r
      BY <1>2, <1>4, <2>1, <3>1
    <3>2. CASE q # r
      BY <1>1, <1>4, <3>2 DEF RecordsHear
    <3> QED
      BY <3>1, <3>2
  <2>3. ASSUME NEW w \in Vs, ~Through(A[w]), \A q \in Ref : S[q].session # w
        PROVE  \/ C[w] # NoRef /\ ~S[C[w]].known
               \/ \A k \in 1..A[w].stops : Announced(A[w], k)
    <3>1. w # v /\ \A q \in Ref : R[q].session # w
      BY <1>2, <1>4, <1>5, <2>3, Constants
    <3>2. \/ C[w] # NoRef /\ ~R[C[w]].known
          \/ \A k \in 1..A[w].stops : Announced(A[w], k)
      BY <1>1, <2>3, <3>1 DEF RecordsHear
    <3>3. C[w] # NoRef => C[w] \in Ref /\ C[w] # r
      BY <1>1, <1>6, <3>1 DEF Typed
    <3> QED
      BY <1>4, <3>2, <3>3
  <2> QED
    BY <2>2, <2>3 DEF RecordsHear
<1> QED
  BY <1>1, <1>2, <1>4, <1>7, <1>8, <1>9, <1>10, <1>11, <1>12 DEF Fits, Core, S, b

\* startSession makes the record of a session that VS Code has still to create.
LEMMA NewlyStarting ==
    ASSUME NEW R, NEW A, NEW C, NEW L, NEW n \in Nat, Fits(R, A, C, L, n),
           NEW r \in Ref, R[r].state = "none",
           NEW b, RecordFits(b), b.state = "starting", b.known
    PROVE  LET S == [R EXCEPT ![r] = b] IN
           Fits(S, A, C, L, n) /\ \A c \in Caller : L[c].pc = "launch" => L[c].ref # r
<1> DEFINE S == [R EXCEPT ![r] = b]
<1>1. /\ Typed(R, A, C, L) /\ RecordsFit(R) /\ SessionsFit(R, A, C) /\ EndsFit(R, A, C)
      /\ StreamsFit(A) /\ RepliesFit(R, A, L) /\ CallsFit(R, A, L, n)
      /\ LaunchesFit(R, C, L) /\ RecordsHear(R, A, C)
      /\ R \in [Ref -> SessionRecord] /\ L \in [Caller -> Call]
      /\ RecordFits(R[r]) /\ b \in SessionRecord
  BY DEF Fits, Core, Typed, RecordsFit, RecordFits
<1>2. b.epoch = 0 /\ b.seen = 0 /\ b.session = None /\ R[r].session = None
  BY <1>1 DEF RecordFits
<1>3. S \in [Ref -> SessionRecord] /\ S[r] = b /\ \A q \in Ref : q # r => S[q] = R[q]
  BY <1>1
<1> HIDE DEF S
<1>4. \A w \in Vs : C[w] # r
  BY <1>1 DEF SessionsFit
<1>5. \A c \in Caller : L[c].pc = "launch" => L[c].ref # r
  BY <1>1 DEF LaunchesFit
<1>6. Typed(S, A, C, L) /\ RecordsFit(S)
  BY <1>1, <1>3 DEF Typed, RecordsFit
<1>7. \A q \in Ref : S[q].session = R[q].session
  BY <1>2, <1>3
<1>8. SessionsFit(S, A, C)
  <2>1. \A v \in Vs, q \in Ref :
           C[v] = q => A[v].phase # "off" /\ S[q].state # "none" /\ S[q].session \in {None, v}
    BY <1>1, <1>3, <1>4 DEF SessionsFit
  <2> QED
    BY <1>1, <1>7, <2>1 DEF SessionsFit
<1>9. EndsFit(S, A, C)
  BY <1>1, <1>3 DEF EndsFit
<1>10. \A c \in Caller : L[c].op \in {"inspect", "resume", "pause", "disconnect"} =>
          L[c].ref \in Ref /\ S[L[c].ref] = R[L[c].ref]
  BY <1>1, <1>3 DEF CallsFit, CallFits
<1>11. CallsFit(S, A, L, n)
  <2> SUFFICES ASSUME NEW c \in Caller PROVE CallFits(L[c], S, n) /\ ResumeFits(L[c], S, A)
    BY DEF CallsFit
  <2>1. CallFits(L[c], R, n) /\ ResumeFits(L[c], R, A)
    BY <1>1, SMTT(30) DEF CallsFit
  <2> QED
    BY <1>10, <2>1 DEF CallFits, ResumeFits
<1>12. RepliesFit(S, A, L)
  <2>1. ASSUME NEW v \in Vs, NEW i \in 1..Len(A[v].queue), A[v].queue[i].kind = "reply"
        PROVE  LET x == A[v].queue[i] IN
               /\ x.call \in Caller /\ L[x.call].pc \in {"served", "executed"}
               /\ S[L[x.call].ref].session \in {None, v}
               /\ L[x.call].pc = "executed" => L[x.call].data = x.no
    <3> DEFINE d == L[A[v].queue[i].call]
    <3>1. /\ A[v].queue[i].call \in Caller /\ d.pc \in {"served", "executed"}
          /\ R[d.ref].session \in {None, v} /\ (d.pc = "executed" => d.data = A[v].queue[i].no)
      BY <1>1, <2>1, ZenonT(40) DEF RepliesFit
    <3>2. d.op \in {"inspect", "resume", "pause"}
      BY <1>1, <3>1 DEF CallsFit, CallFits
    <3> QED
      BY <1>10, <3>1, <3>2, SMTT(30)
  <2> QED
    BY <1>1, <2>1, ZenonT(40) DEF RepliesFit
<1>13. LaunchesFit(S, C, L)
  BY <1>1, <1>3, <1>5 DEF LaunchesFit
<1>14. RecordsHear(S, A, C)
  <2>1. \A v \in Vs, q \in Ref : S[q].session = v => Hears(S[q], A[v])
    BY <1>1, <1>2, <1>3, Constants DEF RecordsHear
  <2>2. \A v \in Vs : C[v] # NoRef => S[C[v]] = R[C[v]]
    BY <1>1, <1>3, <1>4 DEF Typed
  <2> QED
    BY <1>1, <1>7, <2>1, <2>2 DEF RecordsHear
<1> QED
  BY <1>1, <1>5, <1>6, <1>8, <1>9, <1>11, <1>12, <1>13, <1>14 DEF Fits, Core, S

\* A record that keeps or loses its session
LEMMA RecordMoves ==
    ASSUME NEW R, NEW A, NEW C, NEW L, NEW n \in Nat, Fits(R, A, C, L, n),
           NEW r \in Ref, NEW b, RecordFits(b), Moves(R[r], b),
           b.session \in {None, R[r].session},
           b.state = "terminated" /\ b.known =>
              \A v \in Vs : R[r].session = v \/ C[v] = r => Through(A[v]),
           \/ \A c \in Caller : ~(L[c].pc = "launch" /\ L[c].ref = r)
           \/ /\ b.known
              /\ R[r].state = "starting" => b.state = "starting" \/ \E v \in Vs : C[v] = r,
           \A v \in Vs : b.session = v => Hears(b, A[v]),
           \A v \in Vs : R[r].session = v /\ b.session # v =>
              Through(A[v]) \/ (C[v] = r /\ ~b.known)
    PROVE  LET S == [R EXCEPT ![r] = b] IN
           Fits(S, A, C, L, n) /\ \A q \in Ref : Moves(R[q], S[q])
<1>1. /\ Core(R, A, C, L, n) /\ RecordsHear(R, A, C) /\ SessionsFit(R, A, C)
      /\ R \in [Ref -> SessionRecord] /\ C \in [Vs -> Ref \cup {NoRef}]
      /\ b \in SessionRecord
  BY DEF Fits, Core, Typed, RecordFits
<1>2. Core([R EXCEPT ![r] = b], A, C, L, n)
  BY <1>1, RecordCore
<1>3. RecordsHear([R EXCEPT ![r] = b], A, C)
  BY <1>1, RecordHear
<1>4. \A q \in Ref : Moves(R[q], [R EXCEPT ![r] = b][q])
  BY <1>1, OneMoves
<1> QED
  BY <1>2, <1>3, <1>4 DEF Fits

LEMMA BoundFacts ==
    ASSUME NEW R, NEW v \in Vs
    PROVE  /\ Bound(R, v) = NoRef => \A q \in Ref : R[q].session # v
           /\ Bound(R, v) # NoRef => Bound(R, v) \in Ref /\ R[Bound(R, v)].session = v
           /\ (\E q \in Ref : R[q].session = v) => Bound(R, v) # NoRef
<1>1. CASE \E q \in Ref : R[q].session = v
  <2>1. Bound(R, v) = CHOOSE q \in Ref : R[q].session = v
    BY <1>1 DEF Bound
  <2>2. Bound(R, v) \in Ref /\ R[Bound(R, v)].session = v
    BY <1>1, <2>1
  <2> QED
    BY <2>2, Constants
<1>2. CASE ~\E q \in Ref : R[q].session = v
  BY <1>2 DEF Bound
<1> QED
  BY <1>1, <1>2

LEMMA FreshFacts ==
    ASSUME NEW R, \E r \in Ref : R[r].state = "none"
    PROVE  Fresh(R) \in Ref /\ R[Fresh(R)].state = "none"
BY DEF Fresh

\* handleSessionStarted: afterwards the session has a record, unless it is over or its
\* reference was retired.
LEMMA BindFits ==
    ASSUME NEW R, NEW A, NEW L, NEW n \in Nat, Fits(R, A, Cfg, L, n),
           NEW v \in Vs, A[v].phase # "off",
           vs[v].cfg = NoRef /\ Bound(R, v) = NoRef => \E r \in Ref : R[r].state = "none"
    PROVE  LET S == Bind(R, v) IN
           /\ Fits(S, A, Cfg, L, n) /\ \A q \in Ref : Moves(R[q], S[q])
           /\ (\A q \in Ref : S[q].session # v) =>
                 Through(A[v]) \/ (vs[v].cfg # NoRef /\ ~S[vs[v].cfg].known)
           /\ \A q \in Ref : R[q].state \notin {"none", "starting"} => S[q] = R[q]
<1> DEFINE S == Bind(R, v)
           p == vs[v].cfg
<1>1. /\ R \in [Ref -> SessionRecord] /\ p \in Ref \cup {NoRef} /\ Cfg[v] = p
      /\ SessionsFit(R, A, Cfg) /\ EndsFit(R, A, Cfg) /\ \A q \in Ref : RecordFits(R[q])
  BY DEF Fits, Core, Typed, RecordsFit, Cfg
<1>2. ASSUME S = R
      PROVE  Fits(S, A, Cfg, L, n) /\ \A q \in Ref : Moves(R[q], S[q])
  <2>1. \A q \in Ref : R[q] \in SessionRecord
    BY <1>1
  <2> QED
    BY <1>2, <2>1, MovesStay
<1>3. ASSUME NEW r \in Ref, R[r].state \in {"none", "starting"},
             S = [R EXCEPT ![r] = Started(R[r], v)],
             \A q \in Ref : R[q].session # v,
             \/ Cfg[v] = r /\ R[r].known
             \/ Cfg[v] = NoRef /\ R[r].state = "none"
      PROVE  /\ Fits(S, A, Cfg, L, n) /\ \A q \in Ref : Moves(R[q], S[q])
             /\ S[r].session = v
             /\ \A q \in Ref : R[q].state \notin {"none", "starting"} => S[q] = R[q]
  <2> HIDE DEF S
  <2>3. LET T == [R EXCEPT ![r] = Started(R[r], v)] IN
        /\ Fits(T, A, Cfg, L, n) /\ \A q \in Ref : Moves(R[q], T[q])
        /\ T[r].session = v
    <3>1. /\ Fits(R, A, Cfg, L, n) /\ r \in Ref /\ v \in Vs /\ n \in Nat
          /\ A[v].phase # "off" /\ R[r].state \in {"none", "starting"}
          /\ \A q \in Ref : R[q].session # v
          /\ \/ Cfg[v] = r /\ R[r].known
             \/ Cfg[v] = NoRef /\ R[r].state = "none"
      BY <1>3
    <3> QED
      BY ONLY <3>1, NewlyBound
  <2>1. /\ Fits(S, A, Cfg, L, n) /\ \A q \in Ref : Moves(R[q], S[q])
        /\ S[r].session = v
    BY <1>3, <2>3
  <2>2. \A q \in Ref : q # r => S[q] = R[q]
    BY <1>1, <1>3
  <2> QED
    BY <1>3, <2>1, <2>2
<1>4. ASSUME NEW r \in Ref, R[r].session = v,
             S = R \/ S = [R EXCEPT ![r] = Started(R[r], v)]
      PROVE  S = R
  <2>1. Started(R[r], v) = R[r]
    BY <1>1, <1>4, StartedAgain
  <2>2. [R EXCEPT ![r] = R[r]] = R
    BY <1>1
  <2> QED
    BY <1>4, <2>1, <2>2
<1>5. CASE p # NoRef /\ ~R[p].known
  <2>1. S = R
    BY <1>5 DEF Bind, StartedRecord
  <2> QED
    BY <1>2, <1>5, <2>1
<1>6. CASE p # NoRef /\ R[p].known
  <2>1. /\ p \in Ref /\ StartedRecord(R, v) = p
        /\ R[p].state # "none" /\ R[p].session \in {None, v}
    BY <1>1, <1>6 DEF StartedRecord, SessionsFit
  <2>2. CASE R[p].state = "terminated"
    <3>1. S = R
      BY <2>1, <2>2 DEF Bind
    <3>2. Through(A[v])
      BY <1>1, <1>6, <2>1, <2>2 DEF EndsFit
    <3> QED
      BY <1>2, <3>1, <3>2
  <2>3. CASE R[p].state # "terminated"
    <3>1. S = [R EXCEPT ![p] = Started(R[p], v)]
      BY <2>1, <2>3, Constants DEF Bind
    <3>2. CASE R[p].session = v
      <4>1. S = R
        BY <1>4, <2>1, <3>1, <3>2
      <4> QED
        BY <1>2, <2>1, <3>2, <4>1
    <3>3. CASE R[p].session # v
      <4>1. R[p].session = None /\ R[p].state = "starting"
        BY <1>1, <2>1, <2>3, <3>3 DEF RecordFits
      <4>2. \A q \in Ref : R[q].session # v
        BY <1>1, <1>6, <3>3 DEF SessionsFit
      <4> QED
        BY <1>1, <1>3, <1>6, <2>1, <3>1, <4>1, <4>2
    <3> QED
      BY <3>2, <3>3
  <2> QED
    BY <2>2, <2>3
<1>7. CASE p = NoRef /\ Bound(R, v) # NoRef
  <2> DEFINE q == Bound(R, v)
  <2>1. q \in Ref /\ R[q].session = v /\ StartedRecord(R, v) = q
    BY <1>7, BoundFacts DEF StartedRecord
  <2>2. S = R \/ S = [R EXCEPT ![q] = Started(R[q], v)]
    BY <2>1 DEF Bind
  <2>3. S = R
    BY <1>4, <2>1, <2>2
  <2> QED
    BY <1>2, <2>1, <2>3
<1>8. CASE p = NoRef /\ Bound(R, v) = NoRef
  <2> DEFINE r == Fresh(R)
  <2>1. /\ r \in Ref /\ R[r].state = "none" /\ StartedRecord(R, v) = r
        /\ \A q \in Ref : R[q].session # v
    BY <1>8, FreshFacts, BoundFacts DEF StartedRecord
  <2> HIDE DEF r
  <2>2. S = [R EXCEPT ![r] = Started(R[r], v)]
    BY <2>1, Constants DEF Bind
  <2> QED
    BY <1>1, <1>3, <1>8, <2>1, <2>2
<1> QED
  BY <1>1, <1>5, <1>6, <1>7, <1>8

\* handleSessionTerminated of a session of which nothing more is heard
LEMMA UnbindFits ==
    ASSUME NEW R, NEW A, NEW L, NEW n \in Nat, Fits(R, A, Cfg, L, n),
           NEW v \in Vs, Through(A[v])
    PROVE  LET S == Unbind(R, v) IN
           Fits(S, A, Cfg, L, n) /\ \A q \in Ref : Moves(R[q], S[q])
<1> DEFINE S == Unbind(R, v)
           p == vs[v].cfg
           r == IF Bound(R, v) # NoRef THEN Bound(R, v)
                ELSE IF p # NoRef /\ R[p].known THEN p ELSE NoRef
<1>1. /\ R \in [Ref -> SessionRecord] /\ p \in Ref \cup {NoRef}
      /\ SessionsFit(R, A, Cfg) /\ \A q \in Ref : RecordFits(R[q])
      /\ \A w \in Vs : Cfg[w] = vs[w].cfg
  BY DEF Fits, Core, Typed, RecordsFit, Cfg
<1>2. S = IF r = NoRef THEN R ELSE [R EXCEPT ![r] = Ended(R[r])]
  BY DEF Unbind
<1>3. r # NoRef => r \in Ref /\ (R[r].session = v \/ (Cfg[v] = r /\ R[r].known))
  BY <1>1, BoundFacts
<1> HIDE DEF S, r
<1>4. CASE r = NoRef
  <2>1. \A q \in Ref : R[q] \in SessionRecord
    BY <1>1
  <2> QED
    BY <1>2, <1>4, <2>1, MovesStay DEF S
<1>5. CASE r # NoRef
  <2> DEFINE b == Ended(R[r])
  <2>1. /\ r \in Ref /\ RecordFits(R[r]) /\ R[r].known /\ R[r].state # "none"
        /\ R[r].session \in {None, v}
    BY <1>1, <1>3, <1>5, Constants, ZenonT(40) DEF SessionsFit, RecordFits
  <2>2. /\ RecordFits(b) /\ Moves(R[r], b) /\ b.state = "terminated"
        /\ b.session = None /\ b.known = R[r].known
    BY <2>1, EndedFacts
  <2> HIDE DEF b
  <2>3. \A w \in Vs : R[r].session = w \/ Cfg[w] = r => w = v
    BY <1>1, <1>3, <2>1, Constants DEF SessionsFit
  <2>4. R[r].state = "starting" => \E w \in Vs : Cfg[w] = r
    BY <1>3, <1>5, <2>1, Constants DEF RecordFits
  <2>5. \A w \in Vs : b.session # w
    BY <2>2, Constants
  <2>6. LET T == [R EXCEPT ![r] = b] IN
        Fits(T, A, Cfg, L, n) /\ \A q \in Ref : Moves(R[q], T[q])
    BY <2>1, <2>2, <2>3, <2>4, <2>5, RecordMoves, ZenonT(40)
  <2> QED
    BY <1>2, <1>5, <2>6 DEF S, b
<1> QED
  BY <1>4, <1>5

\* discardRejectedSession, when the call that started it has its refusal
LEMMA DiscardFits ==
    ASSUME NEW R, NEW A, NEW C, NEW L, NEW n \in Nat, Fits(R, A, C, L, n),
           NEW r \in Ref, R[r].known, R[r].state # "none",
           \A c \in Caller : ~(L[c].pc = "launch" /\ L[c].ref = r),
           \A v \in Vs : R[r].session = v => C[v] = r
    PROVE  LET S == Discard(R, r) IN
           Fits(S, A, C, L, n) /\ \A q \in Ref : Moves(R[q], S[q])
<1> DEFINE b == [Invalidate(R[r], "terminated") EXCEPT !.known = FALSE, !.session = None]
<1>1. RecordFits(R[r])
  BY DEF Fits, Core, RecordsFit
<1>2. /\ RecordFits(b) /\ Moves(R[r], b) /\ b.session = None /\ b.known = FALSE
  BY <1>1, DiscardedFacts, Zenon
<1>3. Discard(R, r) = [R EXCEPT ![r] = b]
  BY DEF Discard
<1> HIDE DEF b
<1>4. \A w \in Vs : b.session # w
  BY <1>2, Constants
<1>5. LET T == [R EXCEPT ![r] = b] IN
      Fits(T, A, C, L, n) /\ \A q \in Ref : Moves(R[q], T[q])
  BY <1>2, <1>4, RecordMoves
<1> QED
  BY <1>3, <1>5

-----------------------------------------------------------------------------
(* The parts of the invariant when an adapter moves *)

\* The queue after one more message
LEMMA AppendFacts ==
    ASSUME NEW q \in Seq(Message), NEW m \in Message
    PROVE  /\ Append(q, m) \in Seq(Message) /\ Len(Append(q, m)) = Len(q) + 1
           /\ Len(q) \in Nat /\ Append(q, m)[Len(q) + 1] = m
           /\ \A i \in 1..Len(q) : Append(q, m)[i] = q[i]
BY SMT

LEMMA TailFacts ==
    ASSUME NEW q \in Seq(Message), q # <<>>
    PROVE  /\ Tail(q) \in Seq(Message) /\ Len(Tail(q)) = Len(q) - 1
           /\ Len(q) \in Nat /\ Len(q) >= 1 /\ Head(q) = q[1] /\ Head(q) \in Message
           /\ \A i \in 1..Len(Tail(q)) : Tail(q)[i] = q[i + 1]
BY SMT

\* An adapter that says m: what it may say, and what it is afterwards
Says(a, b, m) ==
    /\ b \in AdapterRecord /\ m \in Message
    /\ b.queue = Append(a.queue, m) /\ b.phase # "off" /\ b.stops <= b.sent
    /\ a.phase = "ended" => b.phase = "ended" /\ m.kind \in Closing
    /\ b.phase = "ended" => m.kind \in Last
    /\ b.phase # "ended" => m.kind \notin Last
    /\ m.kind = "continued" => b.exec = "running"
    /\ m.kind = "reply" => m.no = a.stops
    /\ \/ m.kind = "stopped" /\ b.stops = a.stops + 1 /\ m.no = a.stops + 1
       \/ m.kind # "stopped" /\ b.stops = a.stops /\ b.exec \in {a.exec, "running"}

LEMMA SaysFits ==
    ASSUME NEW a \in AdapterRecord, StreamFits(a), NEW b, NEW m, Says(a, b, m)
    PROVE  /\ StreamFits(b) /\ (Through(a) => Through(b))
           /\ \A rc \in SessionRecord : Hears(rc, a) => Hears(rc, b)
           /\ (\A k \in 1..a.stops : Announced(a, k)) => \A k \in 1..b.stops : Announced(b, k)
<1>1. /\ b \in AdapterRecord /\ m \in Message /\ b.queue = Append(a.queue, m)
      /\ a.queue \in Seq(Message)
  BY SMT DEF Says, AdapterRecord
<1> DEFINE n == Len(a.queue)
<1>2. /\ n \in Nat /\ Len(b.queue) = n + 1 /\ b.queue[n + 1] = m
      /\ \A i \in 1..n : b.queue[i] = a.queue[i]
  BY <1>1, AppendFacts
<1> HIDE DEF n
<1>3. a.stops \in Nat /\ b.stops \in Nat /\ a.stops <= b.stops /\ m.no \in Int
      /\ a.stops \in Int /\ b.stops \in Int
  BY <1>1, Constants, SMT DEF Says, AdapterRecord, Message
<1>4. \A i \in 1..Len(b.queue) : i \in 1..n \/ i = n + 1
  BY <1>2, SMT
<1>5. \A k : Announced(a, k) => Announced(b, k)
  <2> SUFFICES ASSUME NEW k, Announced(a, k) PROVE Announced(b, k)
    OBVIOUS
  <2>1. PICK i \in 1..n : a.queue[i].kind = "stopped" /\ a.queue[i].no = k
    BY DEF Announced, n
  <2>2. i \in 1..Len(b.queue) /\ b.queue[i] = a.queue[i]
    BY <1>2, <2>1, SMT
  <2> QED
    BY <2>1, <2>2 DEF Announced
<1>6. m.kind = "stopped" => Announced(b, b.stops) /\ b.stops = a.stops + 1
  <2>1. n + 1 \in 1..Len(b.queue)
    BY <1>2, SMT
  <2> QED
    BY <1>2, <2>1 DEF Announced, Says
<1>7. StreamFits(b)
  <2>1. ASSUME NEW i \in 1..Len(b.queue)
        PROVE  /\ b.queue[i].kind = "stopped" => b.queue[i].no \in 1..b.stops
               /\ b.queue[i].kind = "reply" => b.queue[i].no <= b.stops
               /\ b.phase # "ended" => b.queue[i].kind \notin Last
               /\ b.queue[i].kind = "continued" /\ b.exec = "stopped" =>
                     \E j \in 1..Len(b.queue) :
                        j > i /\ b.queue[j].kind = "stopped" /\ b.queue[j].no = b.stops
    <3>1. CASE i = n + 1
      BY <1>2, <1>3, <3>1, SMT DEF Says
    <3>2. CASE i \in 1..n
      <4>1. /\ a.queue[i].kind = "stopped" => a.queue[i].no \in 1..a.stops
            /\ a.queue[i].kind = "reply" => a.queue[i].no <= a.stops
            /\ a.phase # "ended" => a.queue[i].kind \notin Last
            /\ a.queue[i].kind = "continued" /\ a.exec = "stopped" =>
                  \E j \in 1..n :
                     j > i /\ a.queue[j].kind = "stopped" /\ a.queue[j].no = a.stops
        BY <3>2 DEF StreamFits, n
      <4>2. b.queue[i] = a.queue[i] /\ a.queue[i] \in Message
        BY <1>1, <1>2, <3>2 DEF n
      <4>3. a.queue[i].no \in Int
        BY <4>2, SMT DEF Message
      <4>4. b.phase # "ended" => a.phase # "ended"
        BY DEF Says
      <4>5. ASSUME a.queue[i].kind = "continued", b.exec = "stopped"
            PROVE  \E j \in 1..Len(b.queue) :
                      j > i /\ b.queue[j].kind = "stopped" /\ b.queue[j].no = b.stops
        <5>1. CASE m.kind = "stopped"
          <6>1. n + 1 \in 1..Len(b.queue) /\ n + 1 > i
            BY <1>2, <3>2, SMT
          <6> QED
            BY <1>2, <5>1, <6>1 DEF Says
        <5>2. CASE m.kind # "stopped"
          <6>1. a.exec = "stopped" /\ b.stops = a.stops
            BY <4>5, <5>2 DEF Says
          <6>2. PICK j \in 1..n : j > i /\ a.queue[j].kind = "stopped" /\ a.queue[j].no = a.stops
            BY <4>1, <4>5, <6>1
          <6>3. j \in 1..Len(b.queue) /\ b.queue[j] = a.queue[j]
            BY <1>2, <6>2, SMT
          <6> QED
            BY <6>1, <6>2, <6>3
        <5> QED
          BY <5>1, <5>2
      <4> QED
        BY <1>3, <4>1, <4>2, <4>3, <4>4, <4>5, SMT
    <3> QED
      BY <1>4, <3>1, <3>2
  <2>2. ASSUME NEW i \in 1..Len(b.queue), NEW j \in 1..Len(b.queue), i < j
        PROVE  /\ b.queue[i].kind \in {"stopped", "reply"} /\ b.queue[j].kind = "stopped"
                  => b.queue[i].no < b.queue[j].no
               /\ b.queue[i].kind \in Last => b.queue[j].kind \in Closing
    <3>1. i \in 1..n
      BY <1>2, <1>4, <2>2, SMT
    <3>2. b.queue[i] = a.queue[i] /\ a.queue[i] \in Message
      BY <1>1, <1>2, <3>1 DEF n
    <3>3. a.queue[i].no \in Int
      BY <3>2, SMT DEF Message
    <3>4. CASE j \in 1..n
      BY <1>2, <2>2, <3>1, <3>2, <3>4 DEF StreamFits, n
    <3>5. CASE j = n + 1
      <4>1. /\ a.queue[i].kind = "stopped" => a.queue[i].no \in 1..a.stops
            /\ a.queue[i].kind = "reply" => a.queue[i].no <= a.stops
            /\ a.phase # "ended" => a.queue[i].kind \notin Last
        BY <3>1 DEF StreamFits, n
      <4>2. a.queue[i].kind \in {"stopped", "reply"} /\ m.kind = "stopped"
            => a.queue[i].no < m.no
        BY <1>3, <3>3, <4>1, SMT DEF Says
      <4>3. a.queue[i].kind \in Last => m.kind \in Closing
        BY <4>1 DEF Says
      <4> QED
        BY <1>2, <3>2, <3>5, <4>2, <4>3
    <3> QED
      BY <1>4, <3>4, <3>5
  <2>3. b.stops <= b.sent /\ (b.exec = "stopped" => b.stops > 0) /\ b.phase # "off"
    <3>1. a.exec = "stopped" => a.stops > 0
      BY DEF StreamFits
    <3> QED
      BY <1>3, <3>1, SMT DEF Says
  <2> QED
    BY <2>1, <2>2, <2>3 DEF StreamFits
<1>8. Through(a) => Through(b)
  BY <1>2, <1>4 DEF Through, Says, n
<1>9. \A k \in 1..b.stops : k \in 1..a.stops \/ (m.kind = "stopped" /\ k = b.stops)
  BY <1>3, SMT DEF Says
<1>10. ASSUME NEW rc \in SessionRecord, Hears(rc, a) PROVE Hears(rc, b)
  <2>1. rc.seen \in Int /\ rc.seen <= a.stops
    BY <1>10, Constants, SMT DEF Hears, SessionRecord
  <2>2. rc.seen <= b.stops
    BY <1>3, <2>1, SMT
  <2>3. ASSUME NEW i \in 1..Len(b.queue), b.queue[i].kind = "stopped"
        PROVE  b.queue[i].no > rc.seen
    <3>1. CASE i \in 1..n
      BY <1>2, <1>10, <2>3, <3>1 DEF Hears, n
    <3>2. CASE i = n + 1
      <4>1. m.no = a.stops + 1
        BY <1>2, <2>3, <3>2 DEF Says
      <4> QED
        BY <1>2, <1>3, <2>1, <3>2, <4>1, SMT
    <3> QED
      BY <1>4, <3>1, <3>2
  <2>4. ASSUME ~Through(b), NEW k \in 1..b.stops, k > rc.seen PROVE Announced(b, k)
    BY <1>5, <1>6, <1>8, <1>9, <1>10, <2>4 DEF Hears
  <2>5. ASSUME ~Through(b), rc.state = "running", b.exec = "stopped"
        PROVE  Announced(b, b.stops)
    <3>1. CASE m.kind = "stopped"
      BY <1>6, <3>1
    <3>2. CASE m.kind # "stopped"
      <4>1. b.stops = a.stops /\ a.exec = "stopped"
        BY <2>5, <3>2 DEF Says
      <4> QED
        BY <1>5, <1>8, <1>10, <2>5, <4>1 DEF Hears
    <3> QED
      BY <3>1, <3>2
  <2> QED
    BY <2>2, <2>3, <2>4, <2>5 DEF Hears
<1>11. (\A k \in 1..a.stops : Announced(a, k)) => \A k \in 1..b.stops : Announced(b, k)
  BY <1>5, <1>6, <1>9
<1> QED
  BY <1>7, <1>8, <1>10, <1>11

\* One adapter changes, the others stay.
LEMMA AdapterCore ==
    ASSUME NEW R, NEW A, NEW C, NEW L, NEW n \in Nat, Core(R, A, C, L, n),
           NEW v \in Vs, NEW b \in AdapterRecord, StreamFits(b), b.phase # "off",
           Through(A[v]) => Through(b), A[v].stops <= b.stops,
           b.exec = "stopped" =>
              (A[v].exec = "stopped" /\ b.stops = A[v].stops) \/ b.stops > A[v].stops,
           RepliesFit(R, [A EXCEPT ![v] = b], L)
    PROVE  Core(R, [A EXCEPT ![v] = b], C, L, n)
<1> DEFINE B == [A EXCEPT ![v] = b]
<1>1. /\ Typed(R, A, C, L) /\ RecordsFit(R) /\ SessionsFit(R, A, C) /\ EndsFit(R, A, C)
      /\ StreamsFit(A) /\ CallsFit(R, A, L, n) /\ LaunchesFit(R, C, L)
      /\ A \in [Vs -> AdapterRecord] /\ L \in [Caller -> Call] /\ RepliesFit(R, B, L)
  BY DEF Core, Typed
<1>2. B \in [Vs -> AdapterRecord] /\ B[v] = b /\ \A w \in Vs : w # v => B[w] = A[w]
  BY <1>1
<1> HIDE DEF B
<1>3. \A w \in Vs : Through(A[w]) => Through(B[w])
  BY <1>2
<1>4. Typed(R, B, C, L) /\ StreamsFit(B)
  BY <1>1, <1>2 DEF Typed, StreamsFit
<1>5. \A w \in Vs : A[w].phase # "off" => B[w].phase # "off"
  BY <1>2
<1>6. SessionsFit(R, B, C)
  BY <1>1, <1>5 DEF SessionsFit
<1>7. EndsFit(R, B, C)
  BY <1>1, <1>3 DEF EndsFit
<1>8. CallsFit(R, B, L, n)
  <2> SUFFICES ASSUME NEW c \in Caller PROVE CallFits(L[c], R, n) /\ ResumeFits(L[c], R, B)
    BY DEF CallsFit
  <2>1. CallFits(L[c], R, n) /\ ResumeFits(L[c], R, A) /\ L[c] \in Call
    BY <1>1 DEF CallsFit
  <2>2. ResumeFits(L[c], R, B)
    <3> SUFFICES ASSUME L[c].op = "resume", L[c].pc \in {"executed", "settled"},
                        NEW w \in Vs, R[L[c].ref].session = w
                 PROVE  /\ L[c].data <= B[w].stops
                        /\ L[c].mark = R[L[c].ref].epoch => L[c].named <= L[c].data
                        /\ B[w].exec = "stopped" => L[c].data < B[w].stops
      BY DEF ResumeFits
    <3>1. /\ L[c].data <= A[w].stops
          /\ L[c].mark = R[L[c].ref].epoch => L[c].named <= L[c].data
          /\ A[w].exec = "stopped" => L[c].data < A[w].stops
      BY <2>1 DEF ResumeFits
    <3>2. CASE w # v
      BY <1>2, <3>1, <3>2
    <3>3. CASE w = v
      <4>1. L[c].data \in Int /\ A[v].stops \in Int /\ b.stops \in Int
        BY <1>1, <2>1, Constants, SMT DEF AdapterRecord, Call
      <4>2. L[c].data <= b.stops /\ (b.exec = "stopped" => L[c].data < b.stops)
        BY <3>1, <3>3, <4>1, SMT
      <4> QED
        BY <1>2, <3>1, <3>3, <4>2
    <3> QED
      BY <3>2, <3>3
  <2> QED
    BY <2>1, <2>2
<1> QED
  BY <1>1, <1>4, <1>6, <1>7, <1>8 DEF Core, B

LEMMA AdapterHear ==
    ASSUME NEW R \in [Ref -> SessionRecord], NEW A \in [Vs -> AdapterRecord], NEW C,
           RecordsHear(R, A, C), NEW v \in Vs, NEW b,
           Through(A[v]) => Through(b),
           \A rc \in SessionRecord : Hears(rc, A[v]) => Hears(rc, b),
           (\A k \in 1..A[v].stops : Announced(A[v], k)) => \A k \in 1..b.stops : Announced(b, k)
    PROVE  RecordsHear(R, [A EXCEPT ![v] = b], C)
<1> DEFINE B == [A EXCEPT ![v] = b]
<1>1. B[v] = b /\ \A w \in Vs : w # v => B[w] = A[w]
  OBVIOUS
<1> HIDE DEF B
<1>2. ASSUME NEW w \in Vs, NEW r \in Ref, R[r].session = w PROVE Hears(R[r], B[w])
  <2>1. Hears(R[r], A[w]) /\ R[r] \in SessionRecord
    BY <1>2 DEF RecordsHear
  <2>2. CASE w = v
    BY <1>1, <2>1, <2>2
  <2>3. CASE w # v
    BY <1>1, <2>1, <2>3
  <2> QED
    BY <2>2, <2>3
<1>3. ASSUME NEW w \in Vs, ~Through(B[w]), \A r \in Ref : R[r].session # w
      PROVE  \/ C[w] # NoRef /\ ~R[C[w]].known
             \/ \A k \in 1..B[w].stops : Announced(B[w], k)
  <2>1. ~Through(A[w])
    BY <1>1, <1>3
  <2>2. \/ C[w] # NoRef /\ ~R[C[w]].known
        \/ \A k \in 1..A[w].stops : Announced(A[w], k)
    BY <1>3, <2>1 DEF RecordsHear
  <2> QED
    BY <1>1, <2>2
<1> QED
  BY <1>2, <1>3 DEF RecordsHear, B

\* An answer is sent to a call that waits for it.
LEMMA SaysReplies ==
    ASSUME NEW R, NEW A \in [Vs -> AdapterRecord], NEW L, RepliesFit(R, A, L),
           NEW v \in Vs, NEW b, NEW m, Says(A[v], b, m),
           m.kind = "reply" =>
              /\ m.call \in Caller /\ L[m.call].pc \in {"served", "executed"}
              /\ R[L[m.call].ref].session \in {None, v}
              /\ L[m.call].pc = "executed" => L[m.call].data = m.no
              /\ \A w \in Vs : \A i \in 1..Len(A[w].queue) :
                    A[w].queue[i].kind = "reply" => A[w].queue[i].call # m.call
    PROVE  RepliesFit(R, [A EXCEPT ![v] = b], L)
<1> DEFINE B == [A EXCEPT ![v] = b]
           n == Len(A[v].queue)
<1>1. B[v] = b /\ \A w \in Vs : w # v => B[w] = A[w]
  OBVIOUS
<1> HIDE DEF B
<1>2. /\ n \in Nat /\ Len(b.queue) = n + 1 /\ b.queue[n + 1] = m
      /\ \A i \in 1..n : b.queue[i] = A[v].queue[i]
  <2>1. A[v].queue \in Seq(Message) /\ m \in Message /\ b.queue = Append(A[v].queue, m)
    BY SMT DEF Says, AdapterRecord
  <2> QED
    BY <2>1, AppendFacts
<1> HIDE DEF n
<1>3. \A i \in 1..Len(b.queue) : i \in 1..n \/ i = n + 1
  BY <1>2, SMT
<1>4. \A w \in Vs : \A i \in 1..Len(B[w].queue) :
         \/ i \in 1..Len(A[w].queue) /\ B[w].queue[i] = A[w].queue[i]
         \/ w = v /\ i = n + 1 /\ B[w].queue[i] = m
  BY <1>1, <1>2, <1>3, SMTT(30) DEF n
<1>5. ASSUME NEW w \in Vs, NEW i \in 1..Len(B[w].queue), B[w].queue[i].kind = "reply"
      PROVE  LET x == B[w].queue[i] IN
             /\ x.call \in Caller /\ L[x.call].pc \in {"served", "executed"}
             /\ R[L[x.call].ref].session \in {None, w}
             /\ L[x.call].pc = "executed" => L[x.call].data = x.no
  <2>1. CASE i \in 1..Len(A[w].queue) /\ B[w].queue[i] = A[w].queue[i]
    BY <1>5, <2>1 DEF RepliesFit
  <2>2. CASE w = v /\ i = n + 1 /\ B[w].queue[i] = m
    BY <1>5, <2>2
  <2> QED
    BY <1>4, <2>1, <2>2, ZenonT(40)
<1>6. ASSUME NEW w \in Vs, NEW u \in Vs,
             NEW i \in 1..Len(B[w].queue), NEW j \in 1..Len(B[u].queue),
             B[w].queue[i].kind = "reply", B[u].queue[j].kind = "reply",
             B[w].queue[i].call = B[u].queue[j].call
      PROVE  w = u /\ i = j
  <2>1. CASE /\ i \in 1..Len(A[w].queue) /\ B[w].queue[i] = A[w].queue[i]
             /\ j \in 1..Len(A[u].queue) /\ B[u].queue[j] = A[u].queue[j]
    BY <1>6, <2>1 DEF RepliesFit
  <2>2. CASE w = v /\ i = n + 1 /\ B[w].queue[i] = m /\ u = v /\ j = n + 1
    BY <2>2
  <2>3. CASE /\ w = v /\ i = n + 1 /\ B[w].queue[i] = m
             /\ j \in 1..Len(A[u].queue) /\ B[u].queue[j] = A[u].queue[j]
    BY <1>6, <2>3
  <2>4. CASE /\ u = v /\ j = n + 1 /\ B[u].queue[j] = m
             /\ i \in 1..Len(A[w].queue) /\ B[w].queue[i] = A[w].queue[i]
    BY <1>6, <2>4
  <2>5. \/ i \in 1..Len(A[w].queue) /\ B[w].queue[i] = A[w].queue[i]
        \/ w = v /\ i = n + 1 /\ B[w].queue[i] = m
    BY <1>4
  <2>6. \/ j \in 1..Len(A[u].queue) /\ B[u].queue[j] = A[u].queue[j]
        \/ u = v /\ j = n + 1 /\ B[u].queue[j] = m
    BY <1>4
  <2> QED
    <3>1. CASE i \in 1..Len(A[w].queue) /\ B[w].queue[i] = A[w].queue[i]
      BY ONLY <2>1, <2>4, <2>6, <3>1, Zenon
    <3>2. CASE w = v /\ i = n + 1 /\ B[w].queue[i] = m
      BY ONLY <2>2, <2>3, <2>6, <3>2, ZenonT(40)
    <3> QED
      BY ONLY <2>5, <3>1, <3>2, Zenon
<1>7. RepliesFit(R, B, L)
  <2>1. \A w, u \in Vs : \A i \in 1..Len(B[w].queue), j \in 1..Len(B[u].queue) :
           /\ B[w].queue[i].kind = "reply" /\ B[u].queue[j].kind = "reply"
           /\ B[w].queue[i].call = B[u].queue[j].call
           => w = u /\ i = j
    BY <1>6, SMTT(30)
  <2>2. \A w \in Vs : \A i \in 1..Len(B[w].queue) : B[w].queue[i].kind = "reply" =>
           LET x == B[w].queue[i] IN
           /\ x.call \in Caller /\ L[x.call].pc \in {"served", "executed"}
           /\ R[L[x.call].ref].session \in {None, w}
           /\ L[x.call].pc = "executed" => L[x.call].data = x.no
    BY <1>5
  <2> QED
    BY <2>1, <2>2, Zenon DEF RepliesFit
<1> QED
  BY <1>7 DEF B

\* An adapter says one message more.
LEMMA AdapterSays ==
    ASSUME NEW R, NEW A, NEW C, NEW L, NEW n \in Nat, Fits(R, A, C, L, n),
           NEW v \in Vs, NEW b, NEW m, Says(A[v], b, m),
           m.kind = "reply" =>
              /\ m.call \in Caller /\ L[m.call].pc \in {"served", "executed"}
              /\ R[L[m.call].ref].session \in {None, v}
              /\ L[m.call].pc = "executed" => L[m.call].data = m.no
              /\ \A w \in Vs : \A i \in 1..Len(A[w].queue) :
                    A[w].queue[i].kind = "reply" => A[w].queue[i].call # m.call
    PROVE  Fits(R, [A EXCEPT ![v] = b], C, L, n)
<1>1. /\ Core(R, A, C, L, n) /\ RecordsHear(R, A, C) /\ R \in [Ref -> SessionRecord]
      /\ A \in [Vs -> AdapterRecord] /\ RepliesFit(R, A, L) /\ StreamFits(A[v])
      /\ A[v] \in AdapterRecord
  BY DEF Fits, Core, Typed, StreamsFit
<1>2. /\ StreamFits(b) /\ (Through(A[v]) => Through(b))
      /\ \A rc \in SessionRecord : Hears(rc, A[v]) => Hears(rc, b)
      /\ (\A k \in 1..A[v].stops : Announced(A[v], k)) => \A k \in 1..b.stops : Announced(b, k)
  BY <1>1, SaysFits
<1>3. RepliesFit(R, [A EXCEPT ![v] = b], L)
  BY <1>1, SaysReplies
<1>4. /\ b \in AdapterRecord /\ b.phase # "off" /\ A[v].stops <= b.stops
      /\ b.exec = "stopped" =>
            (A[v].exec = "stopped" /\ b.stops = A[v].stops) \/ b.stops > A[v].stops
  <2>1. A[v].stops \in Int
    BY <1>1, Constants, SMT DEF AdapterRecord
  <2>2. /\ b \in AdapterRecord /\ b.phase # "off"
        /\ \/ b.stops = A[v].stops + 1
           \/ b.stops = A[v].stops /\ b.exec \in {A[v].exec, "running"}
    BY Zenon DEF Says
  <2>3. CASE b.stops = A[v].stops + 1
    BY ONLY <2>1, <2>2, <2>3, SMT
  <2>4. CASE b.stops = A[v].stops /\ b.exec \in {A[v].exec, "running"}
    <3>1. A[v].stops <= b.stops
      BY ONLY <2>1, <2>4, SMT
    <3> QED
      BY ONLY <2>2, <2>4, <3>1
  <2> QED
    BY <2>2, <2>3, <2>4
<1>5. Core(R, [A EXCEPT ![v] = b], C, L, n)
  BY <1>1, <1>2, <1>3, <1>4, AdapterCore
<1>6. RecordsHear(R, [A EXCEPT ![v] = b], C)
  BY <1>1, <1>2, AdapterHear
<1> QED
  BY <1>5, <1>6 DEF Fits

\* One answer for a call, wherever it is.
LEMMA RepliesOnce ==
    ASSUME NEW R, NEW A, NEW L, RepliesFit(R, A, L), NEW v \in Vs, NEW w \in Vs,
           NEW i \in 1..Len(A[v].queue), NEW j \in 1..Len(A[w].queue),
           A[v].queue[i].kind = "reply", A[w].queue[j].kind = "reply",
           A[v].queue[i].call = A[w].queue[j].call
    PROVE  v = w /\ i = j
BY SMTT(30) DEF RepliesFit

\* What an answer on its way says of its call.
ReplyFits(R, L, w, x) ==
    /\ x.call \in Caller /\ L[x.call].pc \in {"served", "executed"}
    /\ R[L[x.call].ref].session \in {None, w}
    /\ L[x.call].pc = "executed" => L[x.call].data = x.no

LEMMA RepliesOfCalls ==
    ASSUME NEW R, NEW A, NEW L, RepliesFit(R, A, L), NEW w \in Vs,
           NEW i \in 1..Len(A[w].queue), A[w].queue[i].kind = "reply"
    PROVE  ReplyFits(R, L, w, A[w].queue[i])
BY DEF RepliesFit, ReplyFits

\* A thread goes on, or all of them do.
LEMMA RunsFacts ==
    ASSUME NEW a \in AdapterRecord, NEW h \in Nat
    PROVE  LET b == Runs(a, h) IN
           /\ b \in AdapterRecord /\ b.phase = a.phase /\ b.exec = "running"
           /\ b.stops = a.stops /\ b.sent = a.sent /\ b.queue = a.queue
<1> DEFINE b == [a EXCEPT !.exec = "running", !.halted = h]
<1>1. b \in AdapterRecord
  BY DEF AdapterRecord
<1>2. b.phase = a.phase /\ b.exec = "running" /\ b.stops = a.stops
  BY DEF AdapterRecord
<1>3. b.sent = a.sent /\ b.queue = a.queue
  BY DEF AdapterRecord
<1>4. Runs(a, h) = b
  BY DEF Runs
<1> HIDE DEF b
<1> QED
  BY <1>1, <1>2, <1>3, <1>4

\* ... and nothing is said of it.
LEMMA AdapterRuns ==
    ASSUME NEW R, NEW A, NEW C, NEW L, NEW n \in Nat, Fits(R, A, C, L, n),
           NEW v \in Vs, A[v].phase # "off", NEW h \in Nat
    PROVE  Fits(R, [A EXCEPT ![v] = Runs(A[v], h)], C, L, n)
<1> DEFINE a == A[v]
           b == Runs(A[v], h)
<1>1. /\ Core(R, A, C, L, n) /\ RecordsHear(R, A, C) /\ R \in [Ref -> SessionRecord]
      /\ A \in [Vs -> AdapterRecord] /\ RepliesFit(R, A, L) /\ StreamFits(a)
      /\ a \in AdapterRecord
  BY DEF Fits, Core, Typed, StreamsFit
<1>2. /\ b \in AdapterRecord /\ b.phase = a.phase /\ b.exec = "running"
      /\ b.stops = a.stops /\ b.sent = a.sent /\ b.queue = a.queue
  BY <1>1, RunsFacts
<1> HIDE DEF b
<1>3. StreamFits(b)
  BY <1>1, <1>2 DEF StreamFits
<1>4. /\ Through(a) => Through(b)
      /\ \A k : Announced(a, k) <=> Announced(b, k)
      /\ ~Through(b) => ~Through(a)
  BY <1>2 DEF Through, Announced
<1>5. \A rc \in SessionRecord : Hears(rc, a) => Hears(rc, b)
  BY <1>2, <1>4 DEF Hears
<1>6. RepliesFit(R, [A EXCEPT ![v] = b], L)
  <2> DEFINE B == [A EXCEPT ![v] = b]
  <2>1. \A w \in Vs : B[w].queue = A[w].queue
    BY <1>1, <1>2
  <2> HIDE DEF B
  <2>3. ASSUME NEW w \in Vs, NEW i \in 1..Len(B[w].queue), B[w].queue[i].kind = "reply"
        PROVE  LET x == B[w].queue[i] IN
               /\ x.call \in Caller /\ L[x.call].pc \in {"served", "executed"}
               /\ R[L[x.call].ref].session \in {None, w}
               /\ L[x.call].pc = "executed" => L[x.call].data = x.no
    <3>1. i \in 1..Len(A[w].queue) /\ A[w].queue[i] = B[w].queue[i]
      BY <2>1
    <3>2. /\ RepliesFit(R, A, L) /\ w \in Vs /\ i \in 1..Len(A[w].queue)
          /\ A[w].queue[i].kind = "reply"
      BY <1>1, <2>3, <3>1
    <3>3. ReplyFits(R, L, w, A[w].queue[i])
      BY ONLY <3>2, RepliesOfCalls
    <3> QED
      BY <3>1, <3>3 DEF ReplyFits
  <2>4. ASSUME NEW w \in Vs, NEW u \in Vs,
               NEW i \in 1..Len(B[w].queue), NEW j \in 1..Len(B[u].queue),
               B[w].queue[i].kind = "reply", B[u].queue[j].kind = "reply",
               B[w].queue[i].call = B[u].queue[j].call
        PROVE  w = u /\ i = j
    <3>1. B[w].queue = A[w].queue /\ B[u].queue = A[u].queue
      BY <2>1, SMTT(30)
    <3> QED
      BY <1>1, <2>4, <3>1, RepliesOnce
  <2>2. RepliesFit(R, B, L)
    BY <2>3, <2>4 DEF RepliesFit
  <2> QED
    BY <2>2 DEF B
<1>7. a.stops \in Int
  BY <1>1, Constants, SMT DEF AdapterRecord
<1>8. a.stops <= b.stops
  BY <1>2, <1>7, SMT
<1>9. Core(R, [A EXCEPT ![v] = b], C, L, n)
  BY <1>1, <1>2, <1>3, <1>4, <1>6, <1>8, AdapterCore
<1>10. RecordsHear(R, [A EXCEPT ![v] = b], C)
  BY <1>1, <1>2, <1>4, <1>5, AdapterHear
<1> QED
  BY <1>9, <1>10 DEF Fits, b

-----------------------------------------------------------------------------
(* The parts of the invariant when a message is read *)

\* The adapter whose first message was read
Read(a) == [a EXCEPT !.queue = Tail(a.queue)]

LEMMA ReadFacts ==
    ASSUME NEW a \in AdapterRecord, StreamFits(a), a.queue # <<>>
    PROVE  LET b == Read(a)
               m == Head(a.queue)
           IN
           /\ b \in AdapterRecord /\ b.phase = a.phase /\ b.exec = a.exec
           /\ b.stops = a.stops /\ b.sent = a.sent /\ b.queue = Tail(a.queue)
           /\ m \in Message /\ a.phase # "off" /\ StreamFits(b)
           /\ Through(a) => Through(b)
           /\ m.kind \in Last => Through(b)
           /\ m.kind = "stopped" =>
                 /\ ~Through(a)
                 /\ m.no \in 1..a.stops
                 /\ \A k : Announced(a, k) => k = m.no \/ Announced(b, k)
                 /\ \A i \in 1..Len(b.queue) : b.queue[i].kind = "stopped" => b.queue[i].no > m.no
                 /\ \A i \in 1..Len(a.queue) : a.queue[i].kind = "stopped" => a.queue[i].no >= m.no
           /\ m.kind # "stopped" => \A k : Announced(a, k) => Announced(b, k)
           /\ m.kind = "continued" /\ a.exec = "stopped" => Announced(a, a.stops)
           /\ m.kind = "reply" =>
                 /\ ~Through(a)
                 /\ m.no <= a.stops
                 /\ \A k : Announced(a, k) => k > m.no
<1> DEFINE q == a.queue
           m == Head(q)
           t == Tail(q)
           b == Read(a)
           n == Len(q)
<1>1. q \in Seq(Message) /\ q # <<>>
  BY SMT DEF AdapterRecord
<1>2. /\ t \in Seq(Message) /\ n \in Nat /\ n >= 1 /\ Len(t) = n - 1
      /\ m = q[1] /\ m \in Message /\ \A i \in 1..Len(t) : t[i] = q[i + 1]
  BY <1>1, TailFacts
<1> HIDE DEF t, m
<1>3. /\ b \in AdapterRecord /\ b.phase = a.phase /\ b.exec = a.exec
      /\ b.stops = a.stops /\ b.sent = a.sent /\ b.queue = t
  <2>1. b = [a EXCEPT !.queue = t]
    BY DEF Read, t
  <2> QED
    BY <1>2, <2>1, SMTT(30) DEF AdapterRecord
<1> HIDE DEF b, n
<1>4. /\ a.phase # "off" /\ a.stops <= a.sent /\ (a.exec = "stopped" => a.stops > 0)
  BY DEF StreamFits
<1>5. \A i \in 1..Len(t) : i + 1 \in 1..n /\ i \in Int /\ t[i] = q[i + 1]
  BY <1>2, SMT
<1>6. \A i \in 1..n : i = 1 \/ (i - 1 \in 1..Len(t) /\ t[i - 1] = q[i] /\ i > 1)
  <2> SUFFICES ASSUME NEW i \in 1..n, i # 1
               PROVE  i - 1 \in 1..Len(t) /\ t[i - 1] = q[i] /\ i > 1
    OBVIOUS
  <2>1. i - 1 \in 1..Len(t) /\ i > 1 /\ (i - 1) + 1 = i
    BY <1>2, SMT
  <2> QED
    BY <1>2, <2>1
<1>7. 1 \in 1..n
  BY <1>2, SMT
<1>8. \A i \in 1..n : q[i].no \in Int
  <2> SUFFICES ASSUME NEW i \in 1..n PROVE q[i].no \in Int
    OBVIOUS
  <2>1. q[i] \in Message
    BY <1>1 DEF n
  <2> QED
    BY <2>1, SMT DEF Message
<1>9. ASSUME NEW i \in 1..n
      PROVE  /\ q[i].kind = "stopped" => q[i].no \in 1..a.stops
             /\ q[i].kind = "reply" => q[i].no <= a.stops
             /\ a.phase # "ended" => q[i].kind \notin Last
             /\ q[i].kind = "continued" /\ a.exec = "stopped" =>
                   \E j \in 1..n : j > i /\ q[j].kind = "stopped" /\ q[j].no = a.stops
  BY DEF StreamFits, n
<1>10. ASSUME NEW i \in 1..n, NEW j \in 1..n, i < j
       PROVE  /\ q[i].kind \in {"stopped", "reply"} /\ q[j].kind = "stopped"
                 => q[i].no < q[j].no
              /\ q[i].kind \in Last => q[j].kind \in Closing
  BY <1>10 DEF StreamFits, n
<1>11. StreamFits(b)
  <2>1. ASSUME NEW i \in 1..Len(t)
        PROVE  /\ t[i].kind = "stopped" => t[i].no \in 1..a.stops
               /\ t[i].kind = "reply" => t[i].no <= a.stops
               /\ a.phase # "ended" => t[i].kind \notin Last
               /\ t[i].kind = "continued" /\ a.exec = "stopped" =>
                     \E j \in 1..Len(t) : j > i /\ t[j].kind = "stopped" /\ t[j].no = a.stops
    <3>1. i + 1 \in 1..n /\ t[i] = q[i + 1]
      BY <1>5
    <3>2. ASSUME t[i].kind = "continued", a.exec = "stopped"
          PROVE  \E j \in 1..Len(t) : j > i /\ t[j].kind = "stopped" /\ t[j].no = a.stops
      <4>1. PICK j \in 1..n : j > i + 1 /\ q[j].kind = "stopped" /\ q[j].no = a.stops
        BY <1>9, <3>1, <3>2
      <4>2. j # 1 /\ j - 1 > i
        BY <1>5, <4>1, SMT
      <4> QED
        BY <1>6, <4>1, <4>2
    <3> QED
      BY <1>9, <3>1, <3>2
  <2>2. ASSUME NEW i \in 1..Len(t), NEW j \in 1..Len(t), i < j
        PROVE  /\ t[i].kind \in {"stopped", "reply"} /\ t[j].kind = "stopped"
                  => t[i].no < t[j].no
               /\ t[i].kind \in Last => t[j].kind \in Closing
    <3>1. i + 1 \in 1..n /\ j + 1 \in 1..n /\ t[i] = q[i + 1] /\ t[j] = q[j + 1]
      BY <1>5
    <3>2. i + 1 < j + 1
      BY <2>2, <1>5, SMT
    <3> QED
      BY <1>10, <3>1, <3>2
  <2> QED
    BY <1>3, <1>4, <2>1, <2>2 DEF StreamFits
<1>12. Through(a) => Through(b)
  BY <1>3, <1>5 DEF Through, n
<1>13. m.kind \in Last => Through(b)
  <2> SUFFICES ASSUME m.kind \in Last PROVE Through(b)
    OBVIOUS
  <2>1. a.phase = "ended"
    BY <1>2, <1>7, <1>9
  <2>2. \A i \in 1..Len(t) : t[i].kind \in Closing
    <3> SUFFICES ASSUME NEW i \in 1..Len(t) PROVE t[i].kind \in Closing
      OBVIOUS
    <3>1. i + 1 \in 1..n /\ 1 < i + 1 /\ t[i] = q[i + 1]
      BY <1>5, SMT
    <3> QED
      BY <1>2, <1>7, <1>10, <3>1
  <2> QED
    BY <1>3, <2>1, <2>2 DEF Through
<1>14. m.kind \notin Closing => ~Through(a)
  BY <1>2, <1>7 DEF Through, n
<1>15. \A k : Announced(a, k) => (m.kind = "stopped" /\ k = m.no) \/ Announced(b, k)
  <2> SUFFICES ASSUME NEW k, Announced(a, k), ~(m.kind = "stopped" /\ k = m.no)
               PROVE  Announced(b, k)
    OBVIOUS
  <2>1. PICK i \in 1..n : q[i].kind = "stopped" /\ q[i].no = k
    BY DEF Announced, n
  <2>2. i # 1
    BY <1>2, <2>1
  <2> QED
    BY <1>3, <1>6, <2>1, <2>2 DEF Announced
<1>16. ASSUME m.kind = "stopped"
       PROVE  /\ m.no \in 1..a.stops
              /\ \A i \in 1..Len(t) : t[i].kind = "stopped" => t[i].no > m.no
              /\ \A i \in 1..n : q[i].kind = "stopped" => q[i].no >= m.no
  <2>1. m.no \in 1..a.stops
    BY <1>2, <1>7, <1>9, <1>16
  <2>2. ASSUME NEW i \in 1..Len(t), t[i].kind = "stopped" PROVE t[i].no > m.no
    <3>1. i + 1 \in 1..n /\ 1 < i + 1 /\ t[i] = q[i + 1]
      BY <1>5, SMT
    <3>2. q[1].no < q[i + 1].no
      BY <1>2, <1>7, <1>10, <1>16, <2>2, <3>1
    <3>3. q[1].no \in Int /\ q[i + 1].no \in Int
      BY <1>7, <1>8, <3>1
    <3>4. q[i + 1].no > q[1].no
      BY ONLY <3>2, <3>3, SMT
    <3> QED
      BY <1>2, <3>1, <3>4
  <2>3. ASSUME NEW i \in 1..n, q[i].kind = "stopped" PROVE q[i].no >= m.no
    <3>1. CASE i = 1
      <4>1. q[1].no \in Int
        BY <1>7, <1>8
      <4> QED
        BY <1>2, <3>1, <4>1, SMT
    <3>2. CASE i # 1
      <4>1. i - 1 \in 1..Len(t) /\ t[i - 1] = q[i]
        BY <1>6, <3>2
      <4>2. q[i].no > m.no
        BY <2>2, <2>3, <4>1
      <4>3. q[i].no \in Int /\ m.no \in Int
        BY <1>2, <1>7, <1>8
      <4> QED
        BY ONLY <4>2, <4>3, SMT
    <3> QED
      BY <3>1, <3>2
  <2> QED
    BY <2>1, <2>2, <2>3
<1>17. m.kind = "continued" /\ a.exec = "stopped" => Announced(a, a.stops)
  BY <1>2, <1>7, <1>9 DEF Announced, n
<1>18. ASSUME m.kind = "reply"
       PROVE  m.no <= a.stops /\ \A k : Announced(a, k) => k > m.no
  <2>1. m.no <= a.stops
    BY <1>2, <1>7, <1>9, <1>18
  <2>2. ASSUME NEW k, Announced(a, k) PROVE k > m.no
    <3>1. PICK i \in 1..n : q[i].kind = "stopped" /\ q[i].no = k
      BY <2>2 DEF Announced, n
    <3>2. 1 < i
      BY <1>2, <1>6, <1>18, <3>1
    <3>3. q[1].no < q[i].no
      BY <1>2, <1>7, <1>10, <1>18, <3>1, <3>2
    <3>4. q[1].no \in Int /\ q[i].no \in Int
      BY <1>7, <1>8
    <3> QED
      BY <1>2, <3>1, <3>3, <3>4, SMT
  <2> QED
    BY <2>1, <2>2
<1>19. "stopped" \notin Closing /\ "reply" \notin Closing
  BY DEF Closing
<1> QED
  BY <1>2, <1>3, <1>4, <1>11, <1>12, <1>13, <1>14, <1>15, <1>16, <1>17, <1>18, <1>19 DEF t, m, b, n

\* The answers that are left, and none for a call whose answer was read
LEMMA ReadReplies ==
    ASSUME NEW R, NEW A \in [Vs -> AdapterRecord], NEW L, RepliesFit(R, A, L), NEW v \in Vs,
           A[v].queue # <<>>
    PROVE  LET B == [A EXCEPT ![v] = Read(A[v])]
               m == Head(A[v].queue)
           IN
           /\ RepliesFit(R, B, L)
           /\ m.kind = "reply" => \A w \in Vs : \A i \in 1..Len(B[w].queue) :
                 B[w].queue[i].kind = "reply" => B[w].queue[i].call # m.call
<1> DEFINE b == Read(A[v])
           B == [A EXCEPT ![v] = b]
           m == Head(A[v].queue)
           n == Len(A[v].queue)
<1>1. B[v] = b /\ \A w \in Vs : w # v => B[w] = A[w]
  OBVIOUS
<1>2. /\ n \in Nat /\ n >= 1 /\ Len(b.queue) = n - 1 /\ m = A[v].queue[1]
      /\ \A i \in 1..Len(b.queue) : b.queue[i] = A[v].queue[i + 1]
  <2>1. A[v].queue \in Seq(Message)
    BY SMT DEF AdapterRecord
  <2>2. b.queue = Tail(A[v].queue)
    BY SMT DEF Read, AdapterRecord
  <2> QED
    BY <2>1, <2>2, TailFacts
<1> HIDE DEF B, b, m, n
<1>3. \A i \in 1..Len(b.queue) : i + 1 \in 1..n /\ i + 1 # 1 /\ i \in Int
  BY <1>2, SMT
<1>4. \A w \in Vs : \A i \in 1..Len(B[w].queue) :
         \E k \in 1..Len(A[w].queue) :
            B[w].queue[i] = A[w].queue[k] /\ (w = v => k = i + 1 /\ k # 1) /\ (w # v => k = i)
  <2> SUFFICES ASSUME NEW w \in Vs, NEW i \in 1..Len(B[w].queue)
               PROVE  \E k \in 1..Len(A[w].queue) :
                  B[w].queue[i] = A[w].queue[k] /\ (w = v => k = i + 1 /\ k # 1) /\ (w # v => k = i)
    OBVIOUS
  <2>1. CASE w = v
    BY <1>1, <1>2, <1>3, <2>1, SMTT(30) DEF n
  <2>2. CASE w # v
    BY <1>1, <2>2
  <2> QED
    BY <2>1, <2>2
<1>5. ASSUME NEW w \in Vs, NEW i \in 1..Len(B[w].queue), B[w].queue[i].kind = "reply"
      PROVE  LET x == B[w].queue[i] IN
             /\ x.call \in Caller /\ L[x.call].pc \in {"served", "executed"}
             /\ R[L[x.call].ref].session \in {None, w}
             /\ L[x.call].pc = "executed" => L[x.call].data = x.no
  <2>1. PICK k \in 1..Len(A[w].queue) : B[w].queue[i] = A[w].queue[k]
    BY <1>4
  <2> QED
    BY <1>5, <2>1 DEF RepliesFit
<1>6. ASSUME NEW w \in Vs, NEW u \in Vs,
             NEW i \in 1..Len(B[w].queue), NEW j \in 1..Len(B[u].queue),
             B[w].queue[i].kind = "reply", B[u].queue[j].kind = "reply",
             B[w].queue[i].call = B[u].queue[j].call
      PROVE  w = u /\ i = j
  <2>1. PICK k \in 1..Len(A[w].queue) :
           B[w].queue[i] = A[w].queue[k] /\ (w = v => k = i + 1) /\ (w # v => k = i)
    BY <1>4, ZenonT(40)
  <2>2. PICK l \in 1..Len(A[u].queue) :
           B[u].queue[j] = A[u].queue[l] /\ (u = v => l = j + 1) /\ (u # v => l = j)
    BY <1>4
  <2>3. w = u /\ k = l
    BY <1>6, <2>1, <2>2, RepliesOnce
  <2>4. CASE w = v
    <3>1. i + 1 = j + 1 /\ i \in Int /\ j \in Int
      BY <1>1, <1>3, <2>1, <2>2, <2>3, <2>4
    <3>2. i = j
      BY ONLY <3>1, SMT
    <3> QED
      BY <2>3, <3>2
  <2>5. CASE w # v
    BY <2>1, <2>2, <2>3, <2>5
  <2> QED
    BY <2>4, <2>5
<1>7. RepliesFit(R, B, L)
  <2>1. \A w, u \in Vs : \A i \in 1..Len(B[w].queue), j \in 1..Len(B[u].queue) :
           /\ B[w].queue[i].kind = "reply" /\ B[u].queue[j].kind = "reply"
           /\ B[w].queue[i].call = B[u].queue[j].call
           => w = u /\ i = j
    BY <1>6, SMTT(30)
  <2>2. \A w \in Vs : \A i \in 1..Len(B[w].queue) : B[w].queue[i].kind = "reply" =>
           LET x == B[w].queue[i] IN
           /\ x.call \in Caller /\ L[x.call].pc \in {"served", "executed"}
           /\ R[L[x.call].ref].session \in {None, w}
           /\ L[x.call].pc = "executed" => L[x.call].data = x.no
    BY <1>5
  <2> QED
    BY <2>1, <2>2, Zenon DEF RepliesFit
<1>8. ASSUME m.kind = "reply", NEW w \in Vs, NEW i \in 1..Len(B[w].queue),
             B[w].queue[i].kind = "reply"
      PROVE  B[w].queue[i].call # m.call
  <2>1. PICK k \in 1..Len(A[w].queue) : B[w].queue[i] = A[w].queue[k] /\ (w = v => k # 1)
    BY <1>4
  <2>2. 1 \in 1..Len(A[v].queue)
    BY <1>2, SMT DEF n
  <2>3. ASSUME B[w].queue[i].call = m.call PROVE FALSE
    <3>1. /\ RepliesFit(R, A, L) /\ w \in Vs /\ v \in Vs
          /\ k \in 1..Len(A[w].queue) /\ 1 \in 1..Len(A[v].queue)
          /\ A[w].queue[k].kind = "reply" /\ A[v].queue[1].kind = "reply"
          /\ A[w].queue[k].call = A[v].queue[1].call
      BY <1>2, <1>8, <2>1, <2>2, <2>3
    <3>2. w = v /\ k = 1
      BY ONLY <3>1, RepliesOnce
    <3> QED
      BY <2>1, <3>2
  <2> QED
    BY <2>3
<1> QED
  BY <1>7, <1>8 DEF B, b, m

LEMMA ReadCore ==
    ASSUME NEW R, NEW A, NEW C, NEW L, NEW n \in Nat, Core(R, A, C, L, n),
           NEW v \in Vs, A[v].queue # <<>>
    PROVE  Core(R, [A EXCEPT ![v] = Read(A[v])], C, L, n)
<1> DEFINE a == A[v]
           b == Read(A[v])
<1>1. /\ A \in [Vs -> AdapterRecord] /\ StreamFits(a) /\ a \in AdapterRecord
      /\ RepliesFit(R, A, L)
  BY DEF Core, Typed, StreamsFit
<1>2. /\ b \in AdapterRecord /\ b.phase = a.phase /\ b.exec = a.exec
      /\ b.stops = a.stops /\ a.phase # "off" /\ StreamFits(b)
      /\ Through(a) => Through(b)
  BY <1>1, ReadFacts
<1>3. RepliesFit(R, [A EXCEPT ![v] = b], L)
  BY <1>1, ReadReplies
<1>4. a.stops \in Int
  BY <1>1, Constants, SMT DEF AdapterRecord
<1> HIDE DEF b
<1>5. a.stops <= b.stops
  BY <1>2, <1>4, SMT
<1>6. Core(R, [A EXCEPT ![v] = b], C, L, n)
  BY <1>1, <1>2, <1>3, <1>5, AdapterCore
<1> QED
  BY <1>6 DEF b

\* A message that is no stop, or that is for nobody
LEMMA ReadFits ==
    ASSUME NEW R, NEW A, NEW C, NEW L, NEW n \in Nat, Fits(R, A, C, L, n),
           NEW v \in Vs, A[v].queue # <<>>,
           \/ Head(A[v].queue).kind # "stopped"
           \/ (\A r \in Ref : R[r].session # v) /\ C[v] # NoRef /\ ~R[C[v]].known
    PROVE  Fits(R, [A EXCEPT ![v] = Read(A[v])], C, L, n)
<1> DEFINE a == A[v]
           b == Read(A[v])
           m == Head(A[v].queue)
<1>1. /\ Core(R, A, C, L, n) /\ RecordsHear(R, A, C) /\ R \in [Ref -> SessionRecord]
      /\ A \in [Vs -> AdapterRecord] /\ StreamFits(a) /\ a \in AdapterRecord
  BY DEF Fits, Core, Typed, StreamsFit
<1>2. /\ b.exec = a.exec /\ b.stops = a.stops /\ b.queue = Tail(a.queue)
      /\ Through(a) => Through(b)
      /\ m.kind # "stopped" => \A k : Announced(a, k) => Announced(b, k)
  BY <1>1, ReadFacts
<1>3. Core(R, [A EXCEPT ![v] = b], C, L, n)
  BY <1>1, ReadCore
<1>4. CASE m.kind # "stopped"
  <2>1. \A i \in 1..Len(b.queue) : i + 1 \in 1..Len(a.queue) /\ b.queue[i] = a.queue[i + 1]
    <3>1. a.queue \in Seq(Message)
      BY <1>1, SMT DEF AdapterRecord
    <3>2. /\ Len(a.queue) \in Nat /\ Len(b.queue) = Len(a.queue) - 1
          /\ \A i \in 1..Len(b.queue) : b.queue[i] = a.queue[i + 1]
      BY <1>2, <3>1, TailFacts
    <3> QED
      BY <3>2, SMT
  <2> HIDE DEF b
  <2>2. ASSUME NEW rc \in SessionRecord, Hears(rc, a) PROVE Hears(rc, b)
    BY <1>2, <1>4, <2>1, <2>2 DEF Hears
  <2>3. RecordsHear(R, [A EXCEPT ![v] = b], C)
    BY <1>1, <1>2, <1>4, <2>2, AdapterHear
  <2> QED
    BY <1>3, <2>3 DEF Fits, b
<1>5. CASE (\A r \in Ref : R[r].session # v) /\ C[v] # NoRef /\ ~R[C[v]].known
  <2> DEFINE B == [A EXCEPT ![v] = b]
  <2> HIDE DEF b
  <2>1. B[v] = b /\ \A w \in Vs : w # v => B[w] = A[w]
    BY <1>1
  <2> HIDE DEF B
  <2>2. RecordsHear(R, B, C)
    <3>1. \A w \in Vs, r \in Ref : R[r].session = w => Hears(R[r], B[w])
      BY <1>1, <1>5, <2>1 DEF RecordsHear
    <3>2. ASSUME NEW w \in Vs, ~Through(B[w]), \A r \in Ref : R[r].session # w
          PROVE  \/ C[w] # NoRef /\ ~R[C[w]].known
                 \/ \A k \in 1..B[w].stops : Announced(B[w], k)
      <4>1. CASE w = v
        BY <1>5, <4>1
      <4>2. CASE w # v
        BY <1>1, <2>1, <3>2, <4>2 DEF RecordsHear
      <4> QED
        BY <4>1, <4>2
    <3> QED
      BY <3>1, <3>2 DEF RecordsHear
  <2> QED
    BY <1>3, <2>2 DEF Fits, B, b
<1> QED
  BY <1>4, <1>5

\* A stop, for the record of the session that it is of
LEMMA ReadStop ==
    ASSUME NEW R, NEW A, NEW C, NEW L, NEW n \in Nat, Fits(R, A, C, L, n),
           NEW v \in Vs, A[v].queue # <<>>, Head(A[v].queue).kind = "stopped",
           NEW r \in Ref, R[r].session = v
    PROVE  LET S == [R EXCEPT ![r] = After(R[r], Head(A[v].queue))] IN
           /\ Fits(S, [A EXCEPT ![v] = Read(A[v])], C, L, n)
           /\ \A q \in Ref : Moves(R[q], S[q])
<1> DEFINE a == A[v]
           b == Read(A[v])
           B == [A EXCEPT ![v] = b]
           m == Head(A[v].queue)
           x == After(R[r], m)
           S == [R EXCEPT ![r] = x]
<1>1. /\ Core(R, A, C, L, n) /\ RecordsHear(R, A, C) /\ R \in [Ref -> SessionRecord]
      /\ A \in [Vs -> AdapterRecord] /\ StreamFits(a) /\ a \in AdapterRecord
      /\ RecordFits(R[r]) /\ EndsFit(R, A, C) /\ SessionsFit(R, A, C)
      /\ R[r] \in SessionRecord
  BY DEF Fits, Core, Typed, StreamsFit, RecordsFit
<1>2. /\ b.exec = a.exec /\ b.stops = a.stops /\ b.queue = Tail(a.queue)
      /\ m \in Message /\ (Through(a) => Through(b))
      /\ ~Through(a)
      /\ m.no \in 1..a.stops
      /\ \A k : Announced(a, k) => k = m.no \/ Announced(b, k)
      /\ \A i \in 1..Len(b.queue) : b.queue[i].kind = "stopped" => b.queue[i].no > m.no
      /\ \A i \in 1..Len(a.queue) : a.queue[i].kind = "stopped" => a.queue[i].no >= m.no
  BY <1>1, ReadFacts
<1>3. Hears(R[r], a)
  BY <1>1 DEF RecordsHear
<1>4. /\ R[r].session # None /\ R[r].known
      /\ R[r].state # "terminated" /\ R[r].state # "starting"
  BY <1>1, <1>2, Constants DEF RecordFits, EndsFit
<1>5. m.no > R[r].seen
  <2>1. a.queue \in Seq(Message) /\ a.queue # <<>>
    BY <1>1, SMT DEF AdapterRecord
  <2>2. m = a.queue[1] /\ 1 \in 1..Len(a.queue)
    BY <2>1, TailFacts, SMT
  <2> QED
    BY <1>3, <2>2 DEF Hears
<1>6. /\ RecordFits(x) /\ Moves(R[r], x) /\ x.session = v /\ x.known = R[r].known
      /\ x.seen = m.no /\ x.state = "stopped"
  BY <1>1, <1>2, <1>4, <1>5, AfterFacts
<1>7. x \in SessionRecord
  BY <1>6 DEF RecordFits
<1> HIDE DEF m, x, b
<1>8. Core(S, A, C, L, n)
  BY <1>1, <1>4, <1>6, RecordCore
<1>9. /\ S \in [Ref -> SessionRecord] /\ S[r] = x
      /\ \A q \in Ref : q # r => S[q] = R[q]
      /\ \A q \in Ref : Moves(R[q], S[q])
  BY <1>1, <1>6, <1>7, OneMoves
<1> HIDE DEF S
<1>10. Core(S, B, C, L, n)
  BY <1>8, ReadCore DEF b
<1>11. B[v] = b /\ \A w \in Vs : w # v => B[w] = A[w]
  BY <1>1
<1> HIDE DEF B
<1>12. \A q \in Ref : R[q].session = v => q = r
  BY <1>1, <1>4 DEF SessionsFit
<1>13. Hears(x, b)
  <2>1. a.stops \in Int /\ m.no \in Int /\ m.no <= a.stops
    BY <1>1, <1>2, Constants, SMT DEF AdapterRecord, Message
  <2>2. x.seen <= b.stops
    BY <1>2, <1>6, <2>1
  <2>3. ASSUME ~Through(b), NEW k \in 1..b.stops, k > x.seen PROVE Announced(b, k)
    <3>1. k > m.no /\ k \in Int /\ k \in 1..a.stops
      BY <1>2, <1>6, <2>3
    <3>2. R[r].seen \in Int
      BY <1>1, Constants, SMT DEF SessionRecord
    <3>3. k > R[r].seen /\ k # m.no
      BY ONLY <1>5, <2>1, <3>1, <3>2, SMT
    <3>4. Announced(a, k)
      BY <1>2, <1>3, <3>1, <3>3 DEF Hears
    <3> QED
      BY <1>2, <3>3, <3>4
  <2> QED
    BY <1>2, <1>6, <2>2, <2>3 DEF Hears
<1>14. RecordsHear(S, B, C)
  <2>1. ASSUME NEW w \in Vs, NEW q \in Ref, S[q].session = w PROVE Hears(S[q], B[w])
    <3>1. CASE q = r
      BY <1>6, <1>9, <1>11, <1>13, <2>1, <3>1
    <3>2. CASE q # r
      <4>1. S[q] = R[q] /\ R[q].session = w /\ w # v
        BY <1>9, <1>12, <2>1, <3>2
      <4> QED
        BY <1>1, <1>11, <4>1 DEF RecordsHear
    <3> QED
      BY <3>1, <3>2
  <2>2. ASSUME NEW w \in Vs, ~Through(B[w]), \A q \in Ref : S[q].session # w
        PROVE  \/ C[w] # NoRef /\ ~S[C[w]].known
               \/ \A k \in 1..B[w].stops : Announced(B[w], k)
    <3>1. w # v /\ B[w] = A[w]
      BY <1>6, <1>9, <1>11, <2>2
    <3>2. \A q \in Ref : R[q].session # w
      BY <1>6, <1>9, <2>2, <3>1
    <3>3. \/ C[w] # NoRef /\ ~R[C[w]].known
          \/ \A k \in 1..A[w].stops : Announced(A[w], k)
      BY <1>1, <2>2, <3>1, <3>2 DEF RecordsHear
    <3>4. C[w] # NoRef => C[w] \in Ref
      BY <1>1 DEF Core, Typed
    <3>5. \A q \in Ref : S[q].known = R[q].known
      BY <1>6, <1>9
    <3> QED
      BY <3>1, <3>3, <3>4, <3>5
  <2> QED
    BY <2>1, <2>2 DEF RecordsHear
<1> QED
  BY <1>9, <1>10, <1>14 DEF Fits, S, B, b, x, m

\* handleDapMessage: the message is read, and its session may get a record for it.
LEMMA HandleFits ==
    ASSUME NEW R, NEW A, NEW L, NEW n \in Nat, Fits(R, A, Cfg, L, n),
           NEW v \in Vs, A[v].queue # <<>>,
           vs[v].cfg = NoRef /\ Bound(R, v) = NoRef => \E r \in Ref : R[r].state = "none"
    PROVE  LET S == Handle(R, v, Head(A[v].queue)) IN
           /\ Fits(S, [A EXCEPT ![v] = Read(A[v])], Cfg, L, n)
           /\ \A q \in Ref : Moves(R[q], S[q])
           /\ Head(A[v].queue).kind = "reply" =>
                 \A q \in Ref : R[q].state \notin {"none", "starting"} => S[q] = R[q]
<1> DEFINE a == A[v]
           b == Read(A[v])
           B == [A EXCEPT ![v] = b]
           m == Head(A[v].queue)
           T == IF Bound(R, v) = NoRef THEN Bind(R, v) ELSE R
           r == Bound(T, v)
           S == Handle(R, v, m)
<1>1. /\ R \in [Ref -> SessionRecord] /\ A \in [Vs -> AdapterRecord] /\ StreamFits(a)
      /\ a \in AdapterRecord
  BY DEF Fits, Core, Typed, StreamsFit
<1>2. /\ a.phase # "off" /\ m \in Message /\ b.exec = a.exec /\ b.stops = a.stops
      /\ m.kind \in Last => Through(b)
      /\ m.kind = "stopped" => ~Through(a)
      /\ m.kind = "continued" /\ a.exec = "stopped" => Announced(b, b.stops)
  BY <1>1, ReadFacts
<1>3. /\ Fits(T, A, Cfg, L, n) /\ \A q \in Ref : Moves(R[q], T[q])
      /\ (\A q \in Ref : T[q].session # v) =>
            Through(a) \/ (vs[v].cfg # NoRef /\ ~T[vs[v].cfg].known)
      /\ \A q \in Ref : R[q].state \notin {"none", "starting"} => T[q] = R[q]
  <2>1. CASE Bound(R, v) = NoRef
    <3>1. T = Bind(R, v)
      BY <2>1
    <3> QED
      BY <1>2, <3>1, BindFits
  <2>2. CASE Bound(R, v) # NoRef
    <3>1. T = R /\ \E q \in Ref : R[q].session = v
      BY <2>2, BoundFacts
    <3>2. \A q \in Ref : Moves(R[q], R[q])
      BY <1>1, MovesStay
    <3> QED
      BY <3>1, <3>2
  <2> QED
    BY <2>1, <2>2
<1> HIDE DEF T
<1>4. S = CASE r = NoRef -> T
            [] r # NoRef /\ T[r].state = "terminated" -> T
            [] r # NoRef /\ T[r].state # "terminated" /\ m.kind = "rejected" -> Unbind(T, v)
            [] OTHER -> [T EXCEPT ![r] = After(T[r], m)]
  BY DEF Handle, T
<1>5. /\ T \in [Ref -> SessionRecord] /\ EndsFit(T, A, Cfg) /\ SessionsFit(T, A, Cfg)
      /\ \A q \in Ref : RecordFits(T[q])
  BY <1>3 DEF Fits, Core, Typed, RecordsFit
<1>6. /\ r = NoRef => \A q \in Ref : T[q].session # v
      /\ r # NoRef => r \in Ref /\ T[r].session = v
  BY BoundFacts
<1> HIDE DEF m, b, r, S
<1>7. B[v] = b
  BY <1>1
<1>8. SUFFICES /\ Fits(S, B, Cfg, L, n)
               /\ \A q \in Ref : Moves(T[q], S[q])
               /\ m.kind = "reply" => S = T
  <2>1. S \in [Ref -> SessionRecord]
    BY <1>8 DEF Fits, Core, Typed
  <2>2. \A q \in Ref : Moves(R[q], S[q])
    BY <1>1, <1>3, <1>5, <1>8, <2>1, MovesAgain
  <2>3. m.kind = "reply" => \A q \in Ref : R[q].state \notin {"none", "starting"} => S[q] = R[q]
    BY <1>3, <1>8
  <2> QED
    BY <1>8, <2>2, <2>3 DEF S, b, m
<1>9. \A q \in Ref : Moves(T[q], T[q])
  BY <1>5, MovesStay
<1>10. CASE r = NoRef
  <2>1. S = T
    BY <1>4, <1>10
  <2>2. m.kind # "stopped" \/ (Cfg[v] # NoRef /\ ~T[Cfg[v]].known)
    BY <1>2, <1>3, <1>6, <1>10 DEF Cfg
  <2>3. Fits(T, B, Cfg, L, n)
    BY <1>3, <1>6, <1>10, <2>2, ReadFits DEF m, b
  <2> QED
    BY <1>9, <2>1, <2>3
<1>11. CASE r # NoRef /\ T[r].state = "terminated"
  <2>1. S = T
    BY <1>4, <1>11
  <2>2. Through(a)
    BY <1>5, <1>6, <1>11, Constants, ZenonT(40) DEF EndsFit, RecordFits
  <2>3. m.kind # "stopped"
    BY <1>2, <2>2
  <2>4. Fits(T, B, Cfg, L, n)
    BY <1>3, <2>3, ReadFits DEF m, b
  <2> QED
    BY <1>9, <2>1, <2>4
<1>12. CASE r # NoRef /\ T[r].state # "terminated" /\ m.kind = "rejected"
  <2>1. S = Unbind(T, v)
    BY <1>4, <1>12
  <2>2. Fits(T, B, Cfg, L, n)
    BY <1>3, <1>12, ReadFits DEF m, b
  <2>3. Through(B[v])
    BY <1>2, <1>7, <1>12 DEF Last
  <2> QED
    BY <1>12, <2>1, <2>2, <2>3, UnbindFits
<1>13. CASE r # NoRef /\ T[r].state # "terminated" /\ m.kind # "rejected"
  <2> DEFINE x == After(T[r], m)
  <2>1. S = [T EXCEPT ![r] = x]
    BY <1>4, <1>13
  <2>2. CASE m.kind = "stopped"
    <3>1. LET U == [T EXCEPT ![r] = After(T[r], Head(A[v].queue))] IN
          /\ Fits(U, [A EXCEPT ![v] = Read(A[v])], Cfg, L, n)
          /\ \A q \in Ref : Moves(T[q], U[q])
      BY <1>3, <1>6, <1>13, <2>2, ReadStop DEF m
    <3> QED
      BY <2>1, <2>2, <3>1 DEF m, b
  <2>3. CASE m.kind # "stopped"
    <3>1. Fits(T, B, Cfg, L, n)
      BY <1>3, <2>3, ReadFits DEF m, b
    <3>2. /\ r \in Ref /\ T[r].session = v /\ T[r].session # None
          /\ T[r].state # "starting" /\ T[r].known /\ RecordFits(T[r])
      BY <1>5, <1>6, <1>13, Constants DEF RecordFits
    <3>3. /\ RecordFits(x) /\ Moves(T[r], x) /\ x.session = v /\ x.known
          /\ x.seen = T[r].seen
          /\ m.kind = "ended" => x.state = "terminated"
          /\ m.kind = "continued" => x.state = "running"
          /\ m.kind \notin {"ended", "continued"} => x.state = T[r].state
          /\ m.kind = "reply" => x = T[r]
      BY <1>2, <1>13, <2>3, <3>2, AfterFacts
    <3> HIDE DEF x
    <3>4. Hears(T[r], b)
      <4>1. RecordsHear(T, B, Cfg)
        BY <3>1 DEF Fits
      <4> QED
        BY <1>7, <3>2, <4>1 DEF RecordsHear
    <3>5. Hears(x, b)
      <4>1. x.state = "running" /\ b.exec = "stopped" /\ ~Through(b) => Announced(b, b.stops)
        BY <1>2, <3>3, <3>4 DEF Hears
      <4> QED
        BY <3>3, <3>4, <4>1 DEF Hears
    <3>6. SessionsFit(T, B, Cfg)
      BY <3>1 DEF Fits, Core
    <3>7. \A w \in Vs : T[r].session = w \/ Cfg[w] = r => w = v
      BY <3>2, <3>6, Constants DEF SessionsFit
    <3>8. x.state = "terminated" => Through(B[v])
      BY <1>2, <1>7, <1>13, <3>3 DEF Last
    <3>9. LET U == [T EXCEPT ![r] = x] IN
          Fits(U, B, Cfg, L, n) /\ \A q \in Ref : Moves(T[q], U[q])
      <4> HIDE DEF B
      <4>1. \A w \in Vs : x.session = w => Hears(x, B[w])
        BY <1>7, <3>3, <3>5
      <4>2. x.state = "terminated" /\ x.known =>
               \A w \in Vs : T[r].session = w \/ Cfg[w] = r => Through(B[w])
        BY <3>7, <3>8
      <4>3. \A w \in Vs : ~(T[r].session = w /\ x.session # w)
        BY <3>2, <3>3
      <4>4. x.session \in {None, T[r].session}
        BY <3>2, <3>3
      <4> QED
        BY <3>1, <3>2, <3>3, <4>1, <4>2, <4>3, <4>4, RecordMoves
    <3>10. m.kind = "reply" => [T EXCEPT ![r] = x] = T
      BY <1>5, <3>3
    <3> QED
      BY <2>1, <3>9, <3>10
  <2> QED
    BY <2>2, <2>3
<1> QED
  BY <1>10, <1>11, <1>12, <1>13

-----------------------------------------------------------------------------
(* Steps *)

LEMMA InvFacts ==
    ASSUME ControllerInv
    PROVE  /\ rec \in [Ref -> SessionRecord] /\ adapter \in [Vs -> AdapterRecord]
           /\ call \in [Caller -> Call] /\ vs \in [Vs -> VsRecord] /\ made \in Nat
           /\ made \in Int /\ MaxCalls \in Int /\ made \in 0..MaxCalls
           /\ targets \in [Target -> {"none", "live", "gone"}] /\ finalizing \subseteq Vs
           /\ Fits(rec, adapter, Cfg, call, made) /\ RecordsFit(rec)
           /\ SessionsFit(rec, adapter, Cfg) /\ EndsFit(rec, adapter, Cfg)
           /\ StreamsFit(adapter) /\ RepliesFit(rec, adapter, call)
           /\ CallsFit(rec, adapter, call, made) /\ LaunchesFit(rec, Cfg, call)
           /\ RecordsHear(rec, adapter, Cfg) /\ FinalizingFits(vs, finalizing, adapter)
           /\ TargetsFit(rec, call, targets) /\ WaitsMissNothing /\ NoOrphanBreakpoints
           /\ \A v \in Vs : Cfg[v] = vs[v].cfg
<1>1. /\ Tables /\ Fits(rec, adapter, Cfg, call, made)
      /\ FinalizingFits(vs, finalizing, adapter)
      /\ TargetsFit(rec, call, targets) /\ WaitsMissNothing /\ NoOrphanBreakpoints
  BY DEF ControllerInv
<1>2. /\ Typed(rec, adapter, Cfg, call) /\ RecordsFit(rec)
      /\ SessionsFit(rec, adapter, Cfg) /\ EndsFit(rec, adapter, Cfg)
      /\ StreamsFit(adapter) /\ RepliesFit(rec, adapter, call)
      /\ CallsFit(rec, adapter, call, made) /\ LaunchesFit(rec, Cfg, call)
      /\ RecordsHear(rec, adapter, Cfg)
  BY <1>1 DEF Fits, Core
<1>3. /\ rec \in [Ref -> SessionRecord] /\ adapter \in [Vs -> AdapterRecord]
      /\ call \in [Caller -> Call]
  BY <1>2 DEF Typed
<1>4. /\ vs \in [Vs -> VsRecord] /\ finalizing \subseteq Vs /\ made \in 0..MaxCalls
      /\ targets \in [Target -> {"none", "live", "gone"}]
  BY <1>1 DEF Tables
<1>5. made \in Nat /\ made \in Int /\ MaxCalls \in Int
  BY <1>4, Constants, SMT
<1>6. \A v \in Vs : Cfg[v] = vs[v].cfg
  BY DEF Cfg
<1> QED
  BY <1>1, <1>2, <1>3, <1>4, <1>5, <1>6

LEMMA NoCallFits ==
    ASSUME NEW R, NEW A, NEW n
    PROVE  NoCall \in Call /\ CallFits(NoCall, R, n) /\ ResumeFits(NoCall, R, A)
<1>1. NoCall \in Call
  BY ControllerAssumption, SMT DEF NoCall, Call
<1>2. NoCall.op = "none" /\ NoCall.pc = "idle"
  BY DEF NoCall
<1> QED
  BY <1>1, <1>2 DEF CallFits, ResumeFits

\* The references that a step leaves as they are
LEMMA TargetsStay ==
    ASSUME NEW R, NEW L, NEW T, TargetsFit(R, L, T), NEW S, NEW L2,
           \A r \in Ref : S[r].target = R[r].target,
           \A c \in Caller : L2[c].pc = "revalidate" => L2[c] = L[c]
    PROVE  TargetsFit(S, L2, T)
<1>1. ASSUME NEW c \in Caller, L2[c].pc = "revalidate"
      PROVE  /\ L2[c].target \in Target /\ T[L2[c].target] = "gone"
             /\ \A r \in Ref : S[r].target # L2[c].target
             /\ \A d \in Caller : L2[d].pc = "revalidate" /\ L2[d].target = L2[c].target => c = d
  <2>1. /\ L[c].target \in Target /\ T[L[c].target] = "gone"
        /\ \A r \in Ref : R[r].target # L[c].target
        /\ \A d \in Caller : L[d].pc = "revalidate" /\ L[d].target = L[c].target => c = d
    BY <1>1 DEF TargetsFit
  <2> QED
    BY <1>1, <2>1
<1> QED
  BY <1>1 DEF TargetsFit

LEMMA MovesTarget ==
    ASSUME NEW R, NEW S, \A r \in Ref : Moves(R[r], S[r])
    PROVE  \A r \in Ref : S[r].target = R[r].target
BY DEF Moves

\* A wait that a step neither starts nor ends goes on, if its record has no new event.
LEMMA WaitsStay ==
    ASSUME WaitsMissNothing,
           \A c \in Caller : call'[c].pc = "waiting" =>
              /\ call'[c] = call[c]
              /\ rec'[call[c].ref].known
              /\ rec'[call[c].ref].cursor = rec[call[c].ref].cursor
              /\ Moves(rec[call[c].ref], rec'[call[c].ref])
    PROVE  WaitsMissNothing'
<1> SUFFICES ASSUME NEW c \in Caller, call'[c].pc = "waiting"
             PROVE  /\ rec'[call'[c].ref].known
                    /\ call'[c].op = "wait" => call'[c].mark = rec'[call'[c].ref].cursor
                    /\ call'[c].op = "ready" =>
                          ~rec'[call'[c].ref].ready /\ rec'[call'[c].ref].state # "stopped"
  BY DEF WaitsMissNothing
<1> DEFINE a == rec[call[c].ref]
           b == rec'[call[c].ref]
<1>1. call'[c] = call[c] /\ b.known /\ b.cursor = a.cursor /\ Moves(a, b)
  OBVIOUS
<1>2. /\ a.known /\ (call[c].op = "wait" => call[c].mark = a.cursor)
      /\ call[c].op = "ready" => ~a.ready /\ a.state # "stopped"
  BY <1>1 DEF WaitsMissNothing
<1> HIDE DEF a, b
<1>3. (b.ready => a.ready) /\ (b.state = "stopped" => a.state = "stopped")
  BY <1>1, <1>2 DEF Moves
<1>4. /\ b.known /\ (call[c].op = "wait" => call[c].mark = b.cursor)
      /\ call[c].op = "ready" => ~b.ready /\ b.state # "stopped"
  BY <1>1, <1>2, <1>3
<1> QED
  BY <1>1, <1>4 DEF b

\* The waiters an event wakes go; those that stay have missed nothing.
LEMMA NotifyFits ==
    ASSUME NEW A, NEW C, NEW L, NEW n \in Nat, Fits(rec', A, C, L, n), Notify(L),
           WaitsMissNothing, rec \in [Ref -> SessionRecord],
           \A r \in Ref : Moves(rec[r], rec'[r]),
           \A c \in Caller : L[c].pc = "waiting" => L[c] = call[c]
    PROVE  /\ Fits(rec', A, C, call', n) /\ WaitsMissNothing'
           /\ \A c \in Caller : call'[c] = L[c] \/ call'[c] = NoCall
<1> DEFINE gone(c) == L[c].pc = "waiting" /\ Woken(L[c].ref) /\ Settled(L[c])
<1>1. call' = [c \in Caller |-> IF gone(c) THEN NoCall ELSE L[c]]
  BY DEF Notify
<1>2. /\ L \in [Caller -> Call] /\ LaunchesFit(rec', C, L) /\ RepliesFit(rec', A, L)
      /\ CallsFit(rec', A, L, n)
  BY DEF Fits, Core, Typed
<1> HIDE DEF gone
<1>3. \A c \in Caller : \/ call'[c] = L[c] /\ ~gone(c)
                        \/ call'[c] = NoCall /\ L[c].pc = "waiting"
  BY <1>1 DEF gone
<1>4. call' \in [Caller -> Call]
  BY <1>1, <1>2, NoCallFits
<1>5. NoCall.pc = "idle"
  BY DEF NoCall
<1>6. LaunchesFit(rec', C, call')
  BY <1>2, <1>3, <1>5, LaunchesStay
<1>7. ASSUME NEW d \in Caller
      PROVE  \/ call'[d] = L[d]
             \/ /\ CallFits(call'[d], rec', n) /\ ResumeFits(call'[d], rec', A)
                /\ \A v \in Vs : \A i \in 1..Len(A[v].queue) :
                      A[v].queue[i].kind = "reply" => A[v].queue[i].call # d
  BY <1>2, <1>3, NoCallFits, NoReplies
<1>8. Fits(rec', A, C, call', n)
  BY <1>4, <1>6, <1>7, CallsMove
<1>9. ASSUME NEW c \in Caller, call'[c].pc = "waiting"
      PROVE  /\ call'[c] = call[c]
             /\ rec'[call[c].ref].known
             /\ call[c].op = "wait" => call[c].mark = rec'[call[c].ref].cursor
             /\ call[c].op = "ready" =>
                   ~rec'[call[c].ref].ready /\ rec'[call[c].ref].state # "stopped"
  <2> DEFINE a == rec[call[c].ref]
             b == rec'[call[c].ref]
  <2>1. call'[c] = L[c] /\ L[c] = call[c] /\ ~gone(c)
    BY <1>3, <1>5, <1>9
  <2>2. call[c].ref \in Ref /\ call[c].op \in {"wait", "ready"}
    BY <1>2, <1>9, <2>1 DEF CallsFit, CallFits
  <2>3. Moves(a, b)
    BY <2>2
  <2>4. /\ a.known /\ (call[c].op = "wait" => call[c].mark = a.cursor)
        /\ call[c].op = "ready" => ~a.ready /\ a.state # "stopped"
    BY <1>9, <2>1 DEF WaitsMissNothing
  <2>5. ~Woken(call[c].ref) \/ ~Settled(call[c])
    BY <1>9, <2>1 DEF gone
  <2>6. Woken(call[c].ref) <=> b.cursor # a.cursor \/ b.known # a.known
    BY DEF Woken
  <2>7. Settled(call[c]) <=> \/ call[c].op = "wait"
                             \/ call[c].op = "ready" /\ (b.ready \/ b.state \in {"stopped"} \cup Dead)
    BY DEF Settled
  <2> HIDE DEF a, b
  <2>8. CASE b.cursor = a.cursor /\ b.known = a.known
    <3>1. b.known
      BY <2>4, <2>8
    <3>2. (b.ready => a.ready) /\ (b.state = "stopped" => a.state = "stopped")
      BY <2>3, <2>4, <2>8, <3>1 DEF Moves
    <3>3. /\ call[c].op = "wait" => call[c].mark = b.cursor
          /\ call[c].op = "ready" => ~b.ready /\ b.state # "stopped"
      BY <2>4, <2>8, <3>2
    <3> QED
      BY <2>1, <3>1, <3>3 DEF b
  <2>9. CASE ~(b.cursor = a.cursor /\ b.known = a.known)
    <3>1. call[c].op = "ready" /\ ~b.ready /\ b.state \notin {"stopped"} \cup Dead
      BY <2>2, <2>5, <2>6, <2>7, <2>9
    <3>2. b.known
      BY <2>3, <2>4, <3>1 DEF Moves, Dead
    <3> QED
      BY <2>1, <3>1, <3>2 DEF b
  <2> QED
    BY <2>8, <2>9
<1>10. WaitsMissNothing'
  BY <1>9 DEF WaitsMissNothing
<1> QED
  BY <1>3, <1>8, <1>10

\* The calls after a step of one of them, the records and adapters being as they were
LEMMA CallsStep ==
    ASSUME ControllerInv, NEW c \in Caller, call' \in [Caller -> Call],
           \A d \in Caller : d # c => call'[d] = call[d],
           made' \in Nat, made <= made', call[c].pc \notin {"served", "executed"},
           call'[c].pc # "launch",
           CallFits(call'[c], rec, made'), ResumeFits(call'[c], rec, adapter)
    PROVE  Fits(rec, adapter, Cfg, call', made')
<1>1. LaunchesFit(rec, Cfg, call')
  <2>1. LaunchesFit(rec, Cfg, call)
    BY InvFacts
  <2> QED
    BY <2>1, LaunchesStay
<1>2. ASSUME NEW d \in Caller
      PROVE  \/ call'[d] = call[d]
             \/ /\ CallFits(call'[d], rec, made') /\ ResumeFits(call'[d], rec, adapter)
                /\ \A v \in Vs : \A i \in 1..Len(adapter[v].queue) :
                      adapter[v].queue[i].kind = "reply" => adapter[v].queue[i].call # d
  <2>1. CASE d = c
    BY <2>1, InvFacts, NoReplies
  <2>2. CASE d # c
    BY <2>2
  <2> QED
    BY <2>1, <2>2
<1>3. Fits(rec, adapter, Cfg, call, made) /\ made \in Nat
  BY InvFacts
<1> QED
  BY <1>1, <1>2, <1>3, CallsMove

\* A step of one call that leaves the records alone
LEMMA CallStep ==
    ASSUME ControllerInv, NEW c \in Caller, call' \in [Caller -> Call],
           \A d \in Caller : d # c => call'[d] = call[d],
           UNCHANGED <<rec, vs, finalizing, adapter>>,
           made' \in Nat, made <= made', call[c].pc \notin {"served", "executed"},
           call'[c].pc # "launch",
           CallFits(call'[c], rec, made'), ResumeFits(call'[c], rec, adapter),
           call'[c].pc = "waiting" =>
              /\ rec[call'[c].ref].known
              /\ call'[c].op = "wait" => call'[c].mark = rec[call'[c].ref].cursor
              /\ call'[c].op = "ready" =>
                    ~rec[call'[c].ref].ready /\ rec[call'[c].ref].state # "stopped"
    PROVE  /\ Fits(rec', adapter', Cfg', call', made') /\ WaitsMissNothing'
           /\ FinalizingFits(vs', finalizing', adapter')
<1>1. /\ rec' = rec /\ adapter' = adapter /\ Cfg' = Cfg /\ vs' = vs /\ finalizing' = finalizing
  BY DEF Cfg
<1>5. Fits(rec, adapter, Cfg, call', made')
  BY CallsStep
<1>6. WaitsMissNothing'
  <2> SUFFICES ASSUME NEW d \in Caller, call'[d].pc = "waiting"
               PROVE  /\ rec'[call'[d].ref].known
                      /\ call'[d].op = "wait" => call'[d].mark = rec'[call'[d].ref].cursor
                      /\ call'[d].op = "ready" =>
                            ~rec'[call'[d].ref].ready /\ rec'[call'[d].ref].state # "stopped"
    BY DEF WaitsMissNothing
  <2>1. CASE d = c
    BY <1>1, <2>1
  <2>2. CASE d # c
    <3>1. WaitsMissNothing /\ call'[d] = call[d]
      BY <2>2, InvFacts
    <3> QED
      BY <1>1, <3>1 DEF WaitsMissNothing
  <2> QED
    BY <2>1, <2>2
<1>7. FinalizingFits(vs, finalizing, adapter)
  BY InvFacts
<1> QED
  BY <1>1, <1>5, <1>6, <1>7

\* ... and neither the references nor the breakpoints
LEMMA CallStepInv ==
    ASSUME ControllerInv, NEW c \in Caller, call' \in [Caller -> Call],
           \A d \in Caller : d # c => call'[d] = call[d],
           UNCHANGED <<targets, rec, breakpoints, vs, finalizing, adapter>>,
           made' \in 0..MaxCalls, made <= made', call[c].pc \notin {"served", "executed"},
           call'[c].pc \notin {"launch", "revalidate"},
           CallFits(call'[c], rec, made'), ResumeFits(call'[c], rec, adapter),
           call'[c].pc = "waiting" =>
              /\ rec[call'[c].ref].known
              /\ call'[c].op = "wait" => call'[c].mark = rec[call'[c].ref].cursor
              /\ call'[c].op = "ready" =>
                    ~rec[call'[c].ref].ready /\ rec[call'[c].ref].state # "stopped"
    PROVE  ControllerInv'
<1>1. /\ targets' = targets /\ rec' = rec /\ owned' = owned /\ editor' = editor
      /\ vs' = vs /\ finalizing' = finalizing /\ adapter' = adapter
  BY DEF breakpoints
<1>2. made' \in Nat
  BY InvFacts, SMT
<1>3. /\ Fits(rec', adapter', Cfg', call', made') /\ WaitsMissNothing'
      /\ FinalizingFits(vs', finalizing', adapter')
  BY <1>1, <1>2, CallStep
<1>4. TargetsFit(rec', call', targets')
  <2>1. TargetsFit(rec, call, targets)
    BY InvFacts
  <2>2. \A d \in Caller : call'[d].pc = "revalidate" => call'[d] = call[d]
    OBVIOUS
  <2>3. TargetsFit(rec, call', targets)
    BY <2>1, <2>2, TargetsStay
  <2> QED
    BY <1>1, <2>3
<1>5. Tables'
  BY <1>1 DEF ControllerInv, Tables
<1>6. NoOrphanBreakpoints'
  BY <1>1 DEF ControllerInv, NoOrphanBreakpoints
<1> QED
  BY <1>3, <1>4, <1>5, <1>6 DEF ControllerInv

LEMMA CallFieldFacts ==
    ASSUME NEW g \in [Caller -> Call], NEW c \in Caller, NEW cl \in Call
    PROVE  LET h == [g EXCEPT ![c] = cl] IN
           h \in [Caller -> Call] /\ h[c] = cl /\ \A d \in Caller : d # c => h[d] = g[d]
OBVIOUS

\* A call that returns, or is given up, is forgotten.
LEMMA ReplyInv ==
    ASSUME ControllerInv, NEW c \in Caller, Reply(c),
           call[c].pc \notin {"served", "executed"},
           UNCHANGED <<targets, rec, made, breakpoints, vs, finalizing, adapter>>
    PROVE  ControllerInv'
<1>1. call' = [call EXCEPT ![c] = NoCall]
  BY DEF Reply
<1>2. /\ call' \in [Caller -> Call] /\ call'[c] = NoCall
      /\ \A d \in Caller : d # c => call'[d] = call[d]
  BY <1>1, NoCallFits, InvFacts
<1>3. NoCall.pc = "idle"
  BY DEF NoCall
<1>4. /\ made' \in 0..MaxCalls /\ made <= made' /\ made' = made
  BY InvFacts, SMT
<1>5. CallFits(call'[c], rec, made') /\ ResumeFits(call'[c], rec, adapter)
  BY <1>2, NoCallFits
<1> QED
  BY <1>2, <1>3, <1>4, <1>5, CallStepInv

\* Each of the four ways in which a call is over without touching a record
LEMMA TargetChangedStep ==
    ASSUME ControllerInv, NEW c \in Caller, TargetChanged(c) PROVE ControllerInv'
<1>1. /\ call[c].pc = "revalidate" /\ Reply(c)
      /\ UNCHANGED <<targets, rec, made, breakpoints, vs, finalizing, adapter>>
  BY DEF TargetChanged
<1> QED
  BY <1>1, ReplyInv

LEMMA LaunchedStep ==
    ASSUME ControllerInv, NEW c \in Caller, Launched(c) PROVE ControllerInv'
<1>1. /\ call[c].pc = "launch" /\ Reply(c)
      /\ UNCHANGED <<targets, rec, made, breakpoints, vs, finalizing, adapter>>
  BY DEF Launched
<1> QED
  BY <1>1, ReplyInv

LEMMA WaitEndsStep ==
    ASSUME ControllerInv, NEW c \in Caller, WaitEnds(c) PROVE ControllerInv'
<1>1. /\ call[c].pc = "waiting" /\ Reply(c)
      /\ UNCHANGED <<targets, rec, made, breakpoints, vs, finalizing, adapter>>
  BY DEF WaitEnds
<1> QED
  BY <1>1, ReplyInv

LEMMA BreakpointsRefusedStep ==
    ASSUME ControllerInv, NEW c \in Caller, BreakpointsRefused(c) PROVE ControllerInv'
<1>1. /\ call[c].pc = "resolving" /\ Reply(c)
      /\ UNCHANGED <<targets, rec, made, breakpoints, vs, finalizing, adapter>>
  BY DEF BreakpointsRefused
<1> QED
  BY <1>1, ReplyInv

-----------------------------------------------------------------------------
(* New calls *)

Ops == {"none", "start", "wait", "ready", "inspect", "resume", "pause", "disconnect",
        "breakpoints"}
Pcs == {"idle", "revalidate", "launch", "waiting", "asked", "served", "answered", "sent",
        "executed", "settled", "stopping", "resolving", "returned"}

\* The calls the handlers begin with, one field after the other
CallPc(o, p) == [NoCall EXCEPT !.op = o, !.pc = p]
CallTarget(o, p, t) == [CallPc(o, p) EXCEPT !.target = t]
CallMark(o, p, m) == [CallPc(o, p) EXCEPT !.mark = m]
CallRef(o, p, r) == [CallPc(o, p) EXCEPT !.ref = r]
CallRefMark(o, p, r, m) == [CallRef(o, p, r) EXCEPT !.mark = m]
CallNamed(o, p, r, m, n) == [CallRefMark(o, p, r, m) EXCEPT !.named = n]
CallLeft(o, p, r, m, n, l) == [CallNamed(o, p, r, m, n) EXCEPT !.left = l]

LEMMA NewPc ==
    ASSUME NEW o \in Ops, NEW p \in Pcs
    PROVE  LET cl == CallPc(o, p) IN
           cl \in Call /\ cl.op = o /\ cl.pc = p
<1> DEFINE a == [NoCall EXCEPT !.op = o]
<1>1. a \in Call /\ a.op = o
  BY NoCallFits, SMT DEF Call, Ops
<1> HIDE DEF a
<1>2. LET b == [a EXCEPT !.pc = p] IN b \in Call /\ b.op = o /\ b.pc = p
  BY <1>1, SMT DEF Call, Pcs
<1> QED
  BY <1>2, Zenon DEF a, CallPc

LEMMA NewTarget ==
    ASSUME NEW o \in Ops, NEW p \in Pcs, NEW t \in Target
    PROVE  LET cl == CallTarget(o, p, t) IN
           /\ cl \in Call /\ cl.op = o /\ cl.pc = p
           /\ cl.target = t
<1> DEFINE a == CallPc(o, p)
<1>1. a \in Call /\ a.op = o /\ a.pc = p
  BY NewPc
<1> HIDE DEF a
<1>2. LET b == [a EXCEPT !.target = t] IN
      /\ b \in Call /\ b.op = o /\ b.pc = p
      /\ b.target = t
  BY <1>1, SMT DEF Call
<1> QED
  BY <1>2, Zenon DEF a, CallTarget

LEMMA NewMark ==
    ASSUME NEW o \in Ops, NEW p \in Pcs, NEW m \in Nat
    PROVE  LET cl == CallMark(o, p, m) IN
           /\ cl \in Call /\ cl.op = o /\ cl.pc = p
           /\ cl.mark = m
<1> DEFINE a == CallPc(o, p)
<1>1. a \in Call /\ a.op = o /\ a.pc = p
  BY NewPc
<1> HIDE DEF a
<1>2. LET b == [a EXCEPT !.mark = m] IN
      /\ b \in Call /\ b.op = o /\ b.pc = p
      /\ b.mark = m
  BY <1>1, SMT DEF Call
<1> QED
  BY <1>2, Zenon DEF a, CallMark

LEMMA NewRef ==
    ASSUME NEW o \in Ops, NEW p \in Pcs, NEW r \in Ref
    PROVE  LET cl == CallRef(o, p, r) IN
           /\ cl \in Call /\ cl.op = o /\ cl.pc = p
           /\ cl.ref = r
<1> DEFINE a == CallPc(o, p)
<1>1. a \in Call /\ a.op = o /\ a.pc = p
  BY NewPc
<1> HIDE DEF a
<1>2. LET b == [a EXCEPT !.ref = r] IN
      /\ b \in Call /\ b.op = o /\ b.pc = p
      /\ b.ref = r
  BY <1>1, SMT DEF Call
<1> QED
  BY <1>2, Zenon DEF a, CallRef

LEMMA NewRefMark ==
    ASSUME NEW o \in Ops, NEW p \in Pcs, NEW r \in Ref, NEW m \in Nat
    PROVE  LET cl == CallRefMark(o, p, r, m) IN
           /\ cl \in Call /\ cl.op = o /\ cl.pc = p
           /\ cl.ref = r /\ cl.mark = m
<1> DEFINE a == CallRef(o, p, r)
<1>1. a \in Call /\ a.op = o /\ a.pc = p /\ a.ref = r
  BY NewRef
<1> HIDE DEF a
<1>2. LET b == [a EXCEPT !.mark = m] IN
      /\ b \in Call /\ b.op = o /\ b.pc = p
      /\ b.ref = r /\ b.mark = m
  BY <1>1, SMT DEF Call
<1> QED
  BY <1>2, Zenon DEF a, CallRefMark

LEMMA NewNamed ==
    ASSUME NEW o \in Ops, NEW p \in Pcs, NEW r \in Ref, NEW m \in Nat, NEW n \in Nat
    PROVE  LET cl == CallNamed(o, p, r, m, n) IN
           /\ cl \in Call /\ cl.op = o /\ cl.pc = p
           /\ cl.ref = r /\ cl.mark = m /\ cl.named = n
<1> DEFINE a == CallRefMark(o, p, r, m)
<1>1. a \in Call /\ a.op = o /\ a.pc = p /\ a.ref = r /\ a.mark = m
  BY NewRefMark
<1> HIDE DEF a
<1>2. LET b == [a EXCEPT !.named = n] IN
      /\ b \in Call /\ b.op = o /\ b.pc = p
      /\ b.ref = r /\ b.mark = m /\ b.named = n
  BY <1>1, SMT DEF Call
<1> QED
  BY <1>2, Zenon DEF a, CallNamed

LEMMA NewLeft ==
    ASSUME NEW o \in Ops, NEW p \in Pcs, NEW r \in Ref, NEW m \in Nat, NEW n \in Nat, NEW l \in 0..MaxRequests
    PROVE  LET cl == CallLeft(o, p, r, m, n, l) IN
           /\ cl \in Call /\ cl.op = o /\ cl.pc = p
           /\ cl.ref = r /\ cl.mark = m /\ cl.named = n
<1> DEFINE a == CallNamed(o, p, r, m, n)
<1>1. a \in Call /\ a.op = o /\ a.pc = p /\ a.ref = r /\ a.mark = m /\ a.named = n
  BY NewNamed
<1> HIDE DEF a
<1>2. LET b == [a EXCEPT !.left = l] IN
      /\ b \in Call /\ b.op = o /\ b.pc = p
      /\ b.ref = r /\ b.mark = m /\ b.named = n
  BY <1>1, SMT DEF Call
<1> QED
  BY <1>2, Zenon DEF a, CallLeft

LEMMA NewCallFacts ==
    ASSUME ControllerInv, NEW c \in Caller, MayCall(c), NEW cl \in Call, NewCall(c, cl)
    PROVE  /\ call' \in [Caller -> Call] /\ call'[c] = cl
           /\ \A d \in Caller : d # c => call'[d] = call[d]
           /\ made' \in 0..MaxCalls /\ made <= made' /\ made' \in 1..made' /\ made' = made + 1
           /\ made' \in Nat /\ call[c].pc \notin {"served", "executed"}
<1>1. call' = [call EXCEPT ![c] = cl] /\ made' = made + 1 /\ made < MaxCalls
      /\ call[c].pc \in {"idle", "returned"}
  BY DEF NewCall, MayCall
<1>2. made \in Nat /\ made \in Int /\ MaxCalls \in Int
  BY InvFacts
<1>3. /\ made' \in 0..MaxCalls /\ made <= made' /\ made' \in 1..made' /\ made' \in Nat
  BY <1>1, <1>2, SMT
<1>4. call \in [Caller -> Call]
  BY InvFacts
<1> QED
  BY <1>1, <1>3, <1>4

LEMMA WaitForExecutionStep ==
    ASSUME ControllerInv, NEW c \in Caller, NEW r \in Ref, WaitForExecution(c, r)
    PROVE  ControllerInv'
<1> DEFINE cl == [NoCall EXCEPT !.op = "wait", !.pc = "waiting", !.ref = r,
                                !.mark = rec[r].cursor]
<1>1. /\ MayCall(c) /\ rec[r].known /\ NewCall(c, cl)
      /\ UNCHANGED <<targets, rec, breakpoints, vs, finalizing, adapter>>
  BY DEF WaitForExecution
<1>2. rec[r].cursor \in Nat
  BY InvFacts, SMT DEF SessionRecord
<1>0. cl = CallRefMark("wait", "waiting", r, rec[r].cursor)
  BY DEF CallRefMark, CallRef, CallPc
<1> HIDE DEF cl
<1>a. "wait" \in Ops /\ "waiting" \in Pcs
  BY DEF Ops, Pcs
<1>3. /\ cl \in Call /\ cl.op = "wait" /\ cl.pc = "waiting" /\ cl.ref = r
      /\ cl.mark = rec[r].cursor
  BY <1>0, <1>a, <1>2, NewRefMark
<1>4. /\ call' \in [Caller -> Call] /\ call'[c] = cl
      /\ \A d \in Caller : d # c => call'[d] = call[d]
      /\ made' \in 0..MaxCalls /\ made <= made' /\ call[c].pc \notin {"served", "executed"}
  BY <1>1, <1>3, NewCallFacts
<1>5. CallFits(cl, rec, made') /\ ResumeFits(cl, rec, adapter)
  BY <1>3 DEF CallFits, ResumeFits
<1> QED
  BY <1>1, <1>3, <1>4, <1>5, CallStepInv

LEMMA WaitForReadyStep ==
    ASSUME ControllerInv, NEW c \in Caller, NEW r \in Ref, WaitForReady(c, r)
    PROVE  ControllerInv'
<1> DEFINE cl == [NoCall EXCEPT !.op = "ready", !.pc = "waiting", !.ref = r]
<1>1. /\ MayCall(c) /\ rec[r].known /\ NewCall(c, cl)
      /\ ~rec[r].ready /\ rec[r].state \in {"starting", "running"}
      /\ UNCHANGED <<targets, rec, breakpoints, vs, finalizing, adapter>>
  BY DEF WaitForReady
<1>0. cl = CallRef("ready", "waiting", r)
  BY DEF CallRef, CallPc
<1> HIDE DEF cl
<1>a. "ready" \in Ops /\ "waiting" \in Pcs
  BY DEF Ops, Pcs
<1>3. cl \in Call /\ cl.op = "ready" /\ cl.pc = "waiting" /\ cl.ref = r
  BY <1>0, <1>a, NewRef
<1>4. /\ call' \in [Caller -> Call] /\ call'[c] = cl
      /\ \A d \in Caller : d # c => call'[d] = call[d]
      /\ made' \in 0..MaxCalls /\ made <= made' /\ call[c].pc \notin {"served", "executed"}
  BY <1>1, <1>3, NewCallFacts
<1>5. CallFits(cl, rec, made') /\ ResumeFits(cl, rec, adapter)
  BY <1>3 DEF CallFits, ResumeFits
<1> QED
  BY <1>1, <1>3, <1>4, <1>5, CallStepInv

\* A call about a stop holds the stop it is about.
LEMMA StopCallFits ==
    ASSUME ControllerInv, NEW r \in Ref, NEW epoch, Current(r, epoch), NEW cl, NEW n,
           cl.op \in {"inspect", "resume"}, cl.ref = r, cl.mark = epoch,
           cl.named = rec[r].seen, cl.pc \in {"asked", "sent"},
           cl.pc = "sent" => cl.op = "resume"
    PROVE  CallFits(cl, rec, n) /\ ResumeFits(cl, rec, adapter)
<1>1. rec[r].state = "stopped" /\ rec[r].epoch = epoch /\ rec[r].epoch \in Int
  <2>1. rec[r] \in SessionRecord
    BY InvFacts
  <2> QED
    BY <2>1, Constants, SMT DEF Current, SessionRecord
<1>2. cl.mark <= rec[cl.ref].epoch
  BY <1>1, SMT
<1>3. rec[cl.ref].state \notin {"none", "starting"}
  BY <1>1
<1> QED
  BY <1>1, <1>2, <1>3 DEF CallFits, ResumeFits

LEMMA AskStep ==
    ASSUME ControllerInv, NEW c \in Caller, NEW r \in Ref, NEW epoch,
           NEW requests \in {1, MaxRequests}, Ask(c, r, epoch, requests)
    PROVE  ControllerInv'
<1> DEFINE cl == [NoCall EXCEPT !.op = "inspect", !.pc = "asked", !.ref = r, !.mark = epoch,
                                !.named = rec[r].seen, !.left = requests]
<1>1. /\ MayCall(c) /\ Current(r, epoch) /\ NewCall(c, cl)
      /\ UNCHANGED <<targets, rec, breakpoints, vs, finalizing, adapter>>
  BY DEF Ask
<1>2. /\ rec[r].seen \in Nat /\ epoch \in Nat /\ requests \in 0..MaxRequests
  <2>1. rec[r] \in SessionRecord /\ rec[r].epoch = epoch
    BY <1>1, InvFacts DEF Current
  <2> QED
    BY <2>1, ControllerAssumption, Constants, SMT DEF SessionRecord
<1>0. cl = CallLeft("inspect", "asked", r, epoch, rec[r].seen, requests)
  BY DEF CallLeft, CallNamed, CallRefMark, CallRef, CallPc
<1> HIDE DEF cl
<1>a. "inspect" \in Ops /\ "asked" \in Pcs
  BY DEF Ops, Pcs
<1>3. /\ cl \in Call /\ cl.op = "inspect" /\ cl.pc = "asked" /\ cl.ref = r
      /\ cl.mark = epoch /\ cl.named = rec[r].seen
  BY <1>0, <1>a, <1>2, NewLeft
<1>4. /\ call' \in [Caller -> Call] /\ call'[c] = cl
      /\ \A d \in Caller : d # c => call'[d] = call[d]
      /\ made' \in 0..MaxCalls /\ made <= made' /\ call[c].pc \notin {"served", "executed"}
  BY <1>1, <1>3, NewCallFacts
<1>5. CallFits(cl, rec, made') /\ ResumeFits(cl, rec, adapter)
  BY <1>1, <1>3, StopCallFits
<1> QED
  BY <1>1, <1>3, <1>4, <1>5, CallStepInv

LEMMA UpdateBreakpointsStep ==
    ASSUME ControllerInv, NEW c \in Caller, UpdateBreakpoints(c)
    PROVE  ControllerInv'
<1> DEFINE cl == [NoCall EXCEPT !.op = "breakpoints", !.pc = "resolving", !.mark = made + 1]
<1>1. /\ MayCall(c) /\ NewCall(c, cl)
      /\ UNCHANGED <<targets, rec, breakpoints, vs, finalizing, adapter>>
  BY DEF UpdateBreakpoints
<1>2. made + 1 \in Nat
  BY InvFacts, SMT
<1>0. cl = CallMark("breakpoints", "resolving", made + 1)
  BY DEF CallMark, CallPc
<1> HIDE DEF cl
<1>a. "breakpoints" \in Ops /\ "resolving" \in Pcs
  BY DEF Ops, Pcs
<1>3. cl \in Call /\ cl.op = "breakpoints" /\ cl.pc = "resolving" /\ cl.mark = made + 1
  BY <1>0, <1>a, <1>2, NewMark
<1>4. /\ call' \in [Caller -> Call] /\ call'[c] = cl
      /\ \A d \in Caller : d # c => call'[d] = call[d]
      /\ made' \in 0..MaxCalls /\ made <= made' /\ made' \in 1..made' /\ made' = made + 1
      /\ call[c].pc \notin {"served", "executed"}
  BY <1>1, <1>3, NewCallFacts
<1>5. CallFits(cl, rec, made') /\ ResumeFits(cl, rec, adapter)
  BY <1>3, <1>4 DEF CallFits, ResumeFits
<1> QED
  BY <1>1, <1>3, <1>4, <1>5, CallStepInv

\* Every tool that inspects a stop begins alike.
LEMMA InspectionSteps ==
    ASSUME ControllerInv, NEW c \in Caller,
           \/ FailureSnapshot(c)
           \/ \E r \in Ref :
                 \/ StateSnapshot(c, r)
                 \/ \E epoch \in 1..rec[r].epoch :
                       \/ ExpandVariables(c, r, epoch) \/ RequestContext(c, r, epoch)
                       \/ InspectExpression(c, r, epoch)
    PROVE  ControllerInv'
<1>1. \E r \in Ref, requests \in {1, MaxRequests} : \E epoch : Ask(c, r, epoch, requests)
  BY DEF FailureSnapshot, StateSnapshot, ExpandVariables, RequestContext, InspectExpression
<1> QED
  BY <1>1, AskStep

-----------------------------------------------------------------------------
(* Calls that go on *)

LEMMA PcFacts ==
    ASSUME NEW cl \in Call, NEW p \in Pcs
    PROVE  LET b == [cl EXCEPT !.pc = p] IN
           /\ b \in Call /\ b.pc = p /\ b.op = cl.op /\ b.ref = cl.ref
           /\ b.target = cl.target /\ b.mark = cl.mark /\ b.named = cl.named
           /\ b.data = cl.data /\ b.left = cl.left
BY SMT DEF Call, Pcs

LEMMA LeftFacts ==
    ASSUME NEW cl \in Call, NEW l \in 0..MaxRequests
    PROVE  LET b == [cl EXCEPT !.left = l] IN
           /\ b \in Call /\ b.pc = cl.pc /\ b.op = cl.op /\ b.ref = cl.ref
           /\ b.target = cl.target /\ b.mark = cl.mark /\ b.named = cl.named
           /\ b.data = cl.data
BY SMT DEF Call

\* An inspection asks again, or returns what it has, while its stop is current.
LEMMA InspectContinuesStep ==
    ASSUME ControllerInv, NEW c \in Caller, InspectContinues(c)
    PROVE  ControllerInv'
<1> DEFINE cl == call[c]
<1>1. /\ cl.op = "inspect" /\ cl.pc = "answered"
      /\ UNCHANGED <<targets, rec, made, breakpoints, vs, finalizing, adapter>>
      /\ \/ Reply(c)
         \/ /\ Current(cl.ref, cl.mark)
            /\ \/ /\ cl.left > 1
                  /\ call' = [call EXCEPT ![c].pc = "asked", ![c].left = @ - 1]
               \/ call' = [call EXCEPT ![c].pc = "returned"]
  BY DEF InspectContinues
<1>2. /\ call \in [Caller -> Call] /\ cl \in Call /\ CallFits(cl, rec, made)
      /\ made \in 0..MaxCalls /\ made \in Int
  BY InvFacts DEF CallsFit
<1>3. made' \in 0..MaxCalls /\ made <= made' /\ made' = made
  BY <1>1, <1>2, SMT
<1>4. CASE Reply(c)
  BY <1>1, <1>4, ReplyInv
<1>5. CASE /\ Current(cl.ref, cl.mark) /\ cl.left > 1
           /\ call' = [call EXCEPT ![c].pc = "asked", ![c].left = @ - 1]
  <2> DEFINE a == [cl EXCEPT !.pc = "asked"]
             b == [a EXCEPT !.left = cl.left - 1]
  <2>1. /\ a \in Call /\ a.pc = "asked" /\ a.op = cl.op /\ a.ref = cl.ref
        /\ a.mark = cl.mark /\ a.named = cl.named /\ a.data = cl.data /\ a.left = cl.left
    <3>1. "asked" \in Pcs
      BY DEF Pcs
    <3> QED
      BY <1>2, <3>1, PcFacts
  <2>2. cl.left - 1 \in 0..MaxRequests
    BY <1>2, <1>5, ControllerAssumption, SMT DEF Call
  <2>3. call' = [call EXCEPT ![c] = b]
    BY <1>2, <1>5
  <2> HIDE DEF a
  <2>4. /\ b \in Call /\ b.pc = "asked" /\ b.op = cl.op /\ b.ref = cl.ref
        /\ b.mark = cl.mark /\ b.named = cl.named /\ b.data = cl.data
    BY <2>1, <2>2, LeftFacts
  <2> HIDE DEF b
  <2>5. CallFits(b, rec, made') /\ ResumeFits(b, rec, adapter)
    BY <1>1, <1>2, <2>4 DEF CallFits, ResumeFits
  <2>6. /\ call' \in [Caller -> Call] /\ call'[c] = b
        /\ \A d \in Caller : d # c => call'[d] = call[d]
    BY <1>2, <2>3, <2>4
  <2> QED
    BY <1>1, <1>3, <2>4, <2>5, <2>6, CallStepInv
<1>6. CASE /\ Current(cl.ref, cl.mark)
           /\ call' = [call EXCEPT ![c].pc = "returned"]
  <2> DEFINE b == [cl EXCEPT !.pc = "returned"]
  <2>1. call' = [call EXCEPT ![c] = b]
    BY <1>2, <1>6
  <2>2. /\ b \in Call /\ b.pc = "returned" /\ b.op = cl.op /\ b.ref = cl.ref
        /\ b.mark = cl.mark /\ b.named = cl.named /\ b.data = cl.data
    <3>1. "returned" \in Pcs
      BY DEF Pcs
    <3> QED
      BY <1>2, <3>1, PcFacts
  <2> HIDE DEF b
  <2>3. cl.data <= cl.named
    BY <1>1, <1>2, <1>6 DEF CallFits, Current, IsCurrent
  <2>4. CallFits(b, rec, made') /\ ResumeFits(b, rec, adapter)
    BY <1>1, <1>2, <2>2, <2>3 DEF CallFits, ResumeFits
  <2>5. /\ call' \in [Caller -> Call] /\ call'[c] = b
        /\ \A d \in Caller : d # c => call'[d] = call[d]
    BY <1>2, <2>1, <2>2
  <2> QED
    BY <1>1, <1>3, <2>2, <2>4, <2>5, CallStepInv
<1> QED
  BY <1>1, <1>4, <1>5, <1>6

-----------------------------------------------------------------------------
(* Breakpoints *)

\* The lists are swapped together, or the new one is taken back.
LEMMA SwapBreakpointsStep ==
    ASSUME ControllerInv, NEW c \in Caller, SwapBreakpoints(c)
    PROVE  ControllerInv'
<1>1. /\ call[c].pc = "resolving" /\ Reply(c)
      /\ UNCHANGED <<targets, rec, made, vs, finalizing, adapter>>
      /\ \/ owned' = call[c].mark /\ editor' = (editor \ {owned}) \cup {call[c].mark}
         \/ UNCHANGED owned /\ editor' \in {editor, editor \ {owned}}
  BY DEF SwapBreakpoints
<1>2. /\ call \in [Caller -> Call] /\ CallFits(call[c], rec, made)
      /\ made \in 0..MaxCalls /\ made \in Int /\ MaxCalls \in Int /\ NoOrphanBreakpoints
      /\ owned \in 0..MaxCalls /\ editor \subseteq 1..MaxCalls
  BY InvFacts DEF CallsFit, ControllerInv, Tables
<1>3. call[c].mark \in 1..made
  BY <1>1, <1>2 DEF CallFits
<1>4. call[c].mark \in 1..MaxCalls /\ call[c].mark \in 0..MaxCalls
  BY <1>2, <1>3, SMT
<1>5. owned' \in 0..MaxCalls /\ editor' \subseteq 1..MaxCalls /\ editor' \subseteq {owned'}
  BY <1>1, <1>2, <1>4 DEF NoOrphanBreakpoints
<1>6. /\ call' \in [Caller -> Call] /\ call'[c] = NoCall
      /\ \A d \in Caller : d # c => call'[d] = call[d]
  BY <1>1, <1>2, NoCallFits DEF Reply
<1>7. NoCall.pc = "idle"
  BY DEF NoCall
<1>8. made' \in Nat /\ made <= made'
  BY <1>1, <1>2, SMT
<1>9. CallFits(call'[c], rec, made') /\ ResumeFits(call'[c], rec, adapter)
  BY <1>6, NoCallFits
<1>10. /\ Fits(rec', adapter', Cfg', call', made') /\ WaitsMissNothing'
       /\ FinalizingFits(vs', finalizing', adapter')
  BY <1>1, <1>6, <1>7, <1>8, <1>9, CallStep
<1>11. TargetsFit(rec, call', targets)
  <2>1. \A d \in Caller : call'[d].pc = "revalidate" => call'[d] = call[d]
    BY <1>6, <1>7
  <2> QED
    BY <2>1, InvFacts, TargetsStay
<1>12. Tables' /\ NoOrphanBreakpoints'
  BY <1>1, <1>5 DEF ControllerInv, Tables, NoOrphanBreakpoints
<1> QED
  BY <1>1, <1>10, <1>11, <1>12 DEF ControllerInv

LEMMA ClearOwnedBreakpointsStep ==
    ASSUME ControllerInv, ClearOwnedBreakpoints
    PROVE  ControllerInv'
<1>1. /\ owned' = 0 /\ editor' = editor \ {owned}
      /\ UNCHANGED <<targets, rec, call, made, vs, finalizing, adapter>>
  BY DEF ClearOwnedBreakpoints
<1>2. editor' \subseteq 1..MaxCalls /\ editor' = {} /\ 0 \in 0..MaxCalls
  BY <1>1, Constants, SMT DEF ControllerInv, Tables, NoOrphanBreakpoints
<1>3. Fits(rec', adapter', Cfg', call', made') /\ WaitsMissNothing'
  BY <1>1 DEF ControllerInv, Cfg, WaitsMissNothing
<1>4. /\ FinalizingFits(vs', finalizing', adapter') /\ TargetsFit(rec', call', targets')
      /\ Tables' /\ NoOrphanBreakpoints'
  BY <1>1, <1>2 DEF ControllerInv, Tables, NoOrphanBreakpoints
<1> QED
  BY <1>3, <1>4 DEF ControllerInv

-----------------------------------------------------------------------------
(* Targets *)

LEMMA ListTargetStep ==
    ASSUME ControllerInv, NEW t \in Target, ListTarget(t)
    PROVE  ControllerInv'
<1>1. /\ targets[t] = "none"
      /\ \E expired \in SUBSET {u \in Target : targets[u] = "live"} :
            targets' = [u \in Target |-> IF u = t THEN "live"
                                         ELSE IF u \in expired THEN "gone" ELSE targets[u]]
      /\ UNCHANGED <<rec, call, made, breakpoints, vs, finalizing, adapter>>
  BY DEF ListTarget
<1>2. targets \in [Target -> {"none", "live", "gone"}] /\ TargetsFit(rec, call, targets)
  BY InvFacts
<1>3. /\ targets' \in [Target -> {"none", "live", "gone"}]
      /\ \A u \in Target : targets[u] = "gone" => targets'[u] = "gone"
  BY <1>1, <1>2
<1>4. \A r \in Ref : rec[r].target \in Target \cup {None}
  BY InvFacts, SMT DEF SessionRecord
<1>5. TargetsFit(rec, call, targets')
  BY <1>2, <1>3, <1>4 DEF TargetsFit
<1>6. Fits(rec', adapter', Cfg', call', made') /\ WaitsMissNothing'
  BY <1>1 DEF ControllerInv, Cfg, WaitsMissNothing
<1>7. /\ FinalizingFits(vs', finalizing', adapter') /\ TargetsFit(rec', call', targets')
      /\ Tables' /\ NoOrphanBreakpoints'
  BY <1>1, <1>3, <1>5 DEF ControllerInv, Tables, NoOrphanBreakpoints, breakpoints
<1> QED
  BY <1>6, <1>7 DEF ControllerInv

\* A reference that is used up is nobody else's.
LEMMA StartSessionStep ==
    ASSUME ControllerInv, NEW c \in Caller, NEW t \in Target, StartSession(c, t)
    PROVE  ControllerInv'
<1> DEFINE cl == [NoCall EXCEPT !.op = "start", !.pc = "revalidate", !.target = t]
<1>1. /\ MayCall(c) /\ NewCall(c, cl) /\ targets[t] = "live"
      /\ targets' = [targets EXCEPT ![t] = "gone"]
      /\ UNCHANGED <<rec, breakpoints, vs, finalizing, adapter>>
  BY DEF StartSession
<1>0. cl = CallTarget("start", "revalidate", t)
  BY DEF CallTarget, CallPc
<1> HIDE DEF cl
<1>2. "start" \in Ops /\ "revalidate" \in Pcs
  BY DEF Ops, Pcs
<1>3. cl \in Call /\ cl.op = "start" /\ cl.pc = "revalidate" /\ cl.target = t
  BY <1>0, <1>2, NewTarget
<1>4. /\ call' \in [Caller -> Call] /\ call'[c] = cl
      /\ \A d \in Caller : d # c => call'[d] = call[d]
      /\ made' \in 0..MaxCalls /\ made' \in Nat /\ made <= made'
      /\ call[c].pc \notin {"served", "executed"}
  BY <1>1, <1>3, NewCallFacts
<1>5. CallFits(cl, rec, made') /\ ResumeFits(cl, rec, adapter)
  BY <1>3 DEF CallFits, ResumeFits
<1>6. /\ Fits(rec', adapter', Cfg', call', made') /\ WaitsMissNothing'
      /\ FinalizingFits(vs', finalizing', adapter')
  BY <1>1, <1>3, <1>4, <1>5, CallStep
<1>7. targets \in [Target -> {"none", "live", "gone"}] /\ TargetsFit(rec, call, targets)
  BY InvFacts
<1>8. \A u \in Target : targets'[u] = (IF u = t THEN "gone" ELSE targets[u])
  BY <1>1, <1>7
<1>9. \A r \in Ref : rec[r].target # t /\ rec[r].target \in Target \cup {None}
  <2>1. \A r \in Ref : rec[r].target \in Target \cup {None}
    BY InvFacts, SMT DEF SessionRecord
  <2>2. t # None
    BY Constants
  <2> QED
    BY <1>1, <1>7, <2>1, <2>2 DEF TargetsFit
<1>10. \A d \in Caller : call[d].pc = "revalidate" => call[d].target # t
  BY <1>1, <1>7 DEF TargetsFit
<1>11. TargetsFit(rec, call', targets')
  <2>1. \A r \in Ref : rec[r].target # None => targets'[rec[r].target] = "gone"
    BY <1>7, <1>8, <1>9 DEF TargetsFit
  <2>2. \A d \in Caller : call'[d].pc = "revalidate" =>
          /\ call'[d].target \in Target /\ targets'[call'[d].target] = "gone"
          /\ \A r \in Ref : rec[r].target # call'[d].target
          /\ \A e \in Caller :
                call'[e].pc = "revalidate" /\ call'[e].target = call'[d].target => d = e
    BY <1>3, <1>4, <1>7, <1>8, <1>9, <1>10 DEF TargetsFit
  <2> QED
    BY <1>7, <2>1, <2>2 DEF TargetsFit
<1>12. targets' \in [Target -> {"none", "live", "gone"}]
  BY <1>1, <1>7
<1>13. Tables' /\ NoOrphanBreakpoints'
  BY <1>1, <1>4, <1>12 DEF ControllerInv, Tables, NoOrphanBreakpoints, breakpoints
<1> QED
  BY <1>1, <1>6, <1>11, <1>13 DEF ControllerInv

-----------------------------------------------------------------------------
(* Control of a session *)

\* A record that says "running" only when the stop the adapter is at is still to be heard
LEMMA HearsStay ==
    ASSUME NEW rc, NEW b, NEW a \in AdapterRecord, rc.seen \in Int,
           Hears(rc, a), b.seen = rc.seen,
           b.state = "running" => rc.state = "running" \/ (a.exec = "stopped" => rc.seen < a.stops),
           a.exec = "stopped" => a.stops > 0
    PROVE  Hears(b, a)
<1>1. a.stops \in Int
  BY Constants, SMT DEF AdapterRecord
<1>2. ASSUME ~Through(a), b.state = "running", a.exec = "stopped"
      PROVE  Announced(a, a.stops)
  <2>1. CASE rc.state = "running"
    BY <1>2, <2>1 DEF Hears
  <2>2. CASE rc.seen < a.stops
    <3>1. a.stops \in 1..a.stops /\ a.stops > rc.seen
      BY <1>1, <1>2, <2>2, SMT
    <3> QED
      BY <1>2, <3>1 DEF Hears
  <2> QED
    BY <1>2, <2>1, <2>2
<1> QED
  BY <1>2 DEF Hears

\* No record moves backwards.
Advance == \A r \in Ref : Moves(rec[r], rec'[r])

LEMMA RecordsStay == ASSUME ControllerInv, UNCHANGED rec PROVE Advance
<1>1. rec \in [Ref -> SessionRecord]
  BY InvFacts
<1> QED
  BY <1>1, MovesStay DEF Advance

\* A call that sets or clears the control flag of its record, or says that it is being ended
\* or runs again
LEMMA ControlStepInv ==
    ASSUME ControllerInv, NEW c \in Caller, call' \in [Caller -> Call],
           \A d \in Caller : d # c => call'[d] = call[d],
           made' \in 0..MaxCalls, made <= made', call[c].pc \notin {"served", "executed"},
           call'[c].pc \notin {"launch", "revalidate", "waiting"},
           CallFits(call'[c], rec, made'), ResumeFits(call'[c], rec, adapter),
           NEW r \in Ref, NEW b, RecordFits(b), Moves(rec[r], b),
           b.session = rec[r].session, b.known = rec[r].known, b.cursor = rec[r].cursor,
           rec[r].state \notin {"none", "starting"},
           b.state = "terminated" => rec[r].state = "terminated",
           \A v \in Vs : rec[r].session = v => Hears(b, adapter[v]),
           rec' = [rec EXCEPT ![r] = b],
           UNCHANGED <<targets, breakpoints, vs, finalizing, adapter>>
    PROVE  ControllerInv' /\ Advance
<1>1. /\ targets' = targets /\ owned' = owned /\ editor' = editor /\ Cfg' = Cfg
      /\ vs' = vs /\ finalizing' = finalizing /\ adapter' = adapter
  BY DEF breakpoints, Cfg
<1>2. made' \in Nat
  BY InvFacts, SMT
<1>3. Fits(rec, adapter, Cfg, call', made')
  BY <1>2, CallsStep
<1>4. LaunchesFit(rec, Cfg, call') /\ EndsFit(rec, adapter, Cfg) /\ rec \in [Ref -> SessionRecord]
  BY <1>3, InvFacts DEF Fits, Core
<1>5. b.session \in {None, rec[r].session}
  OBVIOUS
<1>6. b.state = "terminated" /\ b.known =>
         \A v \in Vs : rec[r].session = v \/ Cfg[v] = r => Through(adapter[v])
  BY <1>4 DEF EndsFit
<1>7. \/ \A d \in Caller : ~(call'[d].pc = "launch" /\ call'[d].ref = r)
      \/ /\ b.known
         /\ rec[r].state = "starting" => b.state = "starting" \/ \E v \in Vs : Cfg[v] = r
  <2>1. CASE b.known
    BY <2>1
  <2>2. CASE ~b.known
    BY <1>4, <2>2 DEF LaunchesFit
  <2> QED
    BY <2>1, <2>2
<1>8. \A v \in Vs : b.session = v => Hears(b, adapter[v])
  OBVIOUS
<1>9. \A v \in Vs : rec[r].session = v /\ b.session # v =>
         Through(adapter[v]) \/ (Cfg[v] = r /\ ~b.known)
  OBVIOUS
<1>10. Fits(rec', adapter, Cfg, call', made') /\ \A q \in Ref : Moves(rec[q], rec'[q])
  <2>1. /\ Fits(rec, adapter, Cfg, call', made') /\ made' \in Nat
        /\ RecordFits(b) /\ Moves(rec[r], b) /\ r \in Ref
    BY <1>2, <1>3
  <2>2. LET S == [rec EXCEPT ![r] = b] IN
        Fits(S, adapter, Cfg, call', made') /\ \A q \in Ref : Moves(rec[q], S[q])
    BY ONLY <2>1, <1>5, <1>6, <1>7, <1>8, <1>9, RecordMoves
  <2> QED
    BY <2>2
<1>11. WaitsMissNothing'
  <2> SUFFICES ASSUME NEW d \in Caller, call'[d].pc = "waiting"
               PROVE  /\ call'[d] = call[d]
                      /\ rec'[call[d].ref].known
                      /\ rec'[call[d].ref].cursor = rec[call[d].ref].cursor
                      /\ Moves(rec[call[d].ref], rec'[call[d].ref])
    BY InvFacts, WaitsStay
  <2>1. call'[d] = call[d]
    OBVIOUS
  <2>2. call[d].ref \in Ref /\ rec[call[d].ref].known
    BY <2>1, InvFacts DEF CallsFit, CallFits, WaitsMissNothing
  <2>3. /\ rec'[call[d].ref].known = rec[call[d].ref].known
        /\ rec'[call[d].ref].cursor = rec[call[d].ref].cursor
    BY <1>4, <2>2
  <2> QED
    BY <1>10, <2>1, <2>2, <2>3
<1>12. TargetsFit(rec', call', targets)
  <2>1. \A q \in Ref : rec'[q].target = rec[q].target
    BY <1>10 DEF Moves
  <2>2. \A d \in Caller : call'[d].pc = "revalidate" => call'[d] = call[d]
    OBVIOUS
  <2>3. TargetsFit(rec, call, targets)
    BY InvFacts
  <2> QED
    BY ONLY <2>1, <2>2, <2>3, TargetsStay
<1>13. Tables' /\ NoOrphanBreakpoints' /\ FinalizingFits(vs', finalizing', adapter')
  BY <1>1 DEF ControllerInv, Tables, NoOrphanBreakpoints
<1> QED
  BY <1>1, <1>10, <1>11, <1>12, <1>13 DEF ControllerInv, Advance

\* The flag alone
LEMMA FlagStepInv ==
    ASSUME ControllerInv, NEW c \in Caller, call' \in [Caller -> Call],
           \A d \in Caller : d # c => call'[d] = call[d],
           made' \in 0..MaxCalls, made <= made', call[c].pc \notin {"served", "executed"},
           call'[c].pc \notin {"launch", "revalidate", "waiting"},
           CallFits(call'[c], rec, made'), ResumeFits(call'[c], rec, adapter),
           NEW r \in Ref, NEW x \in BOOLEAN, rec[r].state \notin {"none", "starting"},
           Controls(r, x), UNCHANGED <<targets, breakpoints, vs, finalizing, adapter>>
    PROVE  ControllerInv' /\ Advance
<1> DEFINE b == [rec[r] EXCEPT !.control = x]
<1>1. /\ rec \in [Ref -> SessionRecord] /\ RecordFits(rec[r]) /\ RecordsHear(rec, adapter, Cfg)
      /\ adapter \in [Vs -> AdapterRecord] /\ StreamsFit(adapter)
  BY InvFacts DEF RecordsFit
<1>2. rec' = [rec EXCEPT ![r] = b]
  BY <1>1 DEF Controls
<1>3. /\ RecordFits(b) /\ Moves(rec[r], b) /\ b.state = rec[r].state
      /\ b.known = rec[r].known /\ b.session = rec[r].session
      /\ b.seen = rec[r].seen /\ b.cursor = rec[r].cursor
  BY <1>1, ControlFacts
<1> HIDE DEF b
<1>4. ASSUME NEW v \in Vs, rec[r].session = v
      PROVE  Hears(b, adapter[v])
  BY <1>1, <1>3, <1>4 DEF RecordsHear, Hears
<1>5. b.state = "terminated" => rec[r].state = "terminated"
  BY <1>3
<1> QED
  BY <1>2, <1>3, <1>4, <1>5, ControlStepInv

\* A control call begins, the control flag set.
LEMMA ResumeStep ==
    ASSUME ControllerInv, NEW c \in Caller, NEW r \in Ref, NEW epoch, Resume(c, r, epoch)
    PROVE  ControllerInv' /\ Advance
<1>1. PICK known \in BOOLEAN :
         NewCall(c, [NoCall EXCEPT !.op = "resume", !.pc = AvailableThread(known),
                                   !.ref = r, !.mark = epoch, !.named = rec[r].seen])
  BY Zenon DEF Resume
<1> DEFINE cl == [NoCall EXCEPT !.op = "resume", !.pc = AvailableThread(known),
                                !.ref = r, !.mark = epoch, !.named = rec[r].seen]
<1>2. /\ MayCall(c) /\ Current(r, epoch) /\ Controls(r, TRUE) /\ NewCall(c, cl)
      /\ UNCHANGED <<targets, breakpoints, vs, finalizing, adapter>>
  BY <1>1 DEF Resume
<1>3. rec[r].seen \in Nat /\ epoch \in Nat
  <2>1. rec[r] \in SessionRecord /\ rec[r].epoch = epoch
    BY <1>2, InvFacts DEF Current
  <2> QED
    BY <2>1, Constants, SMT DEF SessionRecord
<1>4. cl = CallNamed("resume", AvailableThread(known), r, epoch, rec[r].seen)
  BY DEF CallNamed, CallRefMark, CallRef, CallPc
<1> HIDE DEF cl
<1>5. AvailableThread(known) \in {"asked", "sent"}
  BY DEF AvailableThread
<1>6. "resume" \in Ops /\ AvailableThread(known) \in Pcs
  BY <1>5 DEF Ops, Pcs
<1>7. /\ cl \in Call /\ cl.op = "resume" /\ cl.pc = AvailableThread(known) /\ cl.ref = r
      /\ cl.mark = epoch /\ cl.named = rec[r].seen
  BY <1>3, <1>4, <1>6, NewNamed
<1>8. /\ call' \in [Caller -> Call] /\ call'[c] = cl
      /\ \A d \in Caller : d # c => call'[d] = call[d]
      /\ made' \in 0..MaxCalls /\ made <= made' /\ call[c].pc \notin {"served", "executed"}
  BY <1>2, <1>7, NewCallFacts
<1>9. CallFits(cl, rec, made') /\ ResumeFits(cl, rec, adapter)
  BY <1>2, <1>5, <1>7, StopCallFits
<1>10. rec[r].state \notin {"none", "starting"}
  BY <1>2 DEF Current
<1> QED
  BY <1>2, <1>5, <1>7, <1>8, <1>9, <1>10, FlagStepInv

LEMMA PauseStep ==
    ASSUME ControllerInv, NEW c \in Caller, NEW r \in Ref, Pause(c, r)
    PROVE  ControllerInv' /\ Advance
<1> DEFINE cl == [NoCall EXCEPT !.op = "pause", !.pc = AvailableThread(FALSE), !.ref = r]
<1>1. /\ MayCall(c) /\ Live(r) /\ Controls(r, TRUE) /\ NewCall(c, cl)
      /\ UNCHANGED <<targets, breakpoints, vs, finalizing, adapter>>
  BY DEF Pause
<1>2. cl = CallRef("pause", "asked", r)
  BY DEF CallRef, CallPc, AvailableThread
<1> HIDE DEF cl
<1>3. "pause" \in Ops /\ "asked" \in Pcs
  BY DEF Ops, Pcs
<1>4. cl \in Call /\ cl.op = "pause" /\ cl.pc = "asked" /\ cl.ref = r
  BY <1>2, <1>3, NewRef
<1>5. /\ call' \in [Caller -> Call] /\ call'[c] = cl
      /\ \A d \in Caller : d # c => call'[d] = call[d]
      /\ made' \in 0..MaxCalls /\ made <= made' /\ call[c].pc \notin {"served", "executed"}
  BY <1>1, <1>4, NewCallFacts
<1>6. rec[r].state \notin {"none", "starting"}
  BY <1>1 DEF Live
<1>7. CallFits(cl, rec, made') /\ ResumeFits(cl, rec, adapter)
  BY <1>4, <1>6 DEF CallFits, ResumeFits
<1> QED
  BY <1>1, <1>4, <1>5, <1>6, <1>7, FlagStepInv

LEMMA DisconnectStep ==
    ASSUME ControllerInv, NEW c \in Caller, NEW r \in Ref, Disconnect(c, r)
    PROVE  ControllerInv' /\ Advance
<1> DEFINE cl == [NoCall EXCEPT !.op = "disconnect", !.pc = "stopping", !.ref = r]
<1>1. /\ MayCall(c) /\ Live(r) /\ Controls(r, TRUE) /\ NewCall(c, cl)
      /\ UNCHANGED <<targets, breakpoints, vs, finalizing, adapter>>
  BY DEF Disconnect
<1>2. cl = CallRef("disconnect", "stopping", r)
  BY DEF CallRef, CallPc
<1> HIDE DEF cl
<1>3. "disconnect" \in Ops /\ "stopping" \in Pcs
  BY DEF Ops, Pcs
<1>4. cl \in Call /\ cl.op = "disconnect" /\ cl.pc = "stopping" /\ cl.ref = r
  BY <1>2, <1>3, NewRef
<1>5. /\ call' \in [Caller -> Call] /\ call'[c] = cl
      /\ \A d \in Caller : d # c => call'[d] = call[d]
      /\ made' \in 0..MaxCalls /\ made <= made' /\ call[c].pc \notin {"served", "executed"}
  BY <1>1, <1>4, NewCallFacts
<1>6. rec[r].state \notin {"none", "starting"}
  BY <1>1 DEF Live
<1>7. CallFits(cl, rec, made') /\ ResumeFits(cl, rec, adapter)
  BY <1>4, <1>6 DEF CallFits, ResumeFits
<1> QED
  BY <1>1, <1>4, <1>5, <1>6, <1>7, FlagStepInv

\* A control call returns, and the flag is clear.
LEMMA ReplyFacts ==
    ASSUME ControllerInv, NEW c \in Caller, Reply(c), made' = made
    PROVE  /\ call' \in [Caller -> Call] /\ call'[c] = NoCall
           /\ \A d \in Caller : d # c => call'[d] = call[d]
           /\ made' \in 0..MaxCalls /\ made <= made' /\ NoCall.pc = "idle"
           /\ CallFits(call'[c], rec, made') /\ ResumeFits(call'[c], rec, adapter)
<1>1. call' = [call EXCEPT ![c] = NoCall] /\ call \in [Caller -> Call]
  BY InvFacts DEF Reply
<1>2. made' \in 0..MaxCalls /\ made <= made'
  BY InvFacts, SMT
<1>3. /\ call' \in [Caller -> Call] /\ call'[c] = NoCall
      /\ \A d \in Caller : d # c => call'[d] = call[d]
  BY <1>1, NoCallFits
<1>4. NoCall.pc = "idle"
  BY DEF NoCall
<1> QED
  BY <1>2, <1>3, <1>4, NoCallFits

LEMMA GiveUpStep ==
    ASSUME ControllerInv, NEW c \in Caller, Reply(c), Controls(call[c].ref, FALSE),
           call[c].op \in {"resume", "pause", "disconnect"},
           call[c].pc \notin {"served", "executed"},
           UNCHANGED <<targets, made, breakpoints, vs, finalizing, adapter>>
    PROVE  ControllerInv' /\ Advance
<1>1. call[c].ref \in Ref /\ rec[call[c].ref].state \notin {"none", "starting"}
  BY InvFacts DEF CallsFit, CallFits
<1>2. /\ call' \in [Caller -> Call] /\ call'[c] = NoCall
      /\ \A d \in Caller : d # c => call'[d] = call[d]
      /\ made' \in 0..MaxCalls /\ made <= made' /\ NoCall.pc = "idle"
      /\ CallFits(call'[c], rec, made') /\ ResumeFits(call'[c], rec, adapter)
  BY ReplyFacts
<1>3. UNCHANGED <<targets, breakpoints, vs, finalizing, adapter>>
  OBVIOUS
<1> QED
  BY <1>1, <1>2, <1>3, FlagStepInv

LEMMA ThreadFoundStep ==
    ASSUME ControllerInv, NEW c \in Caller, ThreadFound(c)
    PROVE  ControllerInv' /\ Advance
<1> DEFINE cl == call[c]
<1>1. /\ cl.op \in {"resume", "pause"} /\ cl.pc = "answered"
      /\ UNCHANGED <<targets, made, breakpoints, vs, finalizing, adapter>>
      /\ \/ call' = [call EXCEPT ![c].pc = "sent"] /\ UNCHANGED rec
         \/ Reply(c) /\ Controls(cl.ref, FALSE)
  BY DEF ThreadFound
<1>2. CASE call' = [call EXCEPT ![c].pc = "sent"] /\ UNCHANGED rec
  <2> DEFINE b == [cl EXCEPT !.pc = "sent"]
  <2>1. /\ call \in [Caller -> Call] /\ cl \in Call /\ CallFits(cl, rec, made)
        /\ made \in 0..MaxCalls /\ made \in Int
    BY InvFacts DEF CallsFit
  <2>2. call' = [call EXCEPT ![c] = b]
    BY <1>2, <2>1
  <2>3. /\ b \in Call /\ b.pc = "sent" /\ b.op = cl.op /\ b.ref = cl.ref
        /\ b.mark = cl.mark /\ b.named = cl.named /\ b.data = cl.data
    <3>1. "sent" \in Pcs
      BY DEF Pcs
    <3> QED
      BY <2>1, <3>1, PcFacts
  <2> HIDE DEF b
  <2>4. made' \in 0..MaxCalls /\ made <= made' /\ made' = made
    BY <1>1, <2>1, SMT
  <2>5. CallFits(b, rec, made') /\ ResumeFits(b, rec, adapter)
    BY <1>1, <2>1, <2>3 DEF CallFits, ResumeFits
  <2>6. /\ call' \in [Caller -> Call] /\ call'[c] = b
        /\ \A d \in Caller : d # c => call'[d] = call[d]
    BY <2>1, <2>2, <2>3
  <2>7. UNCHANGED <<targets, rec, breakpoints, vs, finalizing, adapter>>
    BY <1>1, <1>2
  <2> QED
    BY <1>1, <2>3, <2>4, <2>5, <2>6, <2>7, CallStepInv, RecordsStay
<1>3. CASE Reply(c) /\ Controls(cl.ref, FALSE)
  BY <1>1, <1>3, GiveUpStep
<1> QED
  BY <1>1, <1>2, <1>3

LEMMA RequestFailsStep ==
    ASSUME ControllerInv, NEW c \in Caller, RequestFails(c)
    PROVE  ControllerInv' /\ Advance
<1>1. /\ call[c].pc \in {"asked", "sent"} /\ Reply(c)
      /\ IF call[c].op = "inspect" THEN UNCHANGED rec ELSE Controls(call[c].ref, FALSE)
      /\ UNCHANGED <<targets, made, breakpoints, vs, finalizing, adapter>>
  BY DEF RequestFails
<1>2. call[c].op \in {"inspect", "resume", "pause"}
  BY <1>1, InvFacts DEF CallsFit, CallFits
<1>3. CASE call[c].op = "inspect"
  BY <1>1, <1>3, ReplyInv, RecordsStay
<1>4. CASE call[c].op # "inspect"
  BY <1>1, <1>2, <1>4, GiveUpStep
<1> QED
  BY <1>3, <1>4

\* The adapter has answered, and the record runs if the stop is still the one that was named:
\* any later stop of the adapter is then still to be heard.
LEMMA ControlReplyStep ==
    ASSUME ControllerInv, NEW c \in Caller, ControlReply(c)
    PROVE  ControllerInv' /\ Advance
<1> DEFINE cl == call[c]
           rc == rec[cl.ref]
           b == [Invalidate(rc, "running") EXCEPT !.control = FALSE]
<1>1. /\ cl.pc = "settled" /\ Reply(c)
      /\ rec' = [rec EXCEPT ![cl.ref] =
                   [IF cl.op = "resume" /\ Current(cl.ref, cl.mark)
                    THEN Invalidate(rc, "running") ELSE rc EXCEPT !.control = FALSE]]
      /\ UNCHANGED <<targets, made, breakpoints, vs, finalizing, adapter>>
  BY DEF ControlReply
<1>2. CASE ~(cl.op = "resume" /\ Current(cl.ref, cl.mark))
  <2>1. cl.op \in {"resume", "pause"} /\ cl.ref \in Ref
    BY <1>1, InvFacts DEF CallsFit, CallFits
  <2>2. Controls(cl.ref, FALSE)
    BY <1>1, <1>2, <2>1, InvFacts DEF Controls
  <2> QED
    BY <1>1, <2>1, <2>2, GiveUpStep
<1>3. CASE cl.op = "resume" /\ Current(cl.ref, cl.mark)
  <2>1. rec' = [rec EXCEPT ![cl.ref] = b]
    BY <1>1, <1>3
  <2>2. /\ cl.ref \in Ref /\ rc.state = "stopped" /\ rc.epoch = cl.mark /\ RecordFits(rc)
        /\ cl.named = rc.seen /\ ResumeFits(cl, rec, adapter)
        /\ rec \in [Ref -> SessionRecord] /\ adapter \in [Vs -> AdapterRecord]
        /\ RecordsHear(rec, adapter, Cfg) /\ StreamsFit(adapter) /\ cl \in Call
    BY <1>3, InvFacts DEF CallsFit, CallFits, Current, RecordsFit
  <2>3. rc.session # None /\ rc \in SessionRecord
    BY <2>2 DEF RecordFits
  <2>4. /\ RecordFits(b) /\ Moves(rc, b) /\ b.state = "running"
        /\ b.known = rc.known /\ b.session = rc.session
        /\ b.seen = rc.seen /\ b.cursor = rc.cursor
    BY <2>2, <2>3, SettledFacts
  <2>5. ASSUME NEW v \in Vs, rc.session = v
        PROVE  Hears(b, adapter[v])
    <3>1. /\ cl.mark = rc.epoch => cl.named <= cl.data
          /\ adapter[v].exec = "stopped" => cl.data < adapter[v].stops
      BY <1>1, <1>3, <2>2, <2>5 DEF ResumeFits
    <3>2. cl.named \in Int /\ cl.data \in Int /\ adapter[v].stops \in Int /\ rc.seen \in Int
      <4>1. adapter[v] \in AdapterRecord
        BY <2>2
      <4> QED
        BY <2>2, <2>3, <4>1, Constants, SMT DEF Call, AdapterRecord, SessionRecord
    <3>3. adapter[v].exec = "stopped" => rc.seen < adapter[v].stops
      BY <2>2, <3>1, <3>2, SMT
    <3>4. Hears(rc, adapter[v]) /\ adapter[v] \in AdapterRecord
          /\ (adapter[v].exec = "stopped" => adapter[v].stops > 0)
      BY <2>2, <2>5 DEF RecordsHear, StreamsFit, StreamFits
    <3> HIDE DEF b, rc
    <3> QED
      BY <2>4, <3>2, <3>3, <3>4, HearsStay
  <2>6. /\ call' \in [Caller -> Call] /\ call'[c] = NoCall
        /\ \A d \in Caller : d # c => call'[d] = call[d]
        /\ made' \in 0..MaxCalls /\ made <= made' /\ NoCall.pc = "idle"
        /\ CallFits(call'[c], rec, made') /\ ResumeFits(call'[c], rec, adapter)
    BY <1>1, ReplyFacts
  <2>7. b.state # "terminated" /\ rc.state \notin {"none", "starting"}
    BY <2>2, <2>4
  <2> HIDE DEF b
  <2> QED
    BY <1>1, <2>1, <2>2, <2>4, <2>5, <2>6, <2>7, ControlStepInv
<1> QED
  BY <1>2, <1>3

\* VS Code has ended the session or refused to; one that is over stays over.
LEMMA DisconnectedStep ==
    ASSUME ControllerInv, NEW c \in Caller, Disconnected(c)
    PROVE  ControllerInv' /\ Advance
<1> DEFINE cl == call[c]
           rc == rec[cl.ref]
           b == [Invalidate(rc, "terminating") EXCEPT !.control = FALSE]
<1>1. PICK accepted \in BOOLEAN :
         rec' = [rec EXCEPT ![cl.ref] =
                  [IF accepted /\ rc.state # "terminated" /\ rc.session # None
                   THEN Invalidate(rc, "terminating") ELSE rc EXCEPT !.control = FALSE]]
  BY DEF Disconnected
<1>2. /\ cl.pc = "stopping" /\ Reply(c)
      /\ UNCHANGED <<targets, made, breakpoints, vs, finalizing, adapter>>
  BY DEF Disconnected
<1>3. /\ cl.op = "disconnect" /\ cl.ref \in Ref /\ rc.state \notin {"none", "starting"}
      /\ rec \in [Ref -> SessionRecord] /\ RecordFits(rc)
  BY <1>2, InvFacts DEF CallsFit, CallFits, RecordsFit
<1>4. CASE ~(accepted /\ rc.state # "terminated" /\ rc.session # None)
  <2>1. Controls(cl.ref, FALSE)
    BY <1>1, <1>3, <1>4 DEF Controls
  <2> QED
    BY <1>2, <1>3, <2>1, GiveUpStep
<1>5. CASE accepted /\ rc.state # "terminated" /\ rc.session # None
  <2>1. rec' = [rec EXCEPT ![cl.ref] = b]
    BY <1>1, <1>5
  <2>2. /\ RecordFits(b) /\ Moves(rc, b) /\ b.state = "terminating"
        /\ b.known = rc.known /\ b.session = rc.session
        /\ b.seen = rc.seen /\ b.cursor = rc.cursor
    BY <1>3, <1>5, SettledFacts
  <2> HIDE DEF b
  <2>3. ASSUME NEW v \in Vs, rc.session = v
        PROVE  Hears(b, adapter[v])
    <3>1. Hears(rc, adapter[v])
      BY <1>3, <2>3, InvFacts DEF RecordsHear
    <3> QED
      BY <2>2, <3>1 DEF Hears
  <2>4. /\ call' \in [Caller -> Call] /\ call'[c] = NoCall
        /\ \A d \in Caller : d # c => call'[d] = call[d]
        /\ made' \in 0..MaxCalls /\ made <= made' /\ NoCall.pc = "idle"
        /\ CallFits(call'[c], rec, made') /\ ResumeFits(call'[c], rec, adapter)
    BY <1>2, ReplyFacts
  <2>5. b.state # "terminated"
    BY <2>2
  <2> QED
    BY <1>2, <1>3, <2>1, <2>2, <2>3, <2>4, <2>5, ControlStepInv
<1> QED
  BY <1>4, <1>5, SMTT(30)

-----------------------------------------------------------------------------
(* Sessions start *)

LEMMA SetTarget ==
    ASSUME NEW rc \in SessionRecord, NEW x \in Target
    PROVE  LET b == [rc EXCEPT !.target = x] IN
           /\ b \in SessionRecord /\ b.state = rc.state /\ b.known = rc.known
           /\ b.session = rc.session /\ b.target = x /\ b.ready = rc.ready
           /\ b.control = rc.control /\ b.epoch = rc.epoch /\ b.seen = rc.seen
           /\ b.cursor = rc.cursor
BY SMT DEF SessionRecord, States, Dead

\* The record a start makes for its target
Created(t) == [NoRecord EXCEPT !.state = "starting", !.known = TRUE, !.target = t, !.cursor = 1]

LEMMA NewRecordFits ==
    ASSUME NoRecord \in SessionRecord, NEW t \in Target
    PROVE  LET b == Created(t) IN
           RecordFits(b) /\ b.state = "starting" /\ b.known = TRUE /\ b.target = t
<1> DEFINE b1 == [NoRecord EXCEPT !.state = "starting"]
           b2 == [b1 EXCEPT !.known = TRUE]
           b3 == [b2 EXCEPT !.target = t]
           b4 == [b3 EXCEPT !.cursor = 1]
<1>1. NoRecord.epoch = 0 /\ NoRecord.seen = 0 /\ NoRecord.session = None
  BY DEF NoRecord
<1>2. b1 \in SessionRecord /\ b1.state = "starting"
      /\ b1.session = None /\ b1.epoch = 0 /\ b1.seen = 0
  <2>1. "starting" \in States
    BY DEF States
  <2> QED
    BY <1>1, <2>1, SetState
<1>3. Created(t) = b4
  BY Zenon DEF Created
<1> HIDE DEF b1
<1>4. /\ b2 \in SessionRecord /\ b2.state = "starting" /\ b2.known = TRUE
      /\ b2.session = None /\ b2.epoch = 0 /\ b2.seen = 0
  BY <1>2, SetKnown
<1> HIDE DEF b2
<1>5. /\ b3 \in SessionRecord /\ b3.state = "starting" /\ b3.known = TRUE /\ b3.target = t
      /\ b3.session = None /\ b3.epoch = 0 /\ b3.seen = 0
  BY <1>4, SetTarget
<1> HIDE DEF b3
<1>6. /\ b4 \in SessionRecord /\ b4.state = "starting" /\ b4.known = TRUE /\ b4.target = t
      /\ b4.session = None /\ b4.epoch = 0 /\ b4.seen = 0
  BY <1>5, SetCursor
<1> HIDE DEF b4
<1>7. RecordFits(b4)
  BY <1>6, SMT DEF RecordFits, Dead
<1> QED
  BY <1>3, <1>6, <1>7

LEMMA RefFacts ==
    ASSUME NEW cl \in Call, NEW r \in Ref
    PROVE  LET b == [cl EXCEPT !.ref = r] IN
           /\ b \in Call /\ b.pc = cl.pc /\ b.op = cl.op /\ b.ref = r
           /\ b.target = cl.target
BY SMT DEF Call

\* The target is still the target: a new record takes the reference over from its call.
LEMMA RevalidatedStep ==
    ASSUME ControllerInv, NEW c \in Caller, Revalidated(c)
    PROVE  ControllerInv'
<1> DEFINE r == Fresh(rec)
           t == call[c].target
           b == Created(t)
           cl1 == [call[c] EXCEPT !.pc = "launch"]
           cl2 == [cl1 EXCEPT !.ref = r]
<1>1. /\ call[c].pc = "revalidate" /\ MayMint
      /\ rec' = [rec EXCEPT ![r] = b]
      /\ call' = [call EXCEPT ![c].pc = "launch", ![c].ref = r]
      /\ UNCHANGED <<targets, made, breakpoints, vs, finalizing, adapter>>
  BY Zenon DEF Revalidated, Created
<1>2. /\ rec \in [Ref -> SessionRecord] /\ call \in [Caller -> Call] /\ call[c] \in Call
      /\ Fits(rec, adapter, Cfg, call, made) /\ made \in Nat /\ RecordsFit(rec)
      /\ TargetsFit(rec, call, targets) /\ made \in Int
  BY InvFacts
<1>3. r \in Ref /\ rec[r].state = "none"
  BY <1>1, FreshFacts DEF MayMint
<1> HIDE DEF r
<1>4. rec[r] = NoRecord /\ NoRecord \in SessionRecord
  BY <1>2, <1>3 DEF RecordsFit, RecordFits
<1>5. /\ t \in Target /\ targets[t] = "gone" /\ \A q \in Ref : rec[q].target # t
      /\ \A d \in Caller : call[d].pc = "revalidate" /\ call[d].target = t => c = d
  BY <1>1, <1>2 DEF TargetsFit
<1>6. RecordFits(b) /\ b.state = "starting" /\ b.known /\ b.target = t
  BY <1>4, <1>5, NewRecordFits
<1>7. call' = [call EXCEPT ![c] = cl2]
  BY <1>1, <1>2
<1>8. /\ cl1 \in Call /\ cl1.pc = "launch" /\ cl1.op = call[c].op /\ cl1.target = t
  <2>1. "launch" \in Pcs
    BY DEF Pcs
  <2> QED
    BY <1>2, <2>1, PcFacts
<1> HIDE DEF cl1, b
<1>9. cl2 \in Call /\ cl2.pc = "launch" /\ cl2.op = call[c].op /\ cl2.ref = r
  BY <1>3, <1>8, RefFacts
<1> HIDE DEF cl2
<1>10. /\ Fits(rec', adapter, Cfg, call, made)
       /\ \A d \in Caller : call[d].pc = "launch" => call[d].ref # r
  <2>1. LET S == [rec EXCEPT ![r] = b] IN
        /\ Fits(S, adapter, Cfg, call, made)
        /\ \A d \in Caller : call[d].pc = "launch" => call[d].ref # r
    <3>1. /\ made \in Nat /\ Fits(rec, adapter, Cfg, call, made)
          /\ r \in Ref /\ rec[r].state = "none"
          /\ RecordFits(b) /\ b.state = "starting" /\ b.known
      BY <1>2, <1>3, <1>6
    <3>2. Fits([rec EXCEPT ![r] = b], adapter, Cfg, call, made)
      BY ONLY <3>1, NewlyStarting, SMT
    <3>3. \A d \in Caller : call[d].pc = "launch" => call[d].ref # r
      BY ONLY <3>1, NewlyStarting, ZenonT(40)
    <3> QED
      BY <3>2, <3>3
  <2> QED
    BY <1>1, <2>1
<1>11. /\ call' \in [Caller -> Call] /\ call'[c] = cl2
       /\ \A d \in Caller : d # c => call'[d] = call[d]
  BY <1>2, <1>7, <1>9
<1>12. /\ rec'[r] = b /\ \A q \in Ref : q # r => rec'[q] = rec[q]
       /\ b.session = None
  BY <1>1, <1>2, <1>3, <1>6 DEF RecordFits
<1>13. CallFits(cl2, rec', made) /\ ResumeFits(cl2, rec', adapter)
  <2>1. call[c].op = "start"
    BY <1>1, InvFacts DEF CallsFit, CallFits
  <2> QED
    BY <1>9, <2>1 DEF CallFits, ResumeFits
<1>14. LaunchesFit(rec', Cfg, call')
  <2>1. LaunchesFit(rec', Cfg, call)
    BY <1>10 DEF Fits, Core
  <2> SUFFICES ASSUME NEW d \in Caller, call'[d].pc = "launch"
               PROVE  /\ call'[d].ref \in Ref /\ rec'[call'[d].ref].known
                      /\ rec'[call'[d].ref].state # "none"
                      /\ \A e \in Caller :
                            call'[e].pc = "launch" /\ call'[e].ref = call'[d].ref => d = e
                      /\ \A v \in Vs :
                            rec'[call'[d].ref].session = v => Cfg[v] = call'[d].ref
                      /\ (\A v \in Vs : Cfg[v] # call'[d].ref) =>
                            rec'[call'[d].ref].state = "starting"
    BY DEF LaunchesFit
  <2>2. CASE d = c
    <3>1. \A v \in Vs : v # None
      BY Constants
    <3> QED
      BY <1>3, <1>6, <1>9, <1>10, <1>11, <1>12, <2>2, <3>1
  <2>3. CASE d # c
    BY <1>9, <1>10, <1>11, <2>1, <2>3 DEF LaunchesFit
  <2> QED
    BY <2>2, <2>3
<1>15. ASSUME NEW d \in Caller
       PROVE  \/ call'[d] = call[d]
              \/ /\ CallFits(call'[d], rec', made) /\ ResumeFits(call'[d], rec', adapter)
                 /\ \A v \in Vs : \A i \in 1..Len(adapter[v].queue) :
                       adapter[v].queue[i].kind = "reply" => adapter[v].queue[i].call # d
  <2>1. CASE d = c
    <3>1. RepliesFit(rec', adapter, call)
      BY <1>10 DEF Fits, Core
    <3>2. call[c].pc \notin {"served", "executed"}
      BY <1>1
    <3>3. \A v \in Vs : \A i \in 1..Len(adapter[v].queue) :
             adapter[v].queue[i].kind = "reply" => adapter[v].queue[i].call # c
      BY ONLY <3>1, <3>2, NoReplies, c \in Caller
    <3> QED
      BY <1>11, <1>13, <2>1, <3>3
  <2>2. CASE d # c
    BY <1>11, <2>2
  <2> QED
    BY <2>1, <2>2
<1>16. Fits(rec', adapter, Cfg, call', made)
  <2>1. made \in Nat /\ made <= made
    BY <1>2, SMT
  <2> QED
    BY ONLY <1>10, <1>11, <1>14, <1>15, <2>1, CallsMove
<1>17. WaitsMissNothing'
  <2> SUFFICES ASSUME NEW d \in Caller, call'[d].pc = "waiting"
               PROVE  /\ call'[d] = call[d]
                      /\ rec'[call[d].ref].known
                      /\ rec'[call[d].ref].cursor = rec[call[d].ref].cursor
                      /\ Moves(rec[call[d].ref], rec'[call[d].ref])
    BY InvFacts, WaitsStay
  <2>1. call'[d] = call[d]
    BY <1>9, <1>11
  <2>2. call[d].ref \in Ref /\ rec[call[d].ref].known
    BY <2>1, InvFacts DEF CallsFit, CallFits, WaitsMissNothing
  <2>3. call[d].ref # r
    BY <1>4, <2>2 DEF NoRecord
  <2>4. rec'[call[d].ref] = rec[call[d].ref] /\ rec[call[d].ref] \in SessionRecord
    BY <1>2, <1>12, <2>2, <2>3
  <2> QED
    BY <2>1, <2>2, <2>4, MovesStay
<1>18. TargetsFit(rec', call', targets)
  <2>1. \A q \in Ref : rec'[q].target = (IF q = r THEN t ELSE rec[q].target)
    BY <1>6, <1>12
  <2>2. /\ \A p, q \in Ref : rec'[p].target # None /\ rec'[p].target = rec'[q].target => p = q
        /\ \A q \in Ref : rec'[q].target # None => targets[rec'[q].target] = "gone"
    BY <1>2, <1>5, <2>1 DEF TargetsFit
  <2>3. \A d \in Caller : call'[d].pc = "revalidate" =>
          d # c /\ call'[d] = call[d] /\ call[d].target # t
    BY <1>5, <1>9, <1>11
  <2>4. \A d \in Caller : call'[d].pc = "revalidate" =>
          /\ call'[d].target \in Target /\ targets[call'[d].target] = "gone"
          /\ \A q \in Ref : rec'[q].target # call'[d].target
          /\ \A e \in Caller :
                call'[e].pc = "revalidate" /\ call'[e].target = call'[d].target => d = e
    BY <1>2, <2>1, <2>3 DEF TargetsFit
  <2> QED
    BY <2>2, <2>4 DEF TargetsFit
<1>19. /\ targets' = targets /\ made' = made /\ adapter' = adapter /\ Cfg' = Cfg
       /\ vs' = vs /\ finalizing' = finalizing /\ owned' = owned /\ editor' = editor
  BY <1>1 DEF breakpoints, Cfg
<1>20. Tables' /\ NoOrphanBreakpoints' /\ FinalizingFits(vs', finalizing', adapter')
  BY <1>19 DEF ControllerInv, Tables, NoOrphanBreakpoints
<1> QED
  BY <1>16, <1>17, <1>18, <1>19, <1>20 DEF ControllerInv

\* A step of the session events: what it makes of the records fits the calls that are left
\* when the waiters it wakes have gone.
LEMMA NotifyInv ==
    ASSUME ControllerInv, NEW L, Fits(rec', adapter', Cfg', L, made), Notify(L),
           \A r \in Ref : Moves(rec[r], rec'[r]),
           \A c \in Caller : L[c].pc \in {"waiting", "revalidate"} => L[c] = call[c],
           UNCHANGED <<targets, made, breakpoints>>,
           vs' \in [Vs -> VsRecord], finalizing' \subseteq Vs,
           FinalizingFits(vs', finalizing', adapter')
    PROVE  ControllerInv' /\ Advance
<1>1. /\ targets' = targets /\ made' = made /\ owned' = owned /\ editor' = editor
  BY DEF breakpoints
<1>2. /\ Fits(rec', adapter', Cfg', call', made) /\ WaitsMissNothing'
      /\ \A c \in Caller : call'[c] = L[c] \/ call'[c] = NoCall
  <2>1. /\ WaitsMissNothing /\ rec \in [Ref -> SessionRecord] /\ made \in Nat
        /\ \A c \in Caller : L[c].pc = "waiting" => L[c] = call[c]
    BY InvFacts
  <2> QED
    BY <2>1, NotifyFits
<1>3. TargetsFit(rec', call', targets)
  <2>1. \A r \in Ref : rec'[r].target = rec[r].target
    BY DEF Moves
  <2>2. \A c \in Caller : call'[c].pc = "revalidate" => call'[c] = call[c]
    BY <1>2 DEF NoCall
  <2>3. TargetsFit(rec, call, targets)
    BY InvFacts
  <2> QED
    BY ONLY <2>1, <2>2, <2>3, TargetsStay
<1>4. Tables' /\ NoOrphanBreakpoints'
  BY <1>1 DEF ControllerInv, Tables, NoOrphanBreakpoints
<1> QED
  BY <1>1, <1>2, <1>3, <1>4 DEF ControllerInv, Advance

\* VS Code has refused to start the session: its record goes.
LEMMA LaunchRefusedStep ==
    ASSUME ControllerInv, NEW c \in Caller, LaunchRefused(c)
    PROVE  ControllerInv' /\ Advance
<1> DEFINE L == [call EXCEPT ![c] = NoCall]
           r == call[c].ref
<1>1. /\ call[c].pc = "launch" /\ rec' = Discard(rec, r) /\ Notify(L)
      /\ UNCHANGED <<targets, made, breakpoints, vs, finalizing, adapter>>
  BY DEF LaunchRefused
<1>2. /\ Fits(rec, adapter, Cfg, call, made) /\ LaunchesFit(rec, Cfg, call) /\ made \in Nat
      /\ RepliesFit(rec, adapter, call) /\ call \in [Caller -> Call]
      /\ FinalizingFits(vs, finalizing, adapter) /\ vs \in [Vs -> VsRecord]
      /\ finalizing \subseteq Vs
  BY InvFacts
<1>3. /\ r \in Ref /\ rec[r].known /\ rec[r].state # "none"
      /\ \A d \in Caller : call[d].pc = "launch" /\ call[d].ref = r => c = d
      /\ \A v \in Vs : rec[r].session = v => Cfg[v] = r
  BY <1>1, <1>2 DEF LaunchesFit
<1>4. /\ L \in [Caller -> Call] /\ L[c] = NoCall /\ \A d \in Caller : d # c => L[d] = call[d]
  BY <1>2, NoCallFits
<1>5. NoCall.pc = "idle"
  BY DEF NoCall
<1> HIDE DEF L
<1>6. Fits(rec, adapter, Cfg, L, made)
  <2>1. LaunchesFit(rec, Cfg, L)
    <3>1. \A d \in Caller : L[d] = call[d] \/ L[d].pc # "launch"
      BY <1>4, <1>5
    <3> QED
      BY <1>2, <3>1, LaunchesStay
  <2>2. ASSUME NEW d \in Caller
        PROVE  \/ L[d] = call[d]
               \/ /\ CallFits(L[d], rec, made) /\ ResumeFits(L[d], rec, adapter)
                  /\ \A v \in Vs : \A i \in 1..Len(adapter[v].queue) :
                        adapter[v].queue[i].kind = "reply" => adapter[v].queue[i].call # d
    <3>1. CASE d = c
      BY <1>1, <1>2, <1>4, <3>1, NoReplies, NoCallFits
    <3>2. CASE d # c
      BY <1>4, <3>2
    <3> QED
      BY <3>1, <3>2
  <2>3. made <= made
    BY <1>2, SMT
  <2> QED
    BY ONLY <1>2, <1>4, <2>1, <2>2, <2>3, CallsMove
<1>7. \A d \in Caller : ~(L[d].pc = "launch" /\ L[d].ref = r)
  BY <1>3, <1>4, <1>5
<1>8. Fits(rec', adapter, Cfg, L, made) /\ \A q \in Ref : Moves(rec[q], rec'[q])
  <2> HIDE DEF r
  <2>1. LET S == Discard(rec, r) IN
        Fits(S, adapter, Cfg, L, made) /\ \A q \in Ref : Moves(rec[q], S[q])
    BY ONLY <1>2, <1>3, <1>6, <1>7, DiscardFits
  <2> QED
    BY <1>1, <2>1
<1>9. /\ adapter' = adapter /\ Cfg' = Cfg /\ vs' = vs /\ finalizing' = finalizing
      /\ UNCHANGED <<targets, made, breakpoints>>
  BY <1>1 DEF Cfg
<1>10. \A d \in Caller : L[d].pc \in {"waiting", "revalidate"} => L[d] = call[d]
  BY <1>4, <1>5
<1> QED
  BY <1>1, <1>2, <1>8, <1>9, <1>10, NotifyInv

-----------------------------------------------------------------------------
(* The events of VS Code's sessions *)

LEMMA VsFacts ==
    ASSUME NEW s \in VsRecord, NEW x \in BOOLEAN
    PROVE  /\ LET b == [s EXCEPT !.started = x] IN
              b \in VsRecord /\ b.cfg = s.cfg /\ b.failed = s.failed
           /\ LET b == [s EXCEPT !.over = x] IN
              b \in VsRecord /\ b.cfg = s.cfg /\ b.failed = s.failed
           /\ LET b == [s EXCEPT !.ready = x] IN
              b \in VsRecord /\ b.cfg = s.cfg /\ b.failed = s.failed
           /\ LET b == [s EXCEPT !.failed = x] IN
              b \in VsRecord /\ b.cfg = s.cfg /\ b.failed = x
<1>1. LET b == [s EXCEPT !.started = x] IN b \in VsRecord /\ b.cfg = s.cfg /\ b.failed = s.failed
  BY SMT DEF VsRecord
<1>2. LET b == [s EXCEPT !.over = x] IN b \in VsRecord /\ b.cfg = s.cfg /\ b.failed = s.failed
  BY SMT DEF VsRecord
<1>3. LET b == [s EXCEPT !.ready = x] IN b \in VsRecord /\ b.cfg = s.cfg /\ b.failed = s.failed
  BY SMT DEF VsRecord
<1>4. LET b == [s EXCEPT !.failed = x] IN b \in VsRecord /\ b.cfg = s.cfg /\ b.failed = x
  BY SMT DEF VsRecord
<1> QED
  BY ONLY <1>1, <1>2, <1>3, <1>4

\* A step that changes the flags of one session leaves what each was configured with.
LEMMA FlagsFacts ==
    ASSUME vs \in [Vs -> VsRecord], NEW v \in Vs, NEW s \in VsRecord, s.cfg = vs[v].cfg,
           vs' = [vs EXCEPT ![v] = s]
    PROVE  /\ vs' \in [Vs -> VsRecord] /\ Cfg' = Cfg /\ vs'[v] = s
           /\ \A w \in Vs : w # v => vs'[w] = vs[w]
<1>1. /\ vs' \in [Vs -> VsRecord] /\ vs'[v] = s /\ \A w \in Vs : w # v => vs'[w] = vs[w]
  OBVIOUS
<1>2. \A w \in Vs : vs'[w].cfg = vs[w].cfg
  BY <1>1
<1> QED
  BY <1>1, <1>2 DEF Cfg

LEMMA SessionStartedStep ==
    ASSUME ControllerInv, NEW v \in Vs, SessionStarted(v)
    PROVE  ControllerInv' /\ Advance
<1> DEFINE s == [vs[v] EXCEPT !.started = TRUE]
<1>1. /\ adapter[v].phase # "off" /\ CanBind(v)
      /\ rec' = (IF vs[v].failed THEN Unbind(rec, v) ELSE Bind(rec, v))
      /\ vs' = [vs EXCEPT ![v].started = TRUE]
      /\ Notify(call)
      /\ UNCHANGED <<targets, made, breakpoints, finalizing, adapter>>
  BY DEF SessionStarted
<1>2. /\ Fits(rec, adapter, Cfg, call, made) /\ made \in Nat /\ vs \in [Vs -> VsRecord]
      /\ FinalizingFits(vs, finalizing, adapter) /\ finalizing \subseteq Vs
  BY InvFacts
<1>3. vs' = [vs EXCEPT ![v] = s]
  BY <1>1, <1>2
<1>4. s \in VsRecord /\ s.cfg = vs[v].cfg /\ s.failed = vs[v].failed
  BY <1>2, VsFacts
<1> HIDE DEF s
<1>5. /\ vs' \in [Vs -> VsRecord] /\ Cfg' = Cfg /\ vs'[v] = s
      /\ \A w \in Vs : w # v => vs'[w] = vs[w]
  BY <1>2, <1>3, <1>4, FlagsFacts
<1>6. Fits(rec', adapter, Cfg, call, made) /\ \A r \in Ref : Moves(rec[r], rec'[r])
  <2>1. CASE vs[v].failed
    <3>1. Through(adapter[v])
      BY <1>2, <2>1 DEF FinalizingFits
    <3>2. LET S == Unbind(rec, v) IN
          Fits(S, adapter, Cfg, call, made) /\ \A r \in Ref : Moves(rec[r], S[r])
      BY ONLY <1>2, <3>1, v \in Vs, UnbindFits
    <3> QED
      BY <1>1, <2>1, <3>2
  <2>2. CASE ~vs[v].failed
    <3>1. adapter[v].phase # "off"
      BY <1>1
    <3>2. vs[v].cfg = NoRef /\ Bound(rec, v) = NoRef => \E r \in Ref : rec[r].state = "none"
      BY <1>1 DEF CanBind, MayMint
    <3>3. LET S == Bind(rec, v) IN
          Fits(S, adapter, Cfg, call, made) /\ \A r \in Ref : Moves(rec[r], S[r])
      BY ONLY <1>2, <3>1, <3>2, v \in Vs, BindFits
    <3> QED
      BY <1>1, <2>2, <3>3
  <2> QED
    BY <2>1, <2>2
<1>7. /\ adapter' = adapter /\ finalizing' = finalizing
      /\ UNCHANGED <<targets, made, breakpoints>>
  BY <1>1
<1>8. FinalizingFits(vs', finalizing', adapter')
  BY <1>2, <1>4, <1>5, <1>7 DEF FinalizingFits
<1> QED
  BY <1>1, <1>2, <1>5, <1>6, <1>7, <1>8, NotifyInv

\* The end of a session that is heard: it is finalized unless it already is.
LEMMA FinalizeFits ==
    ASSUME NEW R, NEW A, NEW n \in Nat, Fits(R, A, Cfg, call, n), NEW v \in Vs,
           Through(A[v]), Finalize(v, R)
    PROVE  /\ Fits(rec', A, Cfg, call, n) /\ \A r \in Ref : Moves(R[r], rec'[r])
           /\ finalizing' = finalizing \cup {v}
<1>1. /\ rec' = (IF v \in finalizing THEN R ELSE Unbind(R, v))
      /\ finalizing' = finalizing \cup {v}
  BY DEF Finalize
<1>2. CASE v \in finalizing
  <2>1. R \in [Ref -> SessionRecord]
    BY DEF Fits, Core, Typed
  <2> QED
    BY <1>1, <1>2, <2>1, MovesStay
<1>3. CASE v \notin finalizing
  <2>1. LET S == Unbind(R, v) IN
        Fits(S, A, Cfg, call, n) /\ \A r \in Ref : Moves(R[r], S[r])
    BY UnbindFits
  <2> QED
    BY <1>1, <1>3, <2>1
<1> QED
  BY <1>2, <1>3

LEMMA SessionTerminatedStep ==
    ASSUME ControllerInv, NEW v \in Vs, SessionTerminated(v)
    PROVE  ControllerInv' /\ Advance
<1> DEFINE s == [vs[v] EXCEPT !.over = TRUE]
<1>1. /\ adapter[v].phase = "ended" /\ adapter[v].queue = <<>> /\ Finalize(v, rec)
      /\ vs' = [vs EXCEPT ![v].over = TRUE]
      /\ Notify(call)
      /\ UNCHANGED <<targets, made, breakpoints, adapter>>
  BY DEF SessionTerminated
<1>2. /\ Fits(rec, adapter, Cfg, call, made) /\ made \in Nat /\ vs \in [Vs -> VsRecord]
      /\ FinalizingFits(vs, finalizing, adapter) /\ finalizing \subseteq Vs
  BY InvFacts
<1>3. vs' = [vs EXCEPT ![v] = s]
  BY <1>1, <1>2
<1>4. s \in VsRecord /\ s.cfg = vs[v].cfg /\ s.failed = vs[v].failed
  BY <1>2, VsFacts
<1> HIDE DEF s
<1>5. /\ vs' \in [Vs -> VsRecord] /\ Cfg' = Cfg /\ vs'[v] = s
      /\ \A w \in Vs : w # v => vs'[w] = vs[w]
  BY <1>2, <1>3, <1>4, FlagsFacts
<1>6. Through(adapter[v])
  BY <1>1, SMT DEF Through
<1>7. /\ Fits(rec', adapter, Cfg, call, made) /\ \A r \in Ref : Moves(rec[r], rec'[r])
      /\ finalizing' = finalizing \cup {v}
  <2>1. Finalize(v, rec)
    BY <1>1
  <2> QED
    BY ONLY <1>2, <1>6, <2>1, v \in Vs, FinalizeFits
<1>8. adapter' = adapter /\ UNCHANGED <<targets, made, breakpoints>>
  BY <1>1
<1>9. FinalizingFits(vs', finalizing', adapter')
  BY <1>2, <1>4, <1>5, <1>6, <1>7, <1>8 DEF FinalizingFits
<1>10. finalizing' \subseteq Vs
  BY <1>2, <1>7
<1> QED
  BY <1>1, <1>2, <1>5, <1>7, <1>8, <1>9, <1>10, NotifyInv

LEMMA FinalizedStep ==
    ASSUME ControllerInv, NEW v \in Vs, Finalized(v)
    PROVE  ControllerInv'
<1>1. /\ finalizing' = finalizing \ {v} /\ targets' = targets /\ rec' = rec /\ call' = call
      /\ made' = made /\ owned' = owned /\ editor' = editor /\ vs' = vs /\ adapter' = adapter
      /\ Cfg' = Cfg
  BY DEF Finalized, breakpoints, Cfg
<1>2. FinalizingFits(vs', finalizing', adapter') /\ Tables'
  BY <1>1 DEF ControllerInv, Tables, FinalizingFits
<1> QED
  BY <1>1, <1>2 DEF ControllerInv, WaitsMissNothing, NoOrphanBreakpoints

\* A new session, the user's or the one of a start: nothing was said of it yet.
LEMMA CreateSessionStep ==
    ASSUME ControllerInv, NEW v \in Vs, NEW r \in Ref \cup {NoRef}, CreateSession(v, r)
    PROVE  ControllerInv'
<1> DEFINE a == [adapter[v] EXCEPT !.phase = "starting"]
           s == [vs[v] EXCEPT !.cfg = r]
<1>1. /\ adapter[v].phase = "off"
      /\ r = NoRef \/ /\ \E c \in Caller : call[c].pc = "launch" /\ call[c].ref = r
                      /\ \A w \in Vs : vs[w].cfg # r
      /\ vs' = [vs EXCEPT ![v].cfg = r]
      /\ adapter' = [adapter EXCEPT ![v].phase = "starting"]
      /\ UNCHANGED <<targets, rec, call, made, breakpoints, finalizing>>
  BY DEF CreateSession
<1>2. /\ rec \in [Ref -> SessionRecord] /\ adapter \in [Vs -> AdapterRecord]
      /\ call \in [Caller -> Call] /\ vs \in [Vs -> VsRecord] /\ made \in Nat
      /\ RecordsFit(rec) /\ SessionsFit(rec, adapter, Cfg) /\ EndsFit(rec, adapter, Cfg)
      /\ StreamsFit(adapter) /\ RepliesFit(rec, adapter, call)
      /\ CallsFit(rec, adapter, call, made) /\ LaunchesFit(rec, Cfg, call)
      /\ RecordsHear(rec, adapter, Cfg) /\ FinalizingFits(vs, finalizing, adapter)
      /\ \A w \in Vs : Cfg[w] = vs[w].cfg
  BY InvFacts
<1>3. adapter' = [adapter EXCEPT ![v] = a] /\ vs' = [vs EXCEPT ![v] = s]
  BY <1>1, <1>2
<1>4. /\ a \in AdapterRecord /\ a.phase = "starting" /\ a.exec = adapter[v].exec
      /\ a.stops = adapter[v].stops /\ a.sent = adapter[v].sent /\ a.queue = adapter[v].queue
  <2>1. adapter[v] \in AdapterRecord
    BY <1>2
  <2> QED
    BY <2>1, SMT DEF AdapterRecord
<1>5. s \in VsRecord /\ s.cfg = r /\ s.failed = vs[v].failed
  BY <1>2, SMT DEF VsRecord
<1> HIDE DEF a, s
<1>6. /\ adapter' \in [Vs -> AdapterRecord] /\ adapter'[v] = a
      /\ \A w \in Vs : w # v => adapter'[w] = adapter[w]
  BY <1>2, <1>3, <1>4
<1>7. /\ vs' \in [Vs -> VsRecord] /\ vs'[v] = s /\ \A w \in Vs : w # v => vs'[w] = vs[w]
  BY <1>2, <1>3, <1>5
<1>8. /\ Cfg' \in [Vs -> Ref \cup {NoRef}] /\ Cfg'[v] = r
      /\ \A w \in Vs : w # v => Cfg'[w] = Cfg[w]
  <2>1. Cfg' = [w \in Vs |-> vs'[w].cfg]
    BY DEF Cfg
  <2>2. \A w \in Vs : vs'[w].cfg \in Ref \cup {NoRef}
    BY <1>7 DEF VsRecord
  <2>3. Cfg = [w \in Vs |-> vs[w].cfg]
    BY DEF Cfg
  <2> QED
    BY <1>5, <1>7, <2>1, <2>2, <2>3
<1>9. \A w \in Vs : /\ adapter'[w].queue = adapter[w].queue /\ adapter'[w].exec = adapter[w].exec
                    /\ adapter'[w].stops = adapter[w].stops
                    /\ adapter'[w].sent = adapter[w].sent
  BY <1>4, <1>6
<1>10. /\ rec' = rec /\ call' = call /\ made' = made /\ targets' = targets /\ owned' = owned
       /\ editor' = editor /\ finalizing' = finalizing
  BY <1>1 DEF breakpoints
<1>11. adapter[v].queue = <<>> /\ Len(adapter[v].queue) = 0
  BY <1>1, <1>2, SMT DEF StreamsFit, StreamFits
<1>12. /\ \A q \in Ref : rec[q].session # v
       /\ Cfg[v] = NoRef
       /\ ~Through(adapter[v])
  <2>1. Cfg[v] \in Ref \cup {NoRef}
    BY <1>2 DEF VsRecord
  <2> QED
    BY <1>1, <1>2, <2>1 DEF SessionsFit, Through
<1>13. r # NoRef =>
          /\ r \in Ref /\ rec[r].known /\ rec[r].state = "starting" /\ rec[r].session = None
          /\ \A w \in Vs : Cfg[w] # r
  <2> SUFFICES ASSUME r # NoRef
               PROVE  /\ r \in Ref /\ rec[r].known /\ rec[r].state = "starting"
                      /\ rec[r].session = None
                      /\ \A w \in Vs : Cfg[w] # r
    OBVIOUS
  <2>1. PICK c \in Caller : call[c].pc = "launch" /\ call[c].ref = r
    BY <1>1
  <2>2. \A w \in Vs : Cfg[w] # r
    BY <1>1, <1>2
  <2>3. rec[r].known /\ rec[r].state = "starting" /\ r \in Ref
    BY <1>2, <2>1, <2>2 DEF LaunchesFit
  <2>4. rec[r].session = None
    BY <1>2, <2>3 DEF RecordsFit, RecordFits
  <2> QED
    BY <2>2, <2>3, <2>4
<1>14. Typed(rec, adapter', Cfg', call)
  BY <1>2, <1>6, <1>8 DEF Typed
<1>15. SessionsFit(rec, adapter', Cfg')
  <2>1. \A u, w \in Vs : Cfg'[u] # NoRef /\ Cfg'[u] = Cfg'[w] => u = w
    BY <1>2, <1>8, <1>12, <1>13 DEF SessionsFit
  <2>2. \A w \in Vs, q \in Ref : rec[q].session = w =>
           adapter'[w].phase # "off" /\ Cfg'[w] \in {NoRef, q}
    BY <1>2, <1>6, <1>8, <1>12 DEF SessionsFit
  <2>3. \A w \in Vs, q \in Ref : Cfg'[w] = q =>
           adapter'[w].phase # "off" /\ rec[q].state # "none" /\ rec[q].session \in {None, w}
    <3> SUFFICES ASSUME NEW w \in Vs, NEW q \in Ref, Cfg'[w] = q
                 PROVE  /\ adapter'[w].phase # "off" /\ rec[q].state # "none"
                        /\ rec[q].session \in {None, w}
      OBVIOUS
    <3>1. CASE w = v
      <4>1. q = r /\ r # NoRef
        BY <1>8, <3>1, Constants
      <4> QED
        BY <1>4, <1>6, <1>13, <3>1, <4>1
    <3>2. CASE w # v
      BY <1>2, <1>6, <1>8, <3>2 DEF SessionsFit
    <3> QED
      BY <3>1, <3>2
  <2> QED
    BY <1>2, <2>1, <2>2, <2>3 DEF SessionsFit
<1>16. EndsFit(rec, adapter', Cfg')
  <2> SUFFICES ASSUME NEW w \in Vs, NEW q \in Ref, rec[q].state = "terminated", rec[q].known,
                      rec[q].session = w \/ Cfg'[w] = q
               PROVE  Through(adapter'[w])
    BY DEF EndsFit
  <2>1. CASE w = v
    <3>1. q = r /\ r # NoRef
      BY <1>8, <1>12, <2>1, Constants
    <3> QED
      BY <1>13, <3>1
  <2>2. CASE w # v
    BY <1>2, <1>6, <1>8, <2>2 DEF EndsFit
  <2> QED
    BY <2>1, <2>2
<1>17. StreamsFit(adapter')
  <2> SUFFICES ASSUME NEW w \in Vs PROVE StreamFits(adapter'[w])
    BY DEF StreamsFit
  <2>1. CASE w = v
    <3>1. \A i \in 1..Len(a.queue) : FALSE
      BY <1>4, <1>11, SMT
    <3>2. a.stops <= a.sent /\ (a.exec = "stopped" => a.stops > 0) /\ a.phase # "off"
      BY <1>2, <1>4 DEF StreamsFit, StreamFits
    <3>3. StreamFits(a)
      BY ONLY <3>1, <3>2 DEF StreamFits
    <3> QED
      BY <1>6, <2>1, <3>3
  <2>2. CASE w # v
    BY <1>2, <1>6, <2>2, SMTT(30) DEF StreamsFit
  <2> QED
    BY <2>1, <2>2
<1>18. RepliesFit(rec, adapter', call)
  <2>1. ASSUME NEW w \in Vs, NEW i \in 1..Len(adapter'[w].queue),
               adapter'[w].queue[i].kind = "reply"
        PROVE  LET m == adapter'[w].queue[i] IN
               /\ m.call \in Caller /\ call[m.call].pc \in {"served", "executed"}
               /\ rec[call[m.call].ref].session \in {None, w}
               /\ call[m.call].pc = "executed" => call[m.call].data = m.no
    <3>1. adapter'[w].queue = adapter[w].queue
      BY <1>9
    <3> QED
      BY <1>2, <2>1, <3>1 DEF RepliesFit
  <2>2. ASSUME NEW u \in Vs, NEW w \in Vs,
               NEW i \in 1..Len(adapter'[u].queue), NEW j \in 1..Len(adapter'[w].queue),
               adapter'[u].queue[i].kind = "reply", adapter'[w].queue[j].kind = "reply",
               adapter'[u].queue[i].call = adapter'[w].queue[j].call
        PROVE  u = w /\ i = j
    <3>1. adapter'[u].queue = adapter[u].queue /\ adapter'[w].queue = adapter[w].queue
      BY <1>9
    <3> QED
      BY <1>2, <2>2, <3>1, RepliesOnce
  <2> QED
    BY <2>1, <2>2, SMTT(30) DEF RepliesFit
<1>19. CallsFit(rec, adapter', call, made)
  BY <1>2, <1>9 DEF CallsFit, ResumeFits
<1>20. LaunchesFit(rec, Cfg', call)
  <2> SUFFICES ASSUME NEW c \in Caller, call[c].pc = "launch"
               PROVE  /\ call[c].ref \in Ref /\ rec[call[c].ref].known
                      /\ rec[call[c].ref].state # "none"
                      /\ \A d \in Caller :
                            call[d].pc = "launch" /\ call[d].ref = call[c].ref => c = d
                      /\ \A w \in Vs : rec[call[c].ref].session = w => Cfg'[w] = call[c].ref
                      /\ (\A w \in Vs : Cfg'[w] # call[c].ref) =>
                            rec[call[c].ref].state = "starting"
    BY DEF LaunchesFit
  <2>1. /\ call[c].ref \in Ref /\ rec[call[c].ref].known
        /\ rec[call[c].ref].state # "none"
        /\ \A d \in Caller :
              call[d].pc = "launch" /\ call[d].ref = call[c].ref => c = d
        /\ \A w \in Vs : rec[call[c].ref].session = w => Cfg[w] = call[c].ref
        /\ (\A w \in Vs : Cfg[w] # call[c].ref) =>
              rec[call[c].ref].state = "starting"
    BY <1>2 DEF LaunchesFit
  <2>2. \A w \in Vs : rec[call[c].ref].session = w => Cfg'[w] = call[c].ref
    BY <1>8, <1>12, <2>1
  <2>3. (\A w \in Vs : Cfg'[w] # call[c].ref) => \A w \in Vs : Cfg[w] # call[c].ref
    BY <1>8, <1>12, <2>1, Constants
  <2> QED
    BY <2>1, <2>2, <2>3
<1>21. RecordsHear(rec, adapter', Cfg')
  <2>1. \A w \in Vs, q \in Ref : rec[q].session = w => Hears(rec[q], adapter'[w])
    BY <1>2, <1>6, <1>12 DEF RecordsHear
  <2>2. \A w \in Vs : ~Through(adapter'[w]) /\ (\A q \in Ref : rec[q].session # w) =>
           \/ Cfg'[w] # NoRef /\ ~rec[Cfg'[w]].known
           \/ \A k \in 1..adapter'[w].stops : Announced(adapter'[w], k)
    <3> SUFFICES ASSUME NEW w \in Vs, ~Through(adapter'[w]), \A q \in Ref : rec[q].session # w
                 PROVE  \/ Cfg'[w] # NoRef /\ ~rec[Cfg'[w]].known
                        \/ \A k \in 1..adapter'[w].stops : Announced(adapter'[w], k)
      OBVIOUS
    <3>1. CASE w = v
      <4>1. \A k \in 1..adapter[v].stops : Announced(adapter[v], k)
        BY <1>2, <1>12 DEF RecordsHear
      <4> QED
        BY <1>9, <3>1, <4>1 DEF Announced
    <3>2. CASE w # v
      BY <1>2, <1>6, <1>8, <3>2 DEF RecordsHear
    <3> QED
      BY <3>1, <3>2
  <2> QED
    BY <2>1, <2>2 DEF RecordsHear
<1>22. Fits(rec', adapter', Cfg', call', made')
  BY <1>2, <1>10, <1>14, <1>15, <1>16, <1>17, <1>18, <1>19, <1>20, <1>21 DEF Fits, Core
<1>23. FinalizingFits(vs', finalizing', adapter')
  BY <1>2, <1>5, <1>6, <1>7, <1>10, <1>12 DEF FinalizingFits
<1>24. Tables' /\ NoOrphanBreakpoints' /\ TargetsFit(rec', call', targets') /\ WaitsMissNothing'
  BY <1>7, <1>10 DEF ControllerInv, Tables, NoOrphanBreakpoints, WaitsMissNothing
<1> QED
  BY <1>22, <1>23, <1>24 DEF ControllerInv

-----------------------------------------------------------------------------
(* The messages of the debug adapters *)

LEMMA DataFacts ==
    ASSUME NEW cl \in Call, NEW x \in Nat
    PROVE  LET b == [cl EXCEPT !.data = x] IN
           /\ b \in Call /\ b.pc = cl.pc /\ b.op = cl.op /\ b.ref = cl.ref
           /\ b.target = cl.target /\ b.mark = cl.mark /\ b.named = cl.named
           /\ b.data = x
BY SMT DEF Call

\* The answer that is read settles its call, and nothing else is on its way for it.
ReplyRead(v) ==
    LET m == Head(adapter[v].queue) IN
    [call EXCEPT ![m.call].pc = IF @ = "served" THEN "answered" ELSE "settled",
                 ![m.call].data = m.no]

\* What an inspection is answered was computed at its stop, if the record still is at it:
\* the adapter would have announced a later one before the answer.
LEMMA AnswerIsOfItsStop ==
    ASSUME ControllerInv, NEW v \in Vs, adapter[v].queue # <<>>,
           Head(adapter[v].queue).kind = "reply",
           NEW r \in Ref, rec[r].session \in {None, v}, rec[r].state = "stopped"
    PROVE  Head(adapter[v].queue).no <= rec[r].seen
<1> DEFINE a == adapter[v]
           m == Head(a.queue)
           rc == rec[r]
<1>1. /\ a \in AdapterRecord /\ StreamFits(a) /\ rc \in SessionRecord /\ RecordFits(rc)
  BY InvFacts DEF StreamsFit, RecordsFit
<1>2. rc.session = v
  BY <1>1 DEF RecordFits
<1>3. Hears(rc, a)
  BY <1>2, InvFacts DEF RecordsHear
<1> HIDE DEF a, rc
<1>4. /\ ~Through(a) /\ m.no <= a.stops /\ \A k : Announced(a, k) => k > m.no
      /\ m \in Message
  BY <1>1, ReadFacts DEF a
<1>5. m.no \in Int /\ rc.seen \in Int /\ a.stops \in Int /\ rc.seen >= 0
  BY <1>1, <1>4, Constants, SMT DEF Message, SessionRecord, AdapterRecord
<1> HIDE DEF m
<1> SUFFICES ASSUME m.no > rc.seen PROVE FALSE
  BY <1>5, SMT DEF a, rc, m
<1>6. m.no \in 1..a.stops
  BY <1>4, <1>5, SMT
<1>7. Announced(a, m.no)
  BY <1>3, <1>4, <1>6 DEF Hears
<1>8. m.no > m.no
  BY <1>4, <1>7
<1> QED
  BY <1>5, <1>8, SMT

LEMMA ReplyReadFits ==
    ASSUME ControllerInv, NEW v \in Vs, adapter[v].queue # <<>>,
           Head(adapter[v].queue).kind = "reply",
           NEW R, Fits(R, [adapter EXCEPT ![v] = Read(adapter[v])], Cfg, call, made),
           \A q \in Ref : rec[q].state \notin {"none", "starting"} => R[q] = rec[q]
    PROVE  /\ Fits(R, [adapter EXCEPT ![v] = Read(adapter[v])], Cfg, ReplyRead(v), made)
           /\ \A d \in Caller : ReplyRead(v)[d] = call[d]
                                \/ ReplyRead(v)[d].pc \in {"answered", "settled"}
<1> DEFINE a == adapter[v]
           m == Head(a.queue)
           A == [adapter EXCEPT ![v] = Read(a)]
           c == m.call
<1>1. /\ adapter \in [Vs -> AdapterRecord] /\ a \in AdapterRecord /\ StreamFits(a)
      /\ call \in [Caller -> Call]
      /\ RepliesFit(rec, adapter, call) /\ CallsFit(rec, adapter, call, made)
      /\ rec \in [Ref -> SessionRecord] /\ made \in Nat
  BY InvFacts DEF StreamsFit
<1>2. 1 \in 1..Len(a.queue) /\ m = a.queue[1] /\ m \in Message
  <2>1. a.queue \in Seq(Message)
    BY <1>1, SMT DEF AdapterRecord
  <2>2. Len(a.queue) \in Nat /\ Len(a.queue) >= 1 /\ Head(a.queue) = a.queue[1]
        /\ Head(a.queue) \in Message
    BY <2>1, TailFacts
  <2> QED
    BY <2>2, SMT
<1>3. /\ c \in Caller /\ call[c].pc \in {"served", "executed"}
      /\ rec[call[c].ref].session \in {None, v}
      /\ call[c].pc = "executed" => call[c].data = m.no
  <2> DEFINE x == adapter[v].queue[1]
  <2>1. RepliesFit(rec, adapter, call) /\ 1 \in 1..Len(adapter[v].queue) /\ x.kind = "reply"
    BY <1>1, <1>2, SMTT(30)
  <2>2. /\ x.call \in Caller /\ call[x.call].pc \in {"served", "executed"}
        /\ rec[call[x.call].ref].session \in {None, v}
        /\ call[x.call].pc = "executed" => call[x.call].data = x.no
    BY ONLY <2>1, v \in Vs DEF RepliesFit
  <2>3. m = x
    BY <1>2
  <2> HIDE DEF x, m
  <2> QED
    BY <2>2, <2>3
<1> DEFINE p == IF call[c].pc = "served" THEN "answered" ELSE "settled"
           k1 == [call[c] EXCEPT !.pc = p]
           k2 == [k1 EXCEPT !.data = m.no]
           L == ReplyRead(v)
<1>4. call[c] \in Call /\ CallFits(call[c], rec, made) /\ m.no \in Nat
  <2>1. m.no \in Nat
    BY <1>2, Constants, SMT DEF Message
  <2> QED
    BY <1>1, <1>3, <2>1 DEF CallsFit
<1>5. p \in Pcs /\ (call[c].pc = "served" => p = "answered")
      /\ (call[c].pc = "executed" => p = "settled") /\ p \in {"answered", "settled"}
  BY SMTT(30) DEF Pcs
<1>6. L = [call EXCEPT ![c] = k2]
  BY <1>1, <1>3, ZenonT(40) DEF ReplyRead
<1> HIDE DEF L, p
<1>7. /\ k1 \in Call /\ k1.pc = p /\ k1.op = call[c].op /\ k1.ref = call[c].ref
      /\ k1.mark = call[c].mark /\ k1.named = call[c].named
  BY <1>4, <1>5, PcFacts, SMTT(30)
<1> HIDE DEF k1
<1>8. /\ k2 \in Call /\ k2.pc = p /\ k2.op = call[c].op /\ k2.ref = call[c].ref
      /\ k2.mark = call[c].mark /\ k2.named = call[c].named /\ k2.data = m.no
  BY <1>4, <1>7, DataFacts, SMTT(30)
<1> HIDE DEF k2
<1>9. /\ L \in [Caller -> Call] /\ L[c] = k2 /\ \A d \in Caller : d # c => L[d] = call[d]
  BY <1>1, <1>3, <1>6, <1>8
<1>10. \A w \in Vs : \A i \in 1..Len(A[w].queue) :
          A[w].queue[i].kind = "reply" => A[w].queue[i].call # c
  BY <1>1, ReadReplies
<1>11. /\ CallFits(call[c], R, made) /\ ResumeFits(call[c], R, A) /\ LaunchesFit(R, Cfg, call)
  BY <1>3 DEF Fits, Core, CallsFit
<1> HIDE DEF A
<1>12. CallFits(k2, R, made)
  <2>1. k2.pc = "answered" => k2.op \in {"inspect", "resume", "pause"}
    BY <1>3, <1>4, <1>5, <1>8, ZenonT(40) DEF CallFits
  <2>2. k2.pc = "settled" => k2.op \in {"resume", "pause"}
    BY <1>3, <1>4, <1>5, <1>8, ZenonT(40) DEF CallFits
  <2>3. ASSUME k2.op = "inspect", IsCurrent(R[k2.ref], k2.mark)
        PROVE  k2.data <= k2.named
    <3> DEFINE r == call[c].ref
    <3>1. r \in Ref /\ rec[r].state \notin {"none", "starting"}
      BY <1>4, <1>8, <2>3, ZenonT(40) DEF CallFits
    <3>2. R[r] = rec[r]
      BY <3>1, SMTT(30)
    <3>3. rec[r].state = "stopped" /\ rec[r].epoch = call[c].mark
      BY <1>8, <2>3, <3>2, ZenonT(40) DEF IsCurrent
    <3>4. call[c].named = rec[r].seen
      BY <1>4, <1>8, <2>3, <3>3, ZenonT(40) DEF CallFits
    <3>5. m.no <= rec[r].seen
      BY <1>3, <3>1, <3>3, AnswerIsOfItsStop, Zenon
    <3> QED
      BY <1>8, <3>4, <3>5, ZenonT(40)
  <2> HIDE DEF m, c
  <2> QED
    BY <1>5, <1>8, <1>11, <2>1, <2>2, <2>3, SMTT(30) DEF CallFits
<1>13. ResumeFits(k2, R, A)
  <2> SUFFICES ASSUME k2.op = "resume", k2.pc \in {"executed", "settled"}
               PROVE  ResumeFits(k2, R, A)
    BY SMTT(30) DEF ResumeFits
  <2>1. call[c].pc = "executed"
    BY <1>3, <1>5, <1>8, SMTT(30)
  <2>2. k2.data = call[c].data
    BY <1>3, <1>8, <2>1
  <2> HIDE DEF m, c
  <2> QED
    BY <1>8, <1>11, <2>1, <2>2 DEF ResumeFits
<1>14. LaunchesFit(R, Cfg, L)
  <2>1. \A d \in Caller : L[d] = call[d] \/ L[d].pc # "launch"
    BY <1>5, <1>8, <1>9
  <2> QED
    BY <1>11, <2>1, LaunchesStay
<1>15. ASSUME NEW d \in Caller
       PROVE  \/ L[d] = call[d]
              \/ /\ CallFits(L[d], R, made) /\ ResumeFits(L[d], R, A)
                 /\ \A w \in Vs : \A i \in 1..Len(A[w].queue) :
                       A[w].queue[i].kind = "reply" => A[w].queue[i].call # d
  <2>1. CASE d = c
    BY <1>9, <1>10, <1>12, <1>13, <2>1
  <2>2. CASE d # c
    BY <1>9, <2>2
  <2> QED
    BY <2>1, <2>2
<1>16. Fits(R, A, Cfg, L, made)
  <2>1. Fits(R, A, Cfg, call, made)
    BY DEF A
  <2>2. made \in Nat /\ made <= made
    BY <1>1, SMT
  <2> QED
    BY ONLY <1>9, <1>14, <1>15, <2>1, <2>2, CallsMove
<1>17. \A d \in Caller : L[d] = call[d] \/ L[d].pc \in {"answered", "settled"}
  BY <1>5, <1>8, <1>9
<1> QED
  BY <1>16, <1>17 DEF A, L

LEMMA ReadySet ==
    ASSUME NEW s \in VsRecord, NEW x \in BOOLEAN
    PROVE  [s EXCEPT !.ready = x] \in VsRecord /\ [s EXCEPT !.ready = x].cfg = s.cfg
BY SMT DEF VsRecord

LEMMA FailedSet ==
    ASSUME NEW s \in VsRecord, NEW x \in BOOLEAN
    PROVE  /\ [s EXCEPT !.failed = x] \in VsRecord /\ [s EXCEPT !.failed = x].cfg = s.cfg
           /\ [s EXCEPT !.failed = x].failed = x
BY SMT DEF VsRecord

\* A message is applied, it may end the session, and it may answer a call.
LEMMA MessageArrivesStep ==
    ASSUME ControllerInv, NEW v \in Vs, MessageArrives(v)
    PROVE  ControllerInv' /\ Advance
<1> DEFINE m == Head(adapter[v].queue)
           R == Handle(rec, v, m)
           over == m.kind \in {"rejected", "ended"}
           A == [adapter EXCEPT ![v] = Read(adapter[v])]
           L == IF m.kind # "reply" THEN call ELSE ReplyRead(v)
           x == vs[v].ready \/ m.kind = "ready"
           y == vs[v].failed \/ (over /\ ~vs[v].ready)
           s1 == [vs[v] EXCEPT !.ready = x]
           s2 == [s1 EXCEPT !.failed = y]
<1>1. /\ adapter[v].queue # <<>> /\ CanBind(v)
      /\ IF over THEN Finalize(v, R) ELSE rec' = R /\ UNCHANGED finalizing
      /\ vs' = [vs EXCEPT ![v].ready = @ \/ m.kind = "ready",
                          ![v].failed = @ \/ (over /\ ~vs[v].ready)]
      /\ adapter' = [adapter EXCEPT ![v].queue = Tail(@)]
      /\ UNCHANGED <<targets, made, breakpoints>>
  BY Zenon DEF MessageArrives
<1>2. Notify(L)
  <2>1. Notify(IF m.kind # "reply" THEN call
               ELSE [call EXCEPT ![m.call].pc = IF @ = "served" THEN "answered" ELSE "settled",
                                 ![m.call].data = m.no])
    BY ZenonT(40) DEF MessageArrives
  <2>2. CASE m.kind = "reply"
    BY <2>1, <2>2, Zenon DEF ReplyRead
  <2>3. CASE m.kind # "reply"
    BY <2>1, <2>3
  <2> QED
    BY <2>2, <2>3
<1>3. /\ Fits(rec, adapter, Cfg, call, made) /\ made \in Nat /\ vs \in [Vs -> VsRecord]
      /\ adapter \in [Vs -> AdapterRecord] /\ adapter[v] \in AdapterRecord
      /\ StreamFits(adapter[v]) /\ rec \in [Ref -> SessionRecord]
      /\ FinalizingFits(vs, finalizing, adapter) /\ finalizing \subseteq Vs
  BY InvFacts DEF StreamsFit
<1>4. adapter' = A
  BY <1>1, <1>3 DEF Read
<1>5. /\ A[v] = Read(adapter[v]) /\ \A w \in Vs : w # v => A[w] = adapter[w]
  BY <1>3
<1>6. vs' = [vs EXCEPT ![v] = s2]
  BY <1>1, <1>3, Zenon
<1>7. /\ Fits(R, A, Cfg, call, made) /\ \A q \in Ref : Moves(rec[q], R[q])
      /\ m.kind = "reply" => \A q \in Ref : rec[q].state \notin {"none", "starting"} => R[q] = rec[q]
  <2> HIDE DEF over, L, x, y, s1, s2
  <2>1. /\ vs[v].cfg = NoRef /\ Bound(rec, v) = NoRef => \E r \in Ref : rec[r].state = "none"
        /\ adapter[v].queue # <<>> /\ Fits(rec, adapter, Cfg, call, made)
        /\ made \in Nat /\ v \in Vs
    BY <1>1, <1>3 DEF CanBind, MayMint
  <2>2. LET S == Handle(rec, v, Head(adapter[v].queue)) IN
        /\ Fits(S, [adapter EXCEPT ![v] = Read(adapter[v])], Cfg, call, made)
        /\ \A q \in Ref : Moves(rec[q], S[q])
        /\ Head(adapter[v].queue).kind = "reply" =>
              \A q \in Ref : rec[q].state \notin {"none", "starting"} => S[q] = rec[q]
    <3> HIDE DEF m, R, A
    <3> QED
      BY ONLY <2>1, HandleFits
  <2> QED
    BY ONLY <2>2
<1>8. /\ Through(adapter[v]) => Through(A[v])
      /\ over => Through(A[v])
  <2>1. /\ Through(adapter[v]) => Through(Read(adapter[v]))
        /\ m.kind \in Last => Through(Read(adapter[v]))
    BY <1>1, <1>3, ReadFacts
  <2> QED
    BY <1>5, <2>1 DEF Last
<1> HIDE DEF R, A
<1>9. /\ Fits(rec', A, Cfg, call, made) /\ \A q \in Ref : Moves(rec[q], rec'[q])
      /\ finalizing' = (IF over THEN finalizing \cup {v} ELSE finalizing)
      /\ m.kind = "reply" => rec' = R
  <2>1. CASE over
    <3>1. Finalize(v, R) /\ Through(A[v])
      BY <1>1, <1>8, <2>1
    <3>2. /\ Fits(rec', A, Cfg, call, made) /\ \A q \in Ref : Moves(R[q], rec'[q])
          /\ finalizing' = finalizing \cup {v}
      BY ONLY <1>3, <1>7, <3>1, v \in Vs, FinalizeFits
    <3>3. R \in [Ref -> SessionRecord] /\ rec' \in [Ref -> SessionRecord]
      BY <1>7, <3>2 DEF Fits, Core, Typed
    <3>4. \A q \in Ref : Moves(rec[q], rec'[q])
      <4> SUFFICES ASSUME NEW q \in Ref PROVE Moves(rec[q], rec'[q])
        OBVIOUS
      <4>1. /\ rec[q] \in SessionRecord /\ R[q] \in SessionRecord /\ rec'[q] \in SessionRecord
            /\ Moves(rec[q], R[q]) /\ Moves(R[q], rec'[q])
        BY <1>3, <1>7, <3>2, <3>3
      <4> QED
        BY ONLY <4>1, MovesAgain
    <3> QED
      BY <2>1, <3>2, <3>4
  <2>2. CASE ~over
    BY <1>1, <1>7, <2>2
  <2> QED
    BY <2>1, <2>2
<1>10. /\ Fits(rec', A, Cfg, L, made)
       /\ \A d \in Caller : L[d] = call[d] \/ L[d].pc \in {"answered", "settled"}
  <2>1. CASE m.kind = "reply"
    <3>1. /\ adapter[v].queue # <<>> /\ Head(adapter[v].queue).kind = "reply"
          /\ Fits(R, [adapter EXCEPT ![v] = Read(adapter[v])], Cfg, call, made)
          /\ \A q \in Ref : rec[q].state \notin {"none", "starting"} => R[q] = rec[q]
      BY <1>1, <1>7, <2>1 DEF A
    <3>2. /\ Fits(R, [adapter EXCEPT ![v] = Read(adapter[v])], Cfg, ReplyRead(v), made)
          /\ \A d \in Caller : ReplyRead(v)[d] = call[d]
                               \/ ReplyRead(v)[d].pc \in {"answered", "settled"}
      BY <3>1, ReplyReadFits
    <3>3. rec' = R /\ L = ReplyRead(v)
      BY <1>9, <2>1
    <3> HIDE DEF L
    <3> QED
      BY <3>2, <3>3 DEF A
  <2>2. CASE m.kind # "reply"
    BY <1>9, <2>2
  <2> QED
    BY <2>1, <2>2
<1>11. s2 \in VsRecord /\ s2.cfg = vs[v].cfg /\ s2.failed = y
  <2>1. x \in BOOLEAN /\ y \in BOOLEAN /\ vs[v] \in VsRecord
    <3>1. vs[v] \in VsRecord
      BY <1>3
    <3>2. vs[v].ready \in BOOLEAN /\ vs[v].failed \in BOOLEAN
      BY <3>1 DEF VsRecord
    <3> QED
      BY <3>1, <3>2
  <2> HIDE DEF x, y, m, over, R, A, L
  <2>2. s1 \in VsRecord /\ s1.cfg = vs[v].cfg
    BY ONLY <2>1, ReadySet
  <2> HIDE DEF s1
  <2> QED
    BY ONLY <2>1, <2>2, FailedSet
<1> HIDE DEF s2, L
<1>12. /\ vs' \in [Vs -> VsRecord] /\ Cfg' = Cfg /\ vs'[v] = s2
       /\ \A w \in Vs : w # v => vs'[w] = vs[w]
  BY <1>3, <1>6, <1>11, FlagsFacts
<1>13. FinalizingFits(vs', finalizing', adapter')
  <2> SUFFICES ASSUME NEW w \in Vs, vs'[w].failed \/ w \in finalizing'
               PROVE  Through(A[w])
    BY <1>4 DEF FinalizingFits
  <2>1. CASE w = v
    <3>1. vs[v].failed \/ v \in finalizing => Through(adapter[v])
      BY <1>3 DEF FinalizingFits
    <3>2. CASE over
      BY <1>8, <2>1, <3>2
    <3>3. CASE ~over
      <4>1. vs[v].failed \/ v \in finalizing
        BY <1>9, <1>11, <1>12, <2>1, <3>3
      <4> QED
        BY <1>8, <2>1, <3>1, <4>1
    <3> QED
      BY <3>2, <3>3
  <2>2. CASE w # v
    BY <1>3, <1>5, <1>9, <1>12, <2>2 DEF FinalizingFits
  <2> QED
    BY <2>1, <2>2
<1>14. finalizing' \subseteq Vs
  BY <1>3, <1>9
<1>15. Fits(rec', adapter', Cfg', L, made)
  BY <1>4, <1>10, <1>12
<1>16. \A d \in Caller : L[d].pc \in {"waiting", "revalidate"} => L[d] = call[d]
  BY <1>10
<1>17. /\ \A q \in Ref : Moves(rec[q], rec'[q])
       /\ UNCHANGED <<targets, made, breakpoints>> /\ vs' \in [Vs -> VsRecord]
  BY <1>1, <1>9, <1>12
<1> HIDE DEF m
<1> QED
  BY ONLY ControllerInv, <1>2, <1>13, <1>14, <1>15, <1>16, <1>17, NotifyInv, SMTT(30)

-----------------------------------------------------------------------------
(* The debug adapters *)

\* An adapter that says nothing new, or more, of a session that is over leaves it over.
LEMMA AdapterStepInv ==
    ASSUME ControllerInv, NEW v \in Vs, NEW b, adapter' = [adapter EXCEPT ![v] = b],
           Fits(rec, adapter', Cfg, call', made), Through(adapter[v]) => Through(b),
           UNCHANGED <<targets, rec, made, breakpoints, vs, finalizing>>,
           \A c \in Caller : call'[c].pc \in {"waiting", "revalidate"} => call'[c] = call[c]
    PROVE  ControllerInv'
<1>1. /\ rec' = rec /\ made' = made /\ targets' = targets /\ owned' = owned /\ vs' = vs
      /\ editor' = editor /\ finalizing' = finalizing /\ Cfg' = Cfg
  BY DEF breakpoints, Cfg
<1>2. Fits(rec', adapter', Cfg', call', made')
  BY <1>1
<1>3. FinalizingFits(vs', finalizing', adapter')
  <2>1. FinalizingFits(vs, finalizing, adapter) /\ adapter \in [Vs -> AdapterRecord]
    BY InvFacts
  <2> QED
    BY <1>1, <2>1 DEF FinalizingFits
<1>4. TargetsFit(rec', call', targets')
  <2>1. TargetsFit(rec, call, targets) /\ \A r \in Ref : rec[r].target = rec[r].target
    BY InvFacts
  <2>2. TargetsFit(rec, call', targets)
    BY ONLY <2>1, TargetsStay,
       \A c \in Caller : call'[c].pc \in {"waiting", "revalidate"} => call'[c] = call[c]
  <2> QED
    BY <1>1, <2>2
<1>5. WaitsMissNothing'
  <2>1. WaitsMissNothing
    BY InvFacts
  <2>2. \A c \in Caller : call'[c].pc = "waiting" => call'[c] = call[c]
    OBVIOUS
  <2> QED
    BY ONLY <1>1, <2>1, <2>2 DEF WaitsMissNothing
<1>6. Tables' /\ NoOrphanBreakpoints'
  BY <1>1 DEF ControllerInv, Tables, NoOrphanBreakpoints
<1> QED
  BY <1>2, <1>3, <1>4, <1>5, <1>6 DEF ControllerInv

Sent(kind, no, c) == [kind |-> kind, no |-> no, call |-> c]

\* Send puts one message at the end of the stream.
LEMMA SendFacts ==
    ASSUME NEW a \in AdapterRecord, NEW kind \in Kinds, NEW no \in 0..MaxMessages,
           NEW c \in Caller \cup {None}, c = None => a.sent < MaxMessages
    PROVE  LET b == Send(a, kind, no, c)
               m == Sent(kind, no, c)
           IN /\ b \in AdapterRecord /\ m \in Message
              /\ m.kind = kind /\ m.no = no /\ m.call = c
              /\ b.queue = Append(a.queue, m) /\ b.phase = a.phase /\ b.exec = a.exec
              /\ b.stops = a.stops
              /\ c = None => b.sent = a.sent + 1
              /\ c # None => b.sent = a.sent
<1> DEFINE m == Sent(kind, no, c)
           x == IF c = None THEN a.sent + 1 ELSE a.sent
           q == Append(a.queue, m)
           a1 == [a EXCEPT !.queue = q]
           b == [a1 EXCEPT !.sent = x]
<1>1. m \in Message /\ m.kind = kind /\ m.no = no /\ m.call = c
  BY DEF Message, Sent
<1>2. a.queue \in Seq(Message) /\ a.sent \in 0..MaxMessages
  BY DEF AdapterRecord
<1>3. x \in 0..MaxMessages
  BY <1>2, Constants, SMT
<1>4. Send(a, kind, no, c) = b
  <2>1. Send(a, kind, no, c) = [a EXCEPT !.queue = q, !.sent = x]
    BY DEF Send, Sent
  <2> HIDE DEF q, x
  <2> QED
    BY <2>1
<1>5. q \in Seq(Message)
  <2> HIDE DEF m
  <2> QED
    BY <1>1, <1>2, AppendFacts
<1> HIDE DEF m, q, x
<1>6. /\ a1 \in AdapterRecord /\ a1.phase = a.phase /\ a1.exec = a.exec /\ a1.stops = a.stops
      /\ a1.sent = a.sent /\ a1.queue = q
  BY <1>5, SMT DEF AdapterRecord
<1> HIDE DEF a1
<1>7. /\ b \in AdapterRecord /\ b.phase = a1.phase /\ b.exec = a1.exec /\ b.stops = a1.stops
      /\ b.sent = x /\ b.queue = a1.queue
  BY <1>3, <1>6, SMT DEF AdapterRecord
<1> HIDE DEF b
<1> QED
  BY <1>1, <1>4, <1>6, <1>7 DEF m, q, x

LEMMA EventFacts ==
    ASSUME NEW a \in AdapterRecord, NEW kind \in Kinds, NEW no \in 0..MaxMessages,
           a.sent < MaxMessages
    PROVE  LET b == Send(a, kind, no, None)
               m == Sent(kind, no, None)
           IN /\ b \in AdapterRecord /\ m \in Message
              /\ m.kind = kind /\ m.no = no /\ m.call = None
              /\ b.queue = Append(a.queue, m) /\ b.phase = a.phase /\ b.exec = a.exec
              /\ b.stops = a.stops /\ b.sent = a.sent + 1
<1>1. None \in Caller \cup {None}
  OBVIOUS
<1> QED
  BY <1>1, SendFacts

LEMMA PhaseSet ==
    ASSUME NEW a \in AdapterRecord, NEW x \in {"up", "ended"}
    PROVE  LET b == [a EXCEPT !.phase = x] IN
           /\ b \in AdapterRecord /\ b.phase = x /\ b.exec = a.exec /\ b.stops = a.stops
           /\ b.sent = a.sent /\ b.queue = a.queue
BY SMT DEF AdapterRecord

LEMMA ExecSet ==
    ASSUME NEW a \in AdapterRecord, NEW x \in {"running", "stopped"}
    PROVE  LET b == [a EXCEPT !.exec = x] IN
           /\ b \in AdapterRecord /\ b.phase = a.phase /\ b.exec = x /\ b.stops = a.stops
           /\ b.sent = a.sent /\ b.queue = a.queue
BY SMT DEF AdapterRecord

LEMMA HaltedSet ==
    ASSUME NEW a \in AdapterRecord, NEW x \in Nat
    PROVE  LET b == [a EXCEPT !.halted = x] IN
           /\ b \in AdapterRecord /\ b.phase = a.phase /\ b.exec = a.exec /\ b.stops = a.stops
           /\ b.sent = a.sent /\ b.queue = a.queue
BY SMT DEF AdapterRecord

LEMMA StopsSet ==
    ASSUME NEW a \in AdapterRecord, NEW x \in 0..MaxMessages
    PROVE  LET b == [a EXCEPT !.stops = x] IN
           /\ b \in AdapterRecord /\ b.phase = a.phase /\ b.exec = a.exec /\ b.stops = x
           /\ b.sent = a.sent /\ b.queue = a.queue
BY SMT DEF AdapterRecord

\* What an adapter that may send is
LEMMA SenderFacts ==
    ASSUME ControllerInv, NEW v \in Vs
    PROVE  /\ adapter[v] \in AdapterRecord /\ adapter[v].stops \in Int /\ adapter[v].sent \in Int
           /\ adapter[v].stops <= adapter[v].sent /\ MaxMessages \in Int
           /\ adapter[v].stops \in 0..MaxMessages /\ 0 \in 0..MaxMessages
<1>1. adapter[v] \in AdapterRecord /\ StreamFits(adapter[v])
  BY InvFacts DEF StreamsFit
<1>2. adapter[v].stops \in 0..MaxMessages /\ adapter[v].sent \in 0..MaxMessages
  BY <1>1 DEF AdapterRecord
<1> QED
  BY <1>1, <1>2, Constants, SMT DEF StreamFits

\* An event of an adapter is no call's answer.
LEMMA SaysStepInv ==
    ASSUME ControllerInv, NEW v \in Vs, NEW b, NEW m, Says(adapter[v], b, m), m.kind # "reply",
           Becomes(v, b), UNCHANGED call
    PROVE  ControllerInv'
<1>1. /\ adapter' = [adapter EXCEPT ![v] = b]
      /\ UNCHANGED <<targets, rec, made, breakpoints, vs, finalizing>>
  BY DEF Becomes
<1>2. Fits(rec, [adapter EXCEPT ![v] = b], Cfg, call, made)
  <2>1. Fits(rec, adapter, Cfg, call, made) /\ made \in Nat /\ v \in Vs
        /\ Says(adapter[v], b, m) /\ m.kind # "reply"
    BY InvFacts
  <2> QED
    BY ONLY <2>1, AdapterSays
<1>3. Through(adapter[v]) => Through(b)
  <2>1. adapter[v] \in AdapterRecord /\ StreamFits(adapter[v])
    BY InvFacts DEF StreamsFit
  <2> QED
    BY <2>1, SaysFits
<1>4. Fits(rec, adapter', Cfg, call', made)
  BY <1>1, <1>2
<1> QED
  BY <1>1, <1>3, <1>4, AdapterStepInv

\* ... and one that says nothing of its target's stops
LEMMA NoticeSays ==
    ASSUME ControllerInv, NEW v \in Vs, MaySend(v),
           NEW a \in AdapterRecord, a.sent = adapter[v].sent, a.queue = adapter[v].queue,
           a.stops = adapter[v].stops, a.exec \in {adapter[v].exec, "running"}, a.phase # "off",
           NEW kind \in Kinds \ {"stopped", "reply"},
           adapter[v].phase = "ended" => a.phase = "ended" /\ kind \in Closing,
           a.phase = "ended" <=> kind \in Last,
           kind = "continued" => a.exec = "running"
    PROVE  LET m == Sent(kind, 0, None) IN
           Says(adapter[v], Send(a, kind, 0, None), m) /\ m.kind # "reply"
<1> DEFINE m == Sent(kind, 0, None)
           b == Send(a, kind, 0, None)
<1>1. /\ adapter[v].stops \in Int /\ adapter[v].sent \in Int
      /\ adapter[v].stops <= adapter[v].sent /\ MaxMessages \in Int
      /\ 0 \in 0..MaxMessages
  BY SenderFacts
<1>2. a.sent < MaxMessages /\ kind \in Kinds /\ kind # "stopped" /\ kind # "reply"
  BY DEF MaySend
<1>3. /\ b \in AdapterRecord /\ m \in Message
      /\ m.kind = kind /\ m.no = 0 /\ m.call = None
      /\ b.queue = Append(a.queue, m) /\ b.phase = a.phase /\ b.exec = a.exec
      /\ b.stops = a.stops /\ b.sent = a.sent + 1
  BY <1>1, <1>2, EventFacts
<1> HIDE DEF b, m
<1>4. b.stops <= b.sent
  BY <1>1, <1>3
<1>5. Says(adapter[v], b, m)
  BY <1>2, <1>3, <1>4 DEF Says
<1> QED
  BY <1>2, <1>3, <1>5 DEF b, m

LEMMA AdapterReadyStep ==
    ASSUME ControllerInv, NEW v \in Vs, AdapterReady(v)
    PROVE  ControllerInv'
<1> DEFINE a == [adapter[v] EXCEPT !.phase = "up"]
           m == Sent("ready", 0, None)
<1>1. /\ adapter[v].phase = "starting" /\ MaySend(v) /\ UNCHANGED call
      /\ Becomes(v, Send(a, "ready", 0, None))
  BY DEF AdapterReady
<1>2. /\ a \in AdapterRecord /\ a.phase = "up" /\ a.exec = adapter[v].exec
      /\ a.stops = adapter[v].stops
      /\ a.sent = adapter[v].sent /\ a.queue = adapter[v].queue
  BY SenderFacts, PhaseSet
<1> HIDE DEF a
<1>3. Says(adapter[v], Send(a, "ready", 0, None), m) /\ m.kind # "reply"
  <2>1. "ready" \in Kinds \ {"stopped", "reply"} /\ "ready" \notin Last
    BY DEF Kinds, Last
  <2> QED
    BY <1>1, <1>2, <2>1, NoticeSays
<1> QED
  BY <1>1, <1>3, SaysStepInv

LEMMA AdapterEndsStep ==
    ASSUME ControllerInv, NEW v \in Vs, AdapterEnds(v)
    PROVE  ControllerInv'
<1> DEFINE a == [adapter[v] EXCEPT !.phase = "ended"]
<1>1. PICK kind \in {"rejected", "ended"} : Becomes(v, Send(a, kind, 0, None))
  BY DEF AdapterEnds
<1> DEFINE m == Sent(kind, 0, None)
<1>2. adapter[v].phase \in {"starting", "up"} /\ MaySend(v) /\ UNCHANGED call
  BY DEF AdapterEnds
<1>3. /\ a \in AdapterRecord /\ a.phase = "ended" /\ a.exec = adapter[v].exec
      /\ a.stops = adapter[v].stops
      /\ a.sent = adapter[v].sent /\ a.queue = adapter[v].queue
  BY SenderFacts, PhaseSet
<1> HIDE DEF a
<1>4. Says(adapter[v], Send(a, kind, 0, None), m) /\ m.kind # "reply"
  <2>1. kind \in Kinds \ {"stopped", "reply"} /\ kind \in Last /\ kind # "continued"
    BY DEF Kinds, Last
  <2> QED
    BY <1>2, <1>3, <2>1, NoticeSays
<1> QED
  BY <1>1, <1>2, <1>4, SaysStepInv

LEMMA AdapterDisconnectsStep ==
    ASSUME ControllerInv, NEW v \in Vs, AdapterDisconnects(v)
    PROVE  ControllerInv'
<1>1. PICK kind \in {"ended", "response"} : Becomes(v, Send(adapter[v], kind, 0, None))
  BY DEF AdapterDisconnects
<1> DEFINE m == Sent(kind, 0, None)
<1>2. adapter[v].phase = "ended" /\ MaySend(v) /\ UNCHANGED call
  BY DEF AdapterDisconnects
<1>3. Says(adapter[v], Send(adapter[v], kind, 0, None), m) /\ m.kind # "reply"
  <2>1. /\ kind \in Kinds \ {"stopped", "reply"} /\ kind \in Last /\ kind \in Closing
        /\ kind # "continued" /\ adapter[v] \in AdapterRecord
    BY SenderFacts DEF Kinds, Last, Closing
  <2> QED
    BY <1>2, <2>1, NoticeSays
<1> QED
  BY <1>1, <1>2, <1>3, SaysStepInv

LEMMA AdapterNotesStep ==
    ASSUME ControllerInv, NEW v \in Vs, AdapterNotes(v)
    PROVE  ControllerInv'
<1> DEFINE m == Sent("notice", 0, None)
<1>1. /\ adapter[v].phase = "up" /\ MaySend(v) /\ UNCHANGED call
      /\ Becomes(v, Send(adapter[v], "notice", 0, None))
  BY DEF AdapterNotes
<1>2. Says(adapter[v], Send(adapter[v], "notice", 0, None), m) /\ m.kind # "reply"
  <2>1. /\ "notice" \in Kinds \ {"stopped", "reply"} /\ "notice" \notin Last
        /\ adapter[v] \in AdapterRecord
    BY SenderFacts DEF Kinds, Last
  <2> QED
    BY <1>1, <2>1, NoticeSays
<1> QED
  BY <1>1, <1>2, SaysStepInv

LEMMA AdapterStopsStep ==
    ASSUME ControllerInv, NEW v \in Vs, AdapterStops(v)
    PROVE  ControllerInv'
<1> DEFINE n == adapter[v].stops + 1
           a1 == [adapter[v] EXCEPT !.exec = "stopped"]
           a2 == [a1 EXCEPT !.stops = n]
           a == [a2 EXCEPT !.halted = adapter[v].halted + 1]
           m == Sent("stopped", n, None)
           b == Send(a, "stopped", n, None)
<1>1. /\ adapter[v].phase = "up" /\ MaySend(v) /\ UNCHANGED call
      /\ Becomes(v, Send([adapter[v] EXCEPT !.exec = "stopped", !.stops = @ + 1, !.halted = @ + 1],
                         "stopped", adapter[v].stops + 1, None))
  BY DEF AdapterStops
<1>2. /\ adapter[v] \in AdapterRecord /\ adapter[v].stops \in Int /\ adapter[v].sent \in Int
      /\ adapter[v].stops <= adapter[v].sent /\ MaxMessages \in Int /\ adapter[v].stops >= 0
      /\ adapter[v].sent < MaxMessages
  BY <1>1, SenderFacts, SMT DEF MaySend
<1>3. n \in 0..MaxMessages /\ n = adapter[v].stops + 1 /\ n <= adapter[v].sent + 1
  BY <1>2
<1>4. Becomes(v, b)
  BY <1>1
<1> HIDE DEF n
<1>5. /\ a1 \in AdapterRecord /\ a1.phase = "up" /\ a1.stops = adapter[v].stops
      /\ a1.sent = adapter[v].sent /\ a1.queue = adapter[v].queue
  BY <1>1, <1>2, ExecSet
<1> HIDE DEF a1
<1>9. /\ a2 \in AdapterRecord /\ a2.phase = "up" /\ a2.stops = n
      /\ a2.sent = adapter[v].sent /\ a2.queue = adapter[v].queue
  BY <1>3, <1>5, StopsSet
<1> HIDE DEF a2
<1>6. /\ a \in AdapterRecord /\ a.phase = "up" /\ a.stops = n
      /\ a.sent = adapter[v].sent /\ a.queue = adapter[v].queue
  <2>1. adapter[v].halted + 1 \in Nat
    BY <1>2, SMT DEF AdapterRecord
  <2> QED
    BY <1>9, <2>1, HaltedSet
<1> HIDE DEF a
<1>7. /\ b \in AdapterRecord /\ m \in Message
      /\ m.kind = "stopped" /\ m.no = n /\ m.call = None
      /\ b.queue = Append(a.queue, m) /\ b.phase = a.phase
      /\ b.stops = a.stops /\ b.sent = a.sent + 1
  <2>1. "stopped" \in Kinds
    BY DEF Kinds
  <2> QED
    BY <1>2, <1>3, <1>6, <2>1, EventFacts, ZenonT(40)
<1> HIDE DEF b, m
<1>8. Says(adapter[v], b, m)
  <2>1. b.stops <= b.sent
    BY <1>3, <1>6, <1>7
  <2> QED
    BY <1>1, <1>3, <1>6, <1>7, <2>1 DEF Says, Last
<1> QED
  BY <1>1, <1>4, <1>7, <1>8, SaysStepInv

LEMMA UserContinuesStep ==
    ASSUME ControllerInv, NEW v \in Vs, UserContinues(v)
    PROVE  ControllerInv'
<1>1. PICK h \in {0, adapter[v].halted - 1} :
         \E b \in MayAnnounce(Runs(adapter[v], h)) : Becomes(v, b)
  BY DEF UserContinues
<1>2. adapter[v].phase = "up" /\ adapter[v].halted > 0 /\ UNCHANGED call
  BY DEF UserContinues
<1>3. h \in Nat /\ adapter[v] \in AdapterRecord
  <2>1. adapter[v] \in AdapterRecord
    BY SenderFacts
  <2>2. adapter[v].halted \in Nat
    BY <2>1 DEF AdapterRecord
  <2> QED
    BY <1>2, <2>1, <2>2, SMT
<1> DEFINE a == Runs(adapter[v], h)
           m == Sent("continued", 0, None)
<1>4. /\ a \in AdapterRecord /\ a.phase = "up" /\ a.exec = "running"
      /\ a.stops = adapter[v].stops
      /\ a.sent = adapter[v].sent /\ a.queue = adapter[v].queue
  BY <1>2, <1>3, RunsFacts
<1>5. PICK b \in MayAnnounce(a) : Becomes(v, b)
  BY <1>1
<1>6. CASE b = a
  <2>1. /\ adapter' = [adapter EXCEPT ![v] = a]
        /\ UNCHANGED <<targets, rec, made, breakpoints, vs, finalizing>>
    BY <1>5, <1>6 DEF Becomes
  <2>2. Fits(rec, [adapter EXCEPT ![v] = a], Cfg, call, made)
    <3>1. Fits(rec, adapter, Cfg, call, made) /\ made \in Nat /\ v \in Vs
          /\ adapter[v].phase # "off" /\ h \in Nat
      BY <1>2, <1>3, InvFacts
    <3> QED
      BY ONLY <3>1, AdapterRuns
  <2>3. ~Through(adapter[v])
    BY <1>2 DEF Through
  <2> HIDE DEF a
  <2>4. Fits(rec, adapter', Cfg, call', made)
    BY <1>2, <2>1, <2>2
  <2> QED
    BY <1>2, <2>1, <2>3, <2>4, AdapterStepInv
<1> HIDE DEF a
<1>7. CASE b = Send(a, "continued", 0, None) /\ a.sent < MaxMessages
  <2>1. Says(adapter[v], b, m) /\ m.kind # "reply"
    <3>1. "continued" \in Kinds \ {"stopped", "reply"} /\ "continued" \notin Last
      BY DEF Kinds, Last
    <3>2. MaySend(v)
      BY <1>4, <1>7 DEF MaySend
    <3> QED
      BY <1>2, <1>4, <1>7, <3>1, <3>2, NoticeSays
  <2> QED
    BY <1>2, <1>5, <2>1, SaysStepInv
<1>8. b = a \/ (b = Send(a, "continued", 0, None) /\ a.sent < MaxMessages)
  BY <1>5 DEF MayAnnounce
<1> QED
  BY <1>6, <1>7, <1>8

\* An answer that adapter a sends to call c
LEMMA AnswerSays ==
    ASSUME NEW a \in AdapterRecord, a.phase = "up", a.stops <= a.sent,
           NEW c \in Caller, NEW no, no = a.stops
    PROVE  /\ Says(a, Send(a, "reply", no, c), Sent("reply", no, c))
           /\ Sent("reply", no, c).kind = "reply" /\ Sent("reply", no, c).call = c
           /\ Sent("reply", no, c).no = no
<1> DEFINE m == Sent("reply", no, c)
           b == Send(a, "reply", no, c)
<1>1. /\ "reply" \in Kinds /\ no \in 0..MaxMessages /\ c # None
      /\ c \in Caller \cup {None}
  BY ControllerAssumption DEF Kinds, AdapterRecord
<1>2. /\ b \in AdapterRecord /\ m \in Message
      /\ m.kind = "reply" /\ m.no = no /\ m.call = c
      /\ b.queue = Append(a.queue, m) /\ b.phase = a.phase /\ b.exec = a.exec
      /\ b.stops = a.stops /\ b.sent = a.sent
  BY <1>1, SendFacts
<1> HIDE DEF b, m
<1>3. Says(a, b, m)
  BY <1>2 DEF Says, Last
<1> QED
  BY <1>2, <1>3 DEF b, m

\* ... and an adapter that runs announces it.
LEMMA RunningSays ==
    ASSUME NEW a \in AdapterRecord, a.phase = "up", a.exec = "running", a.stops <= a.sent,
           a.sent < MaxMessages
    PROVE  LET m == Sent("continued", 0, None) IN
           Says(a, Send(a, "continued", 0, None), m) /\ m.kind # "reply"
<1> DEFINE m == Sent("continued", 0, None)
           b == Send(a, "continued", 0, None)
<1>1. "continued" \in Kinds /\ 0 \in 0..MaxMessages /\ a.stops \in Int /\ a.sent \in Int
  BY Constants, SMT DEF Kinds, AdapterRecord
<1>2. /\ b \in AdapterRecord /\ m \in Message
      /\ m.kind = "continued" /\ m.no = 0 /\ m.call = None
      /\ b.queue = Append(a.queue, m) /\ b.phase = a.phase /\ b.exec = a.exec
      /\ b.stops = a.stops /\ b.sent = a.sent + 1
  BY <1>1, EventFacts
<1> HIDE DEF b, m
<1>3. b.stops <= b.sent
  BY <1>1, <1>2
<1>4. Says(a, b, m)
  BY <1>2, <1>3 DEF Says, Last
<1> QED
  BY <1>2, <1>4 DEF b, m

LEMMA AdapterServesStep ==
    ASSUME ControllerInv, NEW v \in Vs, NEW c \in Caller, AdapterServes(v, c)
    PROVE  ControllerInv'
<1> DEFINE no == adapter[v].stops
           b == Send(adapter[v], "reply", no, c)
           m == Sent("reply", no, c)
           k == [call[c] EXCEPT !.pc = "served"]
           L == [call EXCEPT ![c] = k]
<1>1. /\ adapter[v].phase = "up" /\ call[c].pc = "asked" /\ rec[call[c].ref].session = v
      /\ Becomes(v, b) /\ call' = [call EXCEPT ![c].pc = "served"]
  BY DEF AdapterServes
<1>2. /\ call \in [Caller -> Call] /\ call[c] \in Call /\ made \in Nat /\ made <= made
      /\ Fits(rec, adapter, Cfg, call, made) /\ CallFits(call[c], rec, made)
      /\ LaunchesFit(rec, Cfg, call) /\ RepliesFit(rec, adapter, call)
  BY InvFacts, SMT DEF CallsFit
<1>3. /\ adapter' = [adapter EXCEPT ![v] = b] /\ call' = L
      /\ UNCHANGED <<targets, rec, made, breakpoints, vs, finalizing>>
  BY <1>1, <1>2, Zenon DEF Becomes
<1>4. /\ k \in Call /\ k.pc = "served" /\ k.op = call[c].op /\ k.ref = call[c].ref
      /\ k.mark = call[c].mark /\ k.named = call[c].named
  <2>1. "served" \in Pcs
    BY DEF Pcs
  <2> QED
    BY <1>2, <2>1, PcFacts
<1> HIDE DEF k
<1>5. L \in [Caller -> Call] /\ L[c] = k /\ \A d \in Caller : d # c => L[d] = call[d]
  BY <1>2, <1>4
<1> HIDE DEF L
<1>6. /\ Says(adapter[v], b, m) /\ m.kind = "reply" /\ m.call = c /\ m.no = no
  BY <1>1, SenderFacts, AnswerSays
<1> HIDE DEF b, m
<1>7. \A w \in Vs : \A i \in 1..Len(adapter[w].queue) :
         adapter[w].queue[i].kind = "reply" => adapter[w].queue[i].call # c
  BY <1>1, <1>2, NoReplies
<1>8. CallFits(k, rec, made) /\ ResumeFits(k, rec, adapter)
  BY <1>1, <1>2, <1>4 DEF CallFits, ResumeFits
<1>9. LaunchesFit(rec, Cfg, L)
  <2>1. \A d \in Caller : L[d] = call[d] \/ L[d].pc # "launch"
    BY <1>4, <1>5
  <2> QED
    BY <1>2, <2>1, LaunchesStay
<1>10. ASSUME NEW d \in Caller
       PROVE  \/ L[d] = call[d]
              \/ /\ CallFits(L[d], rec, made) /\ ResumeFits(L[d], rec, adapter)
                 /\ \A w \in Vs : \A i \in 1..Len(adapter[w].queue) :
                       adapter[w].queue[i].kind = "reply" => adapter[w].queue[i].call # d
  <2>1. CASE d = c
    BY <1>5, <1>7, <1>8, <2>1
  <2>2. CASE d # c
    BY <1>5, <2>2
  <2> QED
    BY <2>1, <2>2
<1>11. Fits(rec, adapter, Cfg, L, made)
  BY ONLY <1>2, <1>5, <1>9, <1>10, CallsMove
<1>12. Fits(rec, [adapter EXCEPT ![v] = b], Cfg, L, made)
  <2>1. /\ m.call \in Caller /\ L[m.call].pc \in {"served", "executed"}
        /\ rec[L[m.call].ref].session \in {None, v}
        /\ L[m.call].pc = "executed" => L[m.call].data = m.no
        /\ \A w \in Vs : \A i \in 1..Len(adapter[w].queue) :
              adapter[w].queue[i].kind = "reply" => adapter[w].queue[i].call # m.call
    BY <1>1, <1>4, <1>5, <1>6, <1>7
  <2>2. made \in Nat /\ v \in Vs /\ Says(adapter[v], b, m)
    BY <1>2, <1>6
  <2> QED
    BY ONLY <1>11, <2>1, <2>2, AdapterSays
<1>13. ~Through(adapter[v])
  BY <1>1 DEF Through
<1>14. Fits(rec, adapter', Cfg, call', made)
  BY <1>3, <1>12
<1>15. \A d \in Caller : call'[d].pc \in {"waiting", "revalidate"} => call'[d] = call[d]
  BY <1>3, <1>4, <1>5
<1> QED
  BY ONLY ControllerInv, v \in Vs, <1>3, <1>13, <1>14, <1>15, AdapterStepInv

\* A request that reaches the adapter: a resume lets the target run again, and its answer
\* counts the stops there were.
LEMMA AdapterExecutesStep ==
    ASSUME ControllerInv, NEW v \in Vs, NEW c \in Caller, AdapterExecutes(v, c)
    PROVE  ControllerInv'
<1> DEFINE no == adapter[v].stops
           a == IF call[c].op = "resume" THEN Runs(adapter[v], 0) ELSE adapter[v]
           A == [adapter EXCEPT ![v] = a]
           b == Send(a, "reply", no, c)
           m == Sent("reply", no, c)
           k1 == [call[c] EXCEPT !.pc = "executed"]
           k == [k1 EXCEPT !.data = no]
           L == [call EXCEPT ![c] = k]
<1>1. /\ adapter[v].phase = "up" /\ call[c].pc = "sent" /\ rec[call[c].ref].session = v
      /\ call' = [call EXCEPT ![c].pc = "executed", ![c].data = no]
  BY DEF AdapterExecutes
<1>22. PICK z : /\ Becomes(v, z)
                /\ \/ z = b
                   \/ /\ call[c].op = "resume" /\ b.sent < MaxMessages
                      /\ z = Send(b, "continued", 0, None)
  <2>1. CASE call[c].op = "resume"
    <3>1. \E z \in MayAnnounce(b) : Becomes(v, z)
      BY <2>1 DEF AdapterExecutes
    <3> QED
      BY <2>1, <3>1 DEF MayAnnounce
  <2>2. CASE call[c].op # "resume"
    BY <2>2 DEF AdapterExecutes
  <2> QED
    BY <2>1, <2>2
<1>2. /\ call \in [Caller -> Call] /\ call[c] \in Call /\ made \in Nat /\ made <= made
      /\ Fits(rec, adapter, Cfg, call, made) /\ CallFits(call[c], rec, made)
      /\ RepliesFit(rec, adapter, call) /\ adapter \in [Vs -> AdapterRecord]
      /\ LaunchesFit(rec, Cfg, call) /\ rec \in [Ref -> SessionRecord]
  BY InvFacts, SMT DEF CallsFit
<1>3. /\ adapter' = [adapter EXCEPT ![v] = z] /\ call' = L
      /\ UNCHANGED <<targets, rec, made, breakpoints, vs, finalizing>>
  BY <1>1, <1>2, <1>22, Zenon DEF Becomes
<1>4. /\ no \in Nat /\ no \in 0..MaxMessages /\ no <= adapter[v].sent /\ no <= no
      /\ adapter[v] \in AdapterRecord
  BY SenderFacts, Constants, SMT
<1>5. /\ a \in AdapterRecord /\ a.phase = "up" /\ a.stops = no /\ a.queue = adapter[v].queue
      /\ a.sent = adapter[v].sent
      /\ call[c].op = "resume" => a.exec = "running"
  <2>1. CASE call[c].op = "resume"
    <3>1. 0 \in Nat
      OBVIOUS
    <3> QED
      BY <1>1, <1>4, <2>1, <3>1, RunsFacts, ZenonT(40)
  <2>2. CASE call[c].op # "resume"
    BY <1>1, <1>4, <2>2
  <2> QED
    BY <2>1, <2>2
<1>6. Fits(rec, A, Cfg, call, made)
  <2>1. CASE call[c].op = "resume"
    <3>1. Fits(rec, [adapter EXCEPT ![v] = Runs(adapter[v], 0)], Cfg, call, made)
      <4>1. made \in Nat /\ v \in Vs /\ adapter[v].phase # "off" /\ 0 \in Nat
            /\ Fits(rec, adapter, Cfg, call, made)
        BY <1>1, <1>2
      <4> QED
        BY ONLY <4>1, AdapterRuns
    <3> QED
      BY <2>1, <3>1
  <2>2. CASE call[c].op # "resume"
    <3>1. A = adapter
      BY <1>2, <2>2
    <3> HIDE DEF A
    <3> QED
      BY <1>2, <3>1
  <2> QED
    BY <2>1, <2>2
<1> HIDE DEF a
<1>7. /\ A[v] = a /\ \A w \in Vs : A[w].queue = adapter[w].queue
      /\ \A x : [A EXCEPT ![v] = x] = [adapter EXCEPT ![v] = x]
  <2> HIDE DEF b
  <2> QED
    BY <1>2, <1>5
<1> HIDE DEF A
<1>8. /\ k1 \in Call /\ k1.pc = "executed" /\ k1.op = call[c].op /\ k1.ref = call[c].ref
      /\ k1.mark = call[c].mark /\ k1.named = call[c].named
  <2>1. "executed" \in Pcs
    BY DEF Pcs
  <2> QED
    BY <1>2, <2>1, PcFacts
<1> HIDE DEF k1
<1>9. /\ k \in Call /\ k.pc = "executed" /\ k.op = call[c].op /\ k.ref = call[c].ref
      /\ k.mark = call[c].mark /\ k.named = call[c].named /\ k.data = no
  BY <1>4, <1>8, DataFacts
<1> HIDE DEF k
<1>10. L \in [Caller -> Call] /\ L[c] = k /\ \A d \in Caller : d # c => L[d] = call[d]
  BY <1>2, <1>9
<1> HIDE DEF L
<1>11. /\ Says(a, b, m) /\ m.kind = "reply" /\ m.call = c /\ m.no = no
  BY <1>4, <1>5, AnswerSays
<1>23. /\ b \in AdapterRecord /\ b.phase = "up" /\ b.exec = a.exec /\ b.stops <= b.sent
  <2>1. /\ "reply" \in Kinds /\ c # None /\ c \in Caller \cup {None}
    BY ControllerAssumption DEF Kinds
  <2> QED
    BY <1>4, <1>5, <2>1, SendFacts
<1> HIDE DEF b, m
<1>12. \A w \in Vs : \A i \in 1..Len(A[w].queue) :
         A[w].queue[i].kind = "reply" => A[w].queue[i].call # c
  <2>1. \A w \in Vs : \A i \in 1..Len(adapter[w].queue) :
           adapter[w].queue[i].kind = "reply" => adapter[w].queue[i].call # c
    BY <1>1, <1>2, NoReplies
  <2> QED
    BY <1>7, <2>1
<1>13. CallFits(k, rec, made)
  BY <1>1, <1>2, <1>9 DEF CallFits
<1>14. ResumeFits(k, rec, A)
  <2> SUFFICES ASSUME k.op = "resume", NEW w \in Vs, rec[k.ref].session = w
               PROVE  /\ k.data <= A[w].stops
                      /\ k.mark = rec[k.ref].epoch => k.named <= k.data
                      /\ A[w].exec = "stopped" => k.data < A[w].stops
    BY DEF ResumeFits
  <2>1. w = v /\ call[c].op = "resume" /\ k.ref = call[c].ref /\ call[c].ref \in Ref
    BY <1>1, <1>2, <1>9 DEF CallFits
  <2>2. k.mark = rec[k.ref].epoch => k.named = rec[k.ref].seen
    BY <1>2, <1>9, <2>1 DEF CallFits
  <2>3. rec[k.ref].seen <= no
    <3>1. RecordsHear(rec, adapter, Cfg)
      BY InvFacts
    <3> QED
      BY <1>1, <2>1, <3>1 DEF RecordsHear, Hears
  <2> QED
    BY <1>4, <1>5, <1>7, <1>9, <2>1, <2>2, <2>3
<1>15. LaunchesFit(rec, Cfg, L)
  <2>1. \A d \in Caller : L[d] = call[d] \/ L[d].pc # "launch"
    BY <1>9, <1>10
  <2> QED
    BY <1>2, <2>1, LaunchesStay
<1>16. ASSUME NEW d \in Caller
       PROVE  \/ L[d] = call[d]
              \/ /\ CallFits(L[d], rec, made) /\ ResumeFits(L[d], rec, A)
                 /\ \A w \in Vs : \A i \in 1..Len(A[w].queue) :
                       A[w].queue[i].kind = "reply" => A[w].queue[i].call # d
  <2>1. CASE d = c
    BY <1>10, <1>12, <1>13, <1>14, <2>1
  <2>2. CASE d # c
    BY <1>10, <2>2
  <2> QED
    BY <2>1, <2>2
<1>17. Fits(rec, A, Cfg, L, made)
  <2>1. made \in Nat /\ made <= made
    BY <1>2
  <2> QED
    BY ONLY <1>6, <1>10, <1>15, <1>16, <2>1, CallsMove
<1>18. Fits(rec, [A EXCEPT ![v] = b], Cfg, L, made)
  <2>1. /\ m.call \in Caller /\ L[m.call].pc \in {"served", "executed"}
        /\ rec[L[m.call].ref].session \in {None, v}
        /\ L[m.call].pc = "executed" => L[m.call].data = m.no
        /\ \A w \in Vs : \A i \in 1..Len(A[w].queue) :
              A[w].queue[i].kind = "reply" => A[w].queue[i].call # m.call
    BY <1>1, <1>9, <1>10, <1>11, <1>12
  <2>2. made \in Nat /\ v \in Vs /\ Says(A[v], b, m)
    BY <1>2, <1>7, <1>11
  <2> QED
    BY ONLY <1>17, <2>1, <2>2, AdapterSays
<1>19. ~Through(adapter[v])
  BY <1>1 DEF Through
<1>24. Fits(rec, [A EXCEPT ![v] = z], Cfg, L, made)
  <2>1. CASE z = b
    BY <1>18, <2>1
  <2>2. CASE call[c].op = "resume" /\ b.sent < MaxMessages /\ z = Send(b, "continued", 0, None)
    <3> DEFINE B == [A EXCEPT ![v] = b]
               x == Sent("continued", 0, None)
    <3>1. Says(b, z, x) /\ x.kind # "reply"
      BY <1>5, <1>23, <2>2, RunningSays
    <3> HIDE DEF x
    <3>2. B[v] = b /\ [B EXCEPT ![v] = z] = [A EXCEPT ![v] = z]
      BY <1>2, <1>7
    <3>3. Fits(rec, B, Cfg, L, made)
      BY <1>18
    <3> HIDE DEF B
    <3>4. made \in Nat /\ v \in Vs /\ Says(B[v], z, x) /\ x.kind # "reply"
      BY <1>2, <3>1, <3>2
    <3>5. Fits(rec, [B EXCEPT ![v] = z], Cfg, L, made)
      BY ONLY <3>3, <3>4, AdapterSays
    <3> QED
      BY <3>2, <3>5
  <2> QED
    BY <1>22, <2>1, <2>2
<1>20. Fits(rec, adapter', Cfg, call', made)
  BY <1>3, <1>7, <1>24
<1>21. \A d \in Caller : call'[d].pc \in {"waiting", "revalidate"} => call'[d] = call[d]
  BY <1>3, <1>9, <1>10
<1> QED
  BY ONLY ControllerInv, v \in Vs, <1>3, <1>19, <1>20, <1>21, AdapterStepInv

-----------------------------------------------------------------------------
(* The invariant *)

LEMMA FirstRecord == NoRecord \in SessionRecord /\ RecordFits(NoRecord)
<1>1. /\ NoRecord.state = "none" /\ NoRecord.known = FALSE /\ NoRecord.session = None
      /\ NoRecord.epoch = 0 /\ NoRecord.seen = 0
  BY DEF NoRecord
<1>2. NoRecord \in SessionRecord
  BY Constants, SMT DEF NoRecord, SessionRecord
<1> QED
  BY <1>1, <1>2, SMT DEF RecordFits, Dead

LEMMA FirstAdapter ==
    LET a == [phase |-> "off", exec |-> "running", stops |-> 0, halted |-> 0, sent |-> 0,
              queue |-> <<>>] IN
    a \in AdapterRecord /\ StreamFits(a) /\ ~Through(a)
<1> DEFINE a == [phase |-> "off", exec |-> "running", stops |-> 0, halted |-> 0, sent |-> 0,
                 queue |-> <<>>]
<1>1. a \in AdapterRecord
  BY Constants, SMT DEF AdapterRecord
<1>2. /\ a.stops = 0 /\ a.sent = 0 /\ a.exec = "running" /\ a.queue = <<>> /\ a.phase = "off"
      /\ Len(a.queue) = 0
  BY SMT
<1> HIDE DEF a
<1>3. \A i \in 1..Len(a.queue) : FALSE
  BY <1>2, SMT
<1>4. a.stops <= a.sent
  BY <1>2, SMT
<1>5. StreamFits(a)
  BY <1>2, <1>3, <1>4 DEF StreamFits
<1> QED
  BY <1>1, <1>2, <1>5 DEF Through, a

LEMMA InitInv == ASSUME Init PROVE ControllerInv
<1> DEFINE a == [phase |-> "off", exec |-> "running", stops |-> 0, halted |-> 0, sent |-> 0,
                 queue |-> <<>>]
           s == [cfg |-> NoRef, started |-> FALSE, over |-> FALSE,
                 ready |-> FALSE, failed |-> FALSE]
<1>1. /\ targets = [t \in Target |-> "none"] /\ rec = [r \in Ref |-> NoRecord]
      /\ call = [c \in Caller |-> NoCall]
      /\ made = 0 /\ owned = 0 /\ editor = {} /\ finalizing = {}
      /\ vs = [v \in Vs |-> s] /\ adapter = [v \in Vs |-> a]
  BY DEF Init
<1>2. s \in VsRecord /\ s.cfg = NoRef /\ s.failed = FALSE
  BY DEF VsRecord
<1> HIDE DEF s
<1>3. /\ a \in AdapterRecord /\ StreamFits(a) /\ ~Through(a) /\ a.stops = 0 /\ a.queue = <<>>
      /\ \A i \in 1..Len(a.queue) : FALSE
  BY FirstAdapter, SMT
<1> HIDE DEF a
<1>4. /\ NoRecord.state = "none" /\ NoRecord.session = None /\ NoRecord.target = None
      /\ NoRecord.known = FALSE
      /\ NoCall.pc = "idle" /\ NoCall.op = "none" /\ NoCall \in Call
  BY NoCallFits DEF NoRecord, NoCall
<1>5. /\ \A r \in Ref : rec[r] = NoRecord
      /\ \A c \in Caller : call[c] = NoCall
      /\ \A v \in Vs : vs[v] = s /\ adapter[v] = a
  BY <1>1
<1>6. Cfg \in [Vs -> Ref \cup {NoRef}] /\ \A v \in Vs : Cfg[v] = NoRef
  BY <1>2, <1>5 DEF Cfg
<1>7. Typed(rec, adapter, Cfg, call)
  BY <1>1, <1>3, <1>4, <1>6, FirstRecord DEF Typed
<1>8. RecordsFit(rec)
  BY <1>5, FirstRecord DEF RecordsFit
<1>9. SessionsFit(rec, adapter, Cfg)
  BY <1>4, <1>5, <1>6, Constants DEF SessionsFit
<1>10. EndsFit(rec, adapter, Cfg) /\ FinalizingFits(vs, finalizing, adapter)
  BY <1>1, <1>2, <1>4, <1>5 DEF EndsFit, FinalizingFits
<1>11. StreamsFit(adapter)
  BY <1>3, <1>5 DEF StreamsFit
<1>12. RepliesFit(rec, adapter, call)
  BY <1>3, <1>5 DEF RepliesFit
<1>13. CallsFit(rec, adapter, call, made)
  BY <1>5, NoCallFits DEF CallsFit
<1>14. LaunchesFit(rec, Cfg, call)
  BY <1>4, <1>5 DEF LaunchesFit
<1>15. RecordsHear(rec, adapter, Cfg)
  <2>1. \A v \in Vs : \A k \in 1..adapter[v].stops : FALSE
    BY <1>3, <1>5, SMT
  <2> QED
    BY <1>4, <1>5, <2>1, Constants DEF RecordsHear
<1>16. TargetsFit(rec, call, targets) /\ WaitsMissNothing
  BY <1>4, <1>5 DEF TargetsFit, WaitsMissNothing
<1>17. Tables /\ NoOrphanBreakpoints
  <2>1. 0 \in 0..MaxCalls
    BY Constants, SMT
  <2> QED
    BY <1>1, <1>2, <2>1 DEF Tables, NoOrphanBreakpoints
<1> QED
  BY <1>7, <1>8, <1>9, <1>10, <1>11, <1>12, <1>13, <1>14, <1>15, <1>16, <1>17
     DEF ControllerInv, Fits, Core

LEMMA ToolCallInv == ASSUME ControllerInv, NEW c \in Caller, ToolCall(c) PROVE ControllerInv'
<1>1. CASE \E t \in Target : StartSession(c, t)
  BY <1>1, StartSessionStep
<1>2. CASE Revalidated(c) \/ TargetChanged(c) \/ Launched(c) \/ LaunchRefused(c)
  BY <1>2, RevalidatedStep, TargetChangedStep, LaunchedStep, LaunchRefusedStep
<1>3. CASE \E r \in Ref : WaitForExecution(c, r) \/ WaitForReady(c, r)
  BY <1>3, WaitForExecutionStep, WaitForReadyStep
<1>4. CASE \/ FailureSnapshot(c)
           \/ \E r \in Ref :
                 \/ StateSnapshot(c, r)
                 \/ \E epoch \in 1..rec[r].epoch :
                       \/ ExpandVariables(c, r, epoch) \/ RequestContext(c, r, epoch)
                       \/ InspectExpression(c, r, epoch)
  BY <1>4, InspectionSteps
<1>5. CASE \E r \in Ref : \E epoch \in 1..rec[r].epoch : Resume(c, r, epoch)
  BY <1>5, ResumeStep
<1>6. CASE \E r \in Ref : Pause(c, r) \/ Disconnect(c, r)
  BY <1>6, PauseStep, DisconnectStep
<1>7. CASE WaitEnds(c) \/ InspectContinues(c) \/ ThreadFound(c) \/ ControlReply(c)
  BY <1>7, WaitEndsStep, InspectContinuesStep, ThreadFoundStep, ControlReplyStep
<1>8. CASE \/ Disconnected(c) \/ RequestFails(c) \/ UpdateBreakpoints(c)
           \/ BreakpointsRefused(c) \/ SwapBreakpoints(c)
  BY <1>8, DisconnectedStep, RequestFailsStep, UpdateBreakpointsStep, BreakpointsRefusedStep,
     SwapBreakpointsStep
<1> QED
  BY <1>1, <1>2, <1>3, <1>4, <1>5, <1>6, <1>7, <1>8, Zenon DEF ToolCall

LEMMA SessionInv ==
    ASSUME ControllerInv, NEW v \in Vs, Session(v) \/ Adapter(v)
    PROVE  ControllerInv'
<1>1. CASE \E r \in Ref \cup {NoRef} : CreateSession(v, r)
  BY <1>1, CreateSessionStep
<1>2. CASE SessionStarted(v) \/ SessionTerminated(v) \/ Finalized(v) \/ MessageArrives(v)
  BY <1>2, SessionStartedStep, SessionTerminatedStep, FinalizedStep, MessageArrivesStep
<1>3. CASE AdapterReady(v) \/ AdapterEnds(v) \/ AdapterDisconnects(v) \/ AdapterStops(v)
  BY <1>3, AdapterReadyStep, AdapterEndsStep, AdapterDisconnectsStep, AdapterStopsStep
<1>4. CASE UserContinues(v) \/ AdapterNotes(v)
  BY <1>4, UserContinuesStep, AdapterNotesStep
<1>5. CASE \E c \in Caller : AdapterServes(v, c) \/ AdapterExecutes(v, c)
  BY <1>5, AdapterServesStep, AdapterExecutesStep
<1> QED
  BY <1>1, <1>2, <1>3, <1>4, <1>5, Zenon DEF Session, Adapter

LEMMA NextInv == ASSUME ControllerInv, [Next]_vars PROVE ControllerInv'
<1>1. CASE \E t \in Target : ListTarget(t)
  BY <1>1, ListTargetStep
<1>2. CASE \E c \in Caller : ToolCall(c)
  BY <1>2, ToolCallInv
<1>3. CASE \E v \in Vs : Session(v) \/ Adapter(v)
  BY <1>3, SessionInv
<1>4. CASE ClearOwnedBreakpoints
  BY <1>4, ClearOwnedBreakpointsStep
<1>5. CASE UNCHANGED vars
  <2>1. /\ targets' = targets /\ rec' = rec /\ call' = call /\ made' = made /\ owned' = owned
        /\ editor' = editor /\ vs' = vs /\ finalizing' = finalizing /\ adapter' = adapter
    BY <1>5 DEF vars
  <2>2. Cfg' = Cfg
    BY <2>1 DEF Cfg
  <2> QED
    BY <2>1, <2>2 DEF ControllerInv, Tables, WaitsMissNothing, NoOrphanBreakpoints
<1> QED
  BY <1>1, <1>2, <1>3, <1>4, <1>5, Zenon DEF Next

\* The invariant the properties below follow from: the records, the streams of the adapters,
\* the calls and the session flags fit each other after every step.
THEOREM Invariant == Spec => []ControllerInv
<1>1. Init => ControllerInv
  BY InitInv
<1>2. ControllerInv /\ [Next]_vars => ControllerInv'
  BY NextInv
<1> QED
  BY <1>1, <1>2, PTL DEF Spec

-----------------------------------------------------------------------------
(* The properties *)

\* TypeOK: a stop epoch stays within twice the stops an adapter sends, a stop is numbered
\* no higher than the messages sent, and no stream holds a message of an unknown kind.
THEOREM TypeCorrect == Spec => []TypeOK
<1>1. ControllerInv => TypeOK
  <2> SUFFICES ASSUME ControllerInv PROVE TypeOK
    OBVIOUS
  <2>1. Tables /\ Typed(rec, adapter, Cfg, call)
    BY DEF ControllerInv, Fits, Core
  <2> QED
    BY <2>1 DEF TypeOK, Tables, Typed, VsRecord, AdapterRecord
<1> QED
  BY <1>1, Invariant, PTL

\* A target reference starts at most one session, however many calls present it at once:
\* startSession uses the reference up before its first await.
THEOREM TargetsOneShot == Spec => []TargetsAreOneShot
<1>1. ControllerInv => TargetsAreOneShot
  BY DEF ControllerInv, TargetsFit, TargetsAreOneShot
<1> QED
  BY <1>1, Invariant, PTL

\* No wait sleeps through an event: appendEvent and the discarding of a record wake every
\* waiter whose condition they change.
THEOREM WaitsMiss == Spec => []WaitsMissNothing
<1>1. ControllerInv => WaitsMissNothing
  BY DEF ControllerInv
<1> QED
  BY <1>1, Invariant, PTL

\* The editor has no breakpoints of the client but those of the current list, whichever of
\* VS Code's calls fails: updateBreakpoints resolves every source before it touches the list.
THEOREM NoOrphans == Spec => []NoOrphanBreakpoints
<1>1. ControllerInv => NoOrphanBreakpoints
  BY DEF ControllerInv
<1> QED
  BY <1>1, Invariant, PTL

\* What an inspection returns under the reference of a stop was computed before any later stop
\* of the target: ensureEpoch runs again after every answer of the adapter.
THEOREM InspectionFits == Spec => []InspectionIsOfItsStop
<1>1. ControllerInv => InspectionIsOfItsStop
  BY DEF ControllerInv, Fits, Core, CallsFit, CallFits, InspectionIsOfItsStop
<1> QED
  BY <1>1, Invariant, PTL

\* Once everything an adapter has said was heard, a target of which no thread was resumed since
\* its latest stop has a record that says it is stopped, with that stop, unless it is being
\* ended: the answer to a control request that comes after a new stop does not hide it.
THEOREM StopsKnown == Spec => []StopsAreKnown
<1>1. ASSUME ControllerInv PROVE StopsAreKnown
  <2> SUFFICES ASSUME NEW v \in Vs, NEW r \in Ref,
                      rec[r].session = v, adapter[v].queue = <<>>,
                      adapter[v].phase = "up", adapter[v].exec = "stopped"
               PROVE  \/ rec[r].state \in Dead
                      \/ rec[r].state = "stopped" /\ rec[r].seen = adapter[v].stops
    BY DEF StopsAreKnown
  <2> DEFINE a == adapter[v]
             rc == rec[r]
  <2>1. /\ Hears(rc, a) /\ RecordFits(rc) /\ StreamFits(a) /\ rc \in SessionRecord
        /\ a \in AdapterRecord /\ v # None
    BY <1>1, InvFacts, Constants DEF RecordsHear, RecordsFit, StreamsFit
  <2>2. ~Through(a)
    BY DEF Through
  <2>3. \A k : ~Announced(a, k)
    <3>1. Len(a.queue) = 0
      BY SMT
    <3> HIDE DEF a
    <3> QED
      BY <3>1, SMT DEF Announced
  <2>4. rc.seen \in Int /\ a.stops \in Int
    BY <2>1, Constants, SMT DEF SessionRecord, AdapterRecord
  <2>5. rc.seen = a.stops
    <3>1. a.stops > 0 /\ rc.seen <= a.stops
      BY <2>1 DEF StreamFits, Hears
    <3>2. \A k \in 1..a.stops : ~(k > rc.seen)
      BY <2>1, <2>2, <2>3 DEF Hears
    <3>3. a.stops \in 1..a.stops
      BY <2>4, <3>1, SMT
    <3>4. ~(a.stops > rc.seen)
      BY <3>2, <3>3
    <3> HIDE DEF a, rc
    <3> QED
      BY <2>4, <3>1, <3>4, SMT
  <2>6. rc.state # "running"
    BY <2>1, <2>2, <2>3 DEF Hears
  <2>7. rc.state \notin {"none", "starting"}
    BY <2>1 DEF RecordFits
  <2>8. rc.state \in {"none", "starting", "running", "stopped"} \cup Dead
    BY <2>1 DEF SessionRecord
  <2> QED
    BY <2>5, <2>6, <2>7, <2>8
<1> QED
  BY <1>1, Invariant, PTL

-----------------------------------------------------------------------------
(* The resumes that leave *)

\* No call begins to send a resume.
Quiet == \A d \in Caller : call'[d] = call[d] \/ call'[d].pc # "sent" \/ call'[d].op # "resume"

LEMMA ReplyQuiet == ASSUME ControllerInv, NEW c \in Caller, Reply(c) PROVE Quiet
<1>1. call' = [call EXCEPT ![c] = NoCall] /\ call \in [Caller -> Call]
  BY InvFacts DEF Reply
<1>2. NoCall.pc = "idle"
  BY DEF NoCall
<1> QED
  BY <1>1, <1>2 DEF Quiet

LEMMA NewCallQuiet ==
    ASSUME ControllerInv, NEW c \in Caller, NEW cl, NewCall(c, cl),
           cl.pc # "sent" \/ cl.op # "resume"
    PROVE  Quiet
<1>1. call' = [call EXCEPT ![c] = cl] /\ call \in [Caller -> Call]
  BY InvFacts DEF NewCall
<1> QED
  BY <1>1 DEF Quiet

LEMMA NotifyQuiet ==
    ASSUME NEW L, Notify(L), \A d \in Caller : L[d] = call[d] \/ L[d].pc # "sent"
    PROVE  Quiet
<1>1. \A d \in Caller : call'[d] = L[d] \/ call'[d] = NoCall
  BY DEF Notify
<1>2. NoCall.pc = "idle"
  BY DEF NoCall
<1> QED
  BY <1>1, <1>2 DEF Quiet

\* The pc of one call changes.
LEMMA PcQuiet ==
    ASSUME ControllerInv, NEW c \in Caller, NEW cl, call' = [call EXCEPT ![c] = cl],
           cl.pc # "sent"
    PROVE  Quiet
<1>1. call \in [Caller -> Call]
  BY InvFacts
<1> QED
  BY <1>1 DEF Quiet

LEMMA StillQuiet == ASSUME UNCHANGED call PROVE Quiet
BY DEF Quiet

ResumesCurrently ==
    \A d \in Caller : call'[d].op = "resume" /\ call'[d].pc = "sent" /\ call[d].pc # "sent"
         => Current(call'[d].ref, call'[d].mark)

LEMMA QuietIsCurrent == ASSUME Quiet PROVE ResumesCurrently
BY DEF Quiet, ResumesCurrently

LEMMA AskQuiet ==
    ASSUME ControllerInv, NEW c \in Caller, NEW r, NEW epoch, NEW requests,
           Ask(c, r, epoch, requests)
    PROVE  Quiet
<1> DEFINE cl == [NoCall EXCEPT !.op = "inspect", !.pc = "asked", !.ref = r, !.mark = epoch,
                                !.named = rec[r].seen, !.left = requests]
<1>1. NewCall(c, cl)
  BY Zenon DEF Ask
<1>2. cl.pc = "asked"
  BY DEF NoCall
<1> HIDE DEF cl
<1> QED
  BY <1>1, <1>2, NewCallQuiet

\* Every handler but two begins with something else than a resume request.
LEMMA BeginsQuiet ==
    ASSUME ControllerInv, NEW c \in Caller, NEW r, NEW t,
           \/ StartSession(c, t) \/ WaitForExecution(c, r) \/ WaitForReady(c, r)
           \/ Pause(c, r) \/ Disconnect(c, r) \/ UpdateBreakpoints(c)
    PROVE  Quiet
<1>1. CASE StartSession(c, t)
  <2> DEFINE cl == [NoCall EXCEPT !.op = "start", !.pc = "revalidate", !.target = t]
  <2>1. NewCall(c, cl) /\ cl.pc = "revalidate"
    BY <1>1 DEF StartSession, NoCall
  <2> HIDE DEF cl
  <2> QED
    BY <2>1, NewCallQuiet
<1>2. CASE WaitForExecution(c, r)
  <2> DEFINE cl == [NoCall EXCEPT !.op = "wait", !.pc = "waiting", !.ref = r,
                                  !.mark = rec[r].cursor]
  <2>1. NewCall(c, cl) /\ cl.pc = "waiting"
    BY <1>2 DEF WaitForExecution, NoCall
  <2> HIDE DEF cl
  <2> QED
    BY <2>1, NewCallQuiet
<1>3. CASE WaitForReady(c, r)
  <2> DEFINE cl == [NoCall EXCEPT !.op = "ready", !.pc = "waiting", !.ref = r]
  <2>1. NewCall(c, cl) /\ cl.pc = "waiting"
    BY <1>3 DEF WaitForReady, NoCall
  <2> HIDE DEF cl
  <2> QED
    BY <2>1, NewCallQuiet
<1>4. CASE Pause(c, r)
  <2> DEFINE cl == [NoCall EXCEPT !.op = "pause", !.pc = AvailableThread(FALSE), !.ref = r]
  <2>1. NewCall(c, cl) /\ cl.pc = "asked"
    BY <1>4 DEF Pause, NoCall, AvailableThread
  <2> HIDE DEF cl
  <2> QED
    BY <2>1, NewCallQuiet
<1>5. CASE Disconnect(c, r)
  <2> DEFINE cl == [NoCall EXCEPT !.op = "disconnect", !.pc = "stopping", !.ref = r]
  <2>1. NewCall(c, cl) /\ cl.pc = "stopping"
    BY <1>5 DEF Disconnect, NoCall
  <2> HIDE DEF cl
  <2> QED
    BY <2>1, NewCallQuiet
<1>6. CASE UpdateBreakpoints(c)
  <2> DEFINE cl == [NoCall EXCEPT !.op = "breakpoints", !.pc = "resolving", !.mark = made + 1]
  <2>1. NewCall(c, cl) /\ cl.pc = "resolving"
    BY <1>6 DEF UpdateBreakpoints, NoCall
  <2> HIDE DEF cl
  <2> QED
    BY <2>1, NewCallQuiet
<1> QED
  BY <1>1, <1>2, <1>3, <1>4, <1>5, <1>6

LEMMA InspectionsQuiet ==
    ASSUME ControllerInv, NEW c \in Caller,
           \/ FailureSnapshot(c)
           \/ \E r \in Ref :
                 \/ StateSnapshot(c, r)
                 \/ \E epoch \in 1..rec[r].epoch :
                       \/ ExpandVariables(c, r, epoch) \/ RequestContext(c, r, epoch)
                       \/ InspectExpression(c, r, epoch)
    PROVE  Quiet
<1>1. \E r \in Ref, requests \in {1, MaxRequests} : \E epoch : Ask(c, r, epoch, requests)
  BY DEF FailureSnapshot, StateSnapshot, ExpandVariables, RequestContext, InspectExpression
<1> QED
  BY <1>1, AskQuiet

\* ... and none but one goes on with one.
LEMMA GoesOnQuiet ==
    ASSUME ControllerInv, NEW c \in Caller,
           \/ Revalidated(c) \/ TargetChanged(c) \/ Launched(c) \/ LaunchRefused(c)
           \/ WaitEnds(c) \/ InspectContinues(c) \/ ControlReply(c) \/ Disconnected(c)
           \/ RequestFails(c) \/ BreakpointsRefused(c) \/ SwapBreakpoints(c)
    PROVE  Quiet
<1>1. CASE \/ TargetChanged(c) \/ Launched(c) \/ WaitEnds(c) \/ ControlReply(c)
           \/ Disconnected(c) \/ RequestFails(c) \/ BreakpointsRefused(c) \/ SwapBreakpoints(c)
  <2>1. Reply(c)
    BY <1>1, Zenon DEF TargetChanged, Launched, WaitEnds, ControlReply, Disconnected, RequestFails,
                       BreakpointsRefused, SwapBreakpoints
  <2> QED
    BY <2>1, ReplyQuiet
<1>2. CASE Revalidated(c)
  <2> DEFINE r == Fresh(rec)
             cl == [[call[c] EXCEPT !.pc = "launch"] EXCEPT !.ref = r]
  <2>1. call \in [Caller -> Call] /\ call[c] \in Call
    BY InvFacts
  <2>2. call' = [call EXCEPT ![c].pc = "launch", ![c].ref = r]
    BY <1>2 DEF Revalidated
  <2> HIDE DEF r
  <2>3. call' = [call EXCEPT ![c] = cl]
    BY <2>1, <2>2
  <2>4. cl.pc = "launch"
    BY <2>1 DEF Call
  <2> HIDE DEF cl
  <2> QED
    BY <2>3, <2>4, PcQuiet
<1>3. CASE LaunchRefused(c)
  <2> DEFINE L == [call EXCEPT ![c] = NoCall]
  <2>1. Notify(L)
    BY <1>3 DEF LaunchRefused
  <2>2. \A d \in Caller : L[d] = call[d] \/ L[d].pc # "sent"
    BY InvFacts DEF NoCall
  <2> HIDE DEF L
  <2> QED
    BY <2>1, <2>2, NotifyQuiet
<1>4. CASE InspectContinues(c)
  <2> DEFINE k == [call[c] EXCEPT !.pc = "asked"]
             b == [k EXCEPT !.left = call[c].left - 1]
             e == [call[c] EXCEPT !.pc = "returned"]
  <2>1. call \in [Caller -> Call] /\ call[c] \in Call
    BY InvFacts
  <2>2. \/ Reply(c)
        \/ call' = [call EXCEPT ![c].pc = "asked", ![c].left = @ - 1]
        \/ call' = [call EXCEPT ![c].pc = "returned"]
    BY <1>4, Zenon DEF InspectContinues
  <2>3. k.pc = "asked" /\ k.left = call[c].left /\ k \in Call
    <3>1. "asked" \in Pcs
      BY DEF Pcs
    <3> QED
      BY <2>1, <3>1, PcFacts
  <2>4. Reply(c) \/ call' = [call EXCEPT ![c] = b] \/ call' = [call EXCEPT ![c] = e]
    BY <2>1, <2>2
  <2> HIDE DEF k
  <2>5. b.pc = "asked"
    BY <2>3 DEF Call
  <2>6. e.pc = "returned"
    BY <2>1 DEF Call
  <2> HIDE DEF b, e
  <2> QED
    BY <2>4, <2>5, <2>6, PcQuiet, ReplyQuiet
<1> QED
  BY <1>1, <1>2, <1>3, <1>4

\* The two steps that send one look at the stop first.
LEMMA ResumeIsCurrent ==
    ASSUME ControllerInv, NEW c \in Caller, NEW r, NEW epoch, Resume(c, r, epoch)
    PROVE  ResumesCurrently
<1>1. PICK known \in BOOLEAN :
         NewCall(c, [NoCall EXCEPT !.op = "resume", !.pc = AvailableThread(known),
                                   !.ref = r, !.mark = epoch, !.named = rec[r].seen])
  BY Zenon DEF Resume
<1> DEFINE cl == [NoCall EXCEPT !.op = "resume", !.pc = AvailableThread(known),
                                !.ref = r, !.mark = epoch, !.named = rec[r].seen]
<1>2. Current(r, epoch) /\ call' = [call EXCEPT ![c] = cl] /\ call \in [Caller -> Call]
  BY <1>1, InvFacts DEF Resume, NewCall
<1>3. cl.ref = r /\ cl.mark = epoch
  BY DEF NoCall
<1> HIDE DEF cl
<1> QED
  BY <1>2, <1>3 DEF ResumesCurrently

LEMMA ThreadFoundIsCurrent ==
    ASSUME ControllerInv, NEW c \in Caller, ThreadFound(c)
    PROVE  ResumesCurrently
<1> DEFINE cl == call[c]
           b == [cl EXCEPT !.pc = "sent"]
<1>1. /\ cl.op \in {"resume", "pause"}
      /\ \/ /\ call' = [call EXCEPT ![c].pc = "sent"]
            /\ cl.op = "resume" => Current(cl.ref, cl.mark)
         \/ Reply(c)
  BY DEF ThreadFound
<1>2. call \in [Caller -> Call] /\ cl \in Call
  BY InvFacts
<1>3. CASE Reply(c)
  BY <1>3, ReplyQuiet, QuietIsCurrent
<1>4. CASE ~Reply(c)
  <2>1. call' = [call EXCEPT ![c] = b] /\ (cl.op = "resume" => Current(cl.ref, cl.mark))
    BY <1>1, <1>2, <1>4
  <2>2. b.op = cl.op /\ b.ref = cl.ref /\ b.mark = cl.mark
    BY <1>2, SMT DEF Call
  <2> HIDE DEF b
  <2> QED
    BY <1>2, <2>1, <2>2 DEF ResumesCurrently
<1> QED
  BY <1>3, <1>4

LEMMA ReplyReadPcs ==
    ASSUME ControllerInv, NEW v
    PROVE  \A d \in Caller : ReplyRead(v)[d] = call[d] \/ ReplyRead(v)[d].pc # "sent"
<1> DEFINE m == Head(adapter[v].queue)
           c == m.call
           p == IF call[c].pc = "served" THEN "answered" ELSE "settled"
           k == [[call[c] EXCEPT !.pc = p] EXCEPT !.data = m.no]
<1> SUFFICES ASSUME NEW d \in Caller
             PROVE  ReplyRead(v)[d] = call[d] \/ ReplyRead(v)[d].pc # "sent"
  OBVIOUS
<1>1. call \in [Caller -> Call] /\ call[d] \in Call
  BY InvFacts
<1>2. ReplyRead(v) = [call EXCEPT ![c].pc = p, ![c].data = m.no]
  BY <1>1 DEF ReplyRead
<1>3. p # "sent"
  OBVIOUS
<1> HIDE DEF m, p
<1>4. CASE d = c
  <2>1. ReplyRead(v) = [call EXCEPT ![c] = k]
    BY <1>1, <1>2, <1>4
  <2>2. k.pc = p
    BY <1>1, <1>4 DEF Call
  <2> HIDE DEF k
  <2> QED
    BY <1>1, <1>3, <1>4, <2>1, <2>2
<1>5. CASE d # c
  BY <1>1, <1>2, <1>5
<1> QED
  BY <1>4, <1>5

\* Neither VS Code nor an adapter sends a resume for a call.
LEMMA OutsideQuiet ==
    ASSUME ControllerInv, NEW v \in Vs, Session(v) \/ Adapter(v)
    PROVE  Quiet
<1>1. CASE MessageArrives(v)
  <2> DEFINE m == Head(adapter[v].queue)
             L == IF m.kind # "reply" THEN call ELSE ReplyRead(v)
  <2>1. Notify(L)
    <3>1. Notify(IF m.kind # "reply" THEN call
                 ELSE [call EXCEPT ![m.call].pc = IF @ = "served" THEN "answered" ELSE "settled",
                                   ![m.call].data = m.no])
      BY <1>1, ZenonT(40) DEF MessageArrives
    <3>2. CASE m.kind = "reply"
      BY <3>1, <3>2, Zenon DEF ReplyRead
    <3>3. CASE m.kind # "reply"
      BY <3>1, <3>3, SMTT(30)
    <3> QED
      BY <3>2, <3>3
  <2>2. \A d \in Caller : L[d] = call[d] \/ L[d].pc # "sent"
    BY <1>1, ReplyReadPcs, Zenon DEF MessageArrives
  <2> HIDE DEF L
  <2> QED
    BY <2>1, <2>2, NotifyQuiet
<1>2. CASE SessionStarted(v) \/ SessionTerminated(v)
  <2>1. Notify(call)
    BY <1>2, Zenon DEF SessionStarted, SessionTerminated
  <2> QED
    BY <2>1, NotifyQuiet
<1>3. CASE \/ \E r \in Ref \cup {NoRef} : CreateSession(v, r)
           \/ Finalized(v) \/ AdapterReady(v) \/ AdapterEnds(v) \/ AdapterDisconnects(v)
           \/ AdapterStops(v) \/ UserContinues(v) \/ AdapterNotes(v)
  <2>1. UNCHANGED call
    BY <1>3, Zenon DEF CreateSession, Finalized, AdapterReady, AdapterEnds, AdapterDisconnects,
                       AdapterStops, UserContinues, AdapterNotes
  <2> QED
    BY <2>1, StillQuiet
<1>4. CASE \E c \in Caller : AdapterServes(v, c)
  <2>1. PICK c \in Caller : call' = [call EXCEPT ![c].pc = "served"]
    BY <1>4, Zenon DEF AdapterServes
  <2> DEFINE k == [call[c] EXCEPT !.pc = "served"]
  <2>2. call \in [Caller -> Call] /\ call[c] \in Call
    BY InvFacts
  <2>3. call' = [call EXCEPT ![c] = k] /\ k.pc = "served"
    BY <2>1, <2>2 DEF Call
  <2> HIDE DEF k
  <2> QED
    BY <2>3, PcQuiet
<1>5. CASE \E c \in Caller : AdapterExecutes(v, c)
  <2> DEFINE no == adapter[v].stops
  <2>1. PICK c \in Caller : call' = [call EXCEPT ![c].pc = "executed", ![c].data = no]
    BY <1>5, Zenon DEF AdapterExecutes
  <2> DEFINE k == [[call[c] EXCEPT !.pc = "executed"] EXCEPT !.data = no]
  <2>2. call \in [Caller -> Call] /\ call[c] \in Call
    BY InvFacts
  <2> HIDE DEF no
  <2>3. call' = [call EXCEPT ![c] = k]
    BY <2>1, <2>2
  <2>4. k.pc = "executed"
    BY <2>2 DEF Call
  <2> HIDE DEF k
  <2> QED
    BY <2>3, <2>4, PcQuiet
<1> QED
  BY <1>1, <1>2, <1>3, <1>4, <1>5, Zenon DEF Session, Adapter

LEMMA ToolCallIsCurrent ==
    ASSUME ControllerInv, NEW c \in Caller, ToolCall(c)
    PROVE  ResumesCurrently
<1>1. CASE \/ \E t \in Target : StartSession(c, t)
           \/ \E r \in Ref : \/ WaitForExecution(c, r) \/ WaitForReady(c, r)
                             \/ Pause(c, r) \/ Disconnect(c, r)
           \/ UpdateBreakpoints(c)
  <2>1. Quiet
    BY <1>1, BeginsQuiet
  <2> QED
    BY <2>1, QuietIsCurrent
<1>2. CASE \/ FailureSnapshot(c)
           \/ \E r \in Ref :
                 \/ StateSnapshot(c, r)
                 \/ \E epoch \in 1..rec[r].epoch :
                       \/ ExpandVariables(c, r, epoch) \/ RequestContext(c, r, epoch)
                       \/ InspectExpression(c, r, epoch)
  <2>1. Quiet
    BY <1>2, InspectionsQuiet
  <2> QED
    BY <2>1, QuietIsCurrent
<1>3. CASE \E r \in Ref : \E epoch \in 1..rec[r].epoch : Resume(c, r, epoch)
  BY <1>3, ResumeIsCurrent
<1>4. CASE ThreadFound(c)
  BY <1>4, ThreadFoundIsCurrent
<1>5. CASE \/ Revalidated(c) \/ TargetChanged(c) \/ Launched(c) \/ LaunchRefused(c)
           \/ WaitEnds(c) \/ InspectContinues(c) \/ ControlReply(c) \/ Disconnected(c)
           \/ RequestFails(c) \/ BreakpointsRefused(c) \/ SwapBreakpoints(c)
  <2>1. Quiet
    BY <1>5, GoesOnQuiet
  <2> QED
    BY <2>1, QuietIsCurrent
<1> QED
  BY <1>1, <1>2, <1>3, <1>4, <1>5, Zenon DEF ToolCall

\* A resume leaves only while the stop its caller named is the current one, however long the
\* look-up of a thread took: controlSession checks the stop again after the look-up.
THEOREM ResumesCurrent == Spec => ResumesAreCurrent
<1>1. ASSUME ControllerInv, [Next]_vars PROVE ResumesCurrently
  <2>1. CASE \E t \in Target : ListTarget(t)
    <3>1. UNCHANGED call
      BY <2>1, Zenon DEF ListTarget
    <3> QED
      BY <3>1, StillQuiet, QuietIsCurrent
  <2>2. CASE \E c \in Caller : ToolCall(c)
    BY <1>1, <2>2, ToolCallIsCurrent
  <2>3. CASE \E v \in Vs : Session(v) \/ Adapter(v)
    BY <1>1, <2>3, OutsideQuiet, QuietIsCurrent
  <2>4. CASE ClearOwnedBreakpoints
    <3>1. UNCHANGED call
      BY <2>4 DEF ClearOwnedBreakpoints
    <3> QED
      BY <3>1, StillQuiet, QuietIsCurrent
  <2>5. CASE UNCHANGED vars
    <3>1. UNCHANGED call
      BY <2>5 DEF vars
    <3> QED
      BY <3>1, StillQuiet, QuietIsCurrent
  <2> QED
    BY <1>1, <2>1, <2>2, <2>3, <2>4, <2>5, Zenon DEF Next
<1>2. ControllerInv /\ [Next]_vars =>
         [\A c \in Caller : call'[c].op = "resume" /\ call'[c].pc = "sent" /\ call[c].pc # "sent"
            => Current(call'[c].ref, call'[c].mark)]_vars
  BY <1>1 DEF ResumesCurrently
<1> QED
  BY <1>2, Invariant, PTL DEF Spec, ResumesAreCurrent

-----------------------------------------------------------------------------
(* The records that are over *)

\* Only a start makes a record, and it takes a fresh one.
LEMMA RevalidatedAdvances ==
    ASSUME ControllerInv, NEW c \in Caller, Revalidated(c)
    PROVE  \A q \in Ref : rec[q].state = "none" \/ rec'[q] = rec[q]
<1> DEFINE r == Fresh(rec)
           b == Created(call[c].target)
<1>1. MayMint /\ rec' = [rec EXCEPT ![r] = b]
  BY Zenon DEF Revalidated, Created
<1>2. r \in Ref /\ rec[r].state = "none"
  BY <1>1, FreshFacts DEF MayMint
<1>3. rec \in [Ref -> SessionRecord]
  BY InvFacts
<1> HIDE DEF r, b
<1> QED
  BY <1>1, <1>2, <1>3

LEMMA ToolCallAdvances ==
    ASSUME ControllerInv, NEW c \in Caller, ToolCall(c)
    PROVE  Advance \/ \A q \in Ref : rec[q].state = "none" \/ rec'[q] = rec[q]
<1>1. CASE \/ LaunchRefused(c) \/ ThreadFound(c) \/ ControlReply(c) \/ Disconnected(c)
           \/ RequestFails(c)
  BY <1>1, LaunchRefusedStep, ThreadFoundStep, ControlReplyStep, DisconnectedStep,
     RequestFailsStep
<1>2. CASE \E r \in Ref : \/ Pause(c, r) \/ Disconnect(c, r)
                          \/ \E epoch \in 1..rec[r].epoch : Resume(c, r, epoch)
  BY <1>2, PauseStep, DisconnectStep, ResumeStep
<1>3. CASE Revalidated(c)
  BY <1>3, RevalidatedAdvances
<1>4. CASE \/ \E t \in Target : StartSession(c, t)
           \/ \E r \in Ref : WaitForExecution(c, r) \/ WaitForReady(c, r)
           \/ TargetChanged(c) \/ Launched(c) \/ WaitEnds(c) \/ InspectContinues(c)
           \/ UpdateBreakpoints(c) \/ BreakpointsRefused(c) \/ SwapBreakpoints(c)
  <2>1. UNCHANGED rec
    BY <1>4, Zenon DEF StartSession, WaitForExecution, WaitForReady, TargetChanged, Launched,
                       WaitEnds, InspectContinues, UpdateBreakpoints, BreakpointsRefused,
                       SwapBreakpoints
  <2> QED
    BY <2>1, RecordsStay
<1>5. CASE \/ FailureSnapshot(c)
           \/ \E r \in Ref :
                 \/ StateSnapshot(c, r)
                 \/ \E epoch \in 1..rec[r].epoch :
                       \/ ExpandVariables(c, r, epoch) \/ RequestContext(c, r, epoch)
                       \/ InspectExpression(c, r, epoch)
  <2>1. \E r \in Ref, requests \in {1, MaxRequests} : \E epoch : Ask(c, r, epoch, requests)
    BY <1>5 DEF FailureSnapshot, StateSnapshot, ExpandVariables, RequestContext,
                InspectExpression
  <2>2. UNCHANGED rec
    BY <2>1, Zenon DEF Ask
  <2> QED
    BY <2>2, RecordsStay
<1> QED
  BY <1>1, <1>2, <1>3, <1>4, <1>5, Zenon DEF ToolCall

LEMMA OutsideAdvances ==
    ASSUME ControllerInv, NEW v \in Vs, Session(v) \/ Adapter(v)
    PROVE  Advance
<1>1. CASE SessionStarted(v) \/ SessionTerminated(v) \/ MessageArrives(v)
  BY <1>1, SessionStartedStep, SessionTerminatedStep, MessageArrivesStep
<1>2. CASE \/ \E r \in Ref \cup {NoRef} : CreateSession(v, r)
           \/ Finalized(v)
  <2>1. UNCHANGED rec
    BY <1>2, Zenon DEF CreateSession, Finalized
  <2> QED
    BY <2>1, RecordsStay
<1>3. CASE Adapter(v)
  <2>1. \E b : Becomes(v, b)
    <3>1. CASE AdapterReady(v) \/ AdapterStops(v) \/ AdapterNotes(v)
      BY <3>1, Zenon DEF AdapterReady, AdapterStops, AdapterNotes
    <3>2. CASE AdapterEnds(v) \/ AdapterDisconnects(v) \/ UserContinues(v)
      BY <3>2, Zenon DEF AdapterEnds, AdapterDisconnects, UserContinues
    <3>3. CASE \E c \in Caller : AdapterServes(v, c) \/ AdapterExecutes(v, c)
      BY <3>3, Zenon DEF AdapterServes, AdapterExecutes
    <3> QED
      BY <1>3, <3>1, <3>2, <3>3, Zenon DEF Adapter
  <2>2. UNCHANGED rec
    BY <2>1, Zenon DEF Becomes
  <2> QED
    BY <2>2, RecordsStay
<1> QED
  BY <1>1, <1>2, <1>3, Zenon DEF Session

\* A record that has terminated stays so, whatever comes after the end, and the reference of a
\* start that VS Code refused stays unknown: every handler that writes a record's state looks
\* at it first.
THEOREM DeadStay == Spec => DeadStayDead
<1> DEFINE Stays == \A r \in Ref :
               /\ rec[r].state = "terminated" => rec'[r].state = "terminated"
               /\ rec[r].state # "none" /\ ~rec[r].known => ~rec'[r].known
<1>1. ASSUME ControllerInv, [Next]_vars
      PROVE  Advance \/ \A q \in Ref : rec[q].state = "none" \/ rec'[q] = rec[q]
  <2>1. CASE \E t \in Target : ListTarget(t)
    <3>1. UNCHANGED rec
      BY <2>1, Zenon DEF ListTarget
    <3> QED
      BY <1>1, <3>1, RecordsStay
  <2>2. CASE \E c \in Caller : ToolCall(c)
    BY <1>1, <2>2, ToolCallAdvances
  <2>3. CASE \E v \in Vs : Session(v) \/ Adapter(v)
    BY <1>1, <2>3, OutsideAdvances
  <2>4. CASE ClearOwnedBreakpoints
    <3>1. UNCHANGED rec
      BY <2>4 DEF ClearOwnedBreakpoints
    <3> QED
      BY <1>1, <3>1, RecordsStay
  <2>5. CASE UNCHANGED vars
    <3>1. UNCHANGED rec
      BY <2>5 DEF vars
    <3> QED
      BY <1>1, <3>1, RecordsStay
  <2> QED
    BY <1>1, <2>1, <2>2, <2>3, <2>4, <2>5, Zenon DEF Next
<1>2. ControllerInv /\ [Next]_vars => Stays
  <2> SUFFICES ASSUME ControllerInv, [Next]_vars PROVE Stays
    OBVIOUS
  <2>1. CASE Advance
    BY <2>1 DEF Advance, Moves
  <2>2. CASE \A q \in Ref : rec[q].state = "none" \/ rec'[q] = rec[q]
    BY <2>2
  <2> QED
    BY <1>1, <2>1, <2>2
<1>3. ControllerInv /\ [Next]_vars =>
         [\A r \in Ref : /\ rec[r].state = "terminated" => rec'[r].state = "terminated"
                         /\ rec[r].state # "none" /\ ~rec[r].known => ~rec'[r].known]_vars
  BY <1>2
<1> QED
  BY <1>3, Invariant, PTL DEF Spec, DeadStayDead

=============================================================================
