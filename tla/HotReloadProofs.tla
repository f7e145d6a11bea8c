---------------------------- MODULE HotReloadProofs ----------------------------
(***************************************************************************)
(* Proofs about hot reload of one target, for every number of files, saves, *)
(* leases, batches, requests and watcher threads.                           *)
(***************************************************************************)
EXTENDS HotReload, TLAPS

ExtRecord == [backlog : SUBSET File, timer : BOOLEAN, batch : Batch \cup {Nothing},
              pending : SUBSET File, inFlight : SUBSET File, next : 1..(MaxBatch + 1)]
DrainRecord == [lease : Lease \cup {Nothing}, again : BOOLEAN,
                pc : {"idle", "unlink", "rename", "sent", "poll", "check", "longPoll", "take"},
                req : Request \cup {Nothing}, ok : BOOLEAN,
                outcome : {"none", "cancelled", "reloaded", "failed", "timedOut"}]
LeaseRecord == [id : Lease \cup {Nothing}, st : {"none", "offered", "active", "lapsed"}]
SentRecord == [batch : Batch, files : SUBSET File, ver : [File -> Version]]
Result == [req : Request \cup {Nothing}, ok : BOOLEAN]
Place == {"off", "loop", "claimed", "reload", "publish", "clear", "exit", "enter", "start", "fail"}

-----------------------------------------------------------------------------
(* The inductive invariant *)

\* The extension's record of the target, whatever it holds.
ExtFits(x) ==
    /\ x \in ExtRecord
    /\ x.batch = Nothing => x.pending = {} /\ x.inFlight = {}
    /\ x.batch < x.next

\* The current batch is that of the lease l, if that counts.
BatchFits(x, d, l) == l # Nothing /\ x.batch # Nothing => d[x.batch].lease = l

LeaseFits ==
    /\ lease \in LeaseRecord /\ fresh \subseteq Lease /\ accepted \subseteq Lease
    /\ lease.st # "none" => lease.id # Nothing
    /\ \A l \in accepted : l <= lease.id

\* Somebody is on the way to a watcher, or will look for one at its end.
OnTheWay == \E t \in Thread \cup {Control} : at[t] \in {"enter", "start", "exit"}

\* A live lease has its watcher and the suppression, or somebody who is about to see to it.
WatchedOrOnTheWay ==
    /\ thread # None => at[thread] \in {"loop", "claimed", "reload", "publish", "clear", "exit"}
    /\ Pruned(accepted) # {} => /\ suppressed \/ at[Control] = "enter"
                                /\ thread # None \/ OnTheWay

\* Every request anybody holds was made.
Made == 0..Len(sent)
RequestsFit ==
    /\ Len(sent) <= MaxRequest
    /\ reqFile \in Made /\ procFile \in Made /\ resFile.req \in Made
    /\ \A b \in Batch : drain[b].req \in Made
    /\ \A w \in Thread : job[w].req \in Made /\ (at[w] = "reload" => job[w].req # Nothing)

VersionsFit ==
    /\ \A f \in File : loaded[f] <= saved[f]
    /\ \A q \in 1..Len(sent) : \A f \in File : sent[q].ver[f] <= saved[f]

LoadedFor(q) == q \in 1..Len(sent) /\ \A f \in sent[q].files : loaded[f] >= sent[q].ver[f]

\* A good result, wherever it is, is of a request whose files are loaded.
ResultsFit ==
    /\ resFile.ok => LoadedFor(resFile.req)
    /\ \A w \in Thread : at[w] = "publish" /\ job[w].ok => LoadedFor(job[w].req)
    /\ \A b \in Batch : drain[b].pc = "take" /\ drain[b].ok => LoadedFor(drain[b].req)

HotReloadInv ==
    /\ TypeOK /\ LeaseFits /\ WatchedOrOnTheWay /\ RequestsFit /\ VersionsFit /\ ResultsFit
    /\ ExtFits(ext) /\ BatchFits(ext, drain, Active(lease))

LEMMA Types ==
    ASSUME TypeOK
    PROVE  /\ wanted \in BOOLEAN /\ lease \in LeaseRecord /\ ext \in ExtRecord
           /\ drain \in [Batch -> DrainRecord] /\ sent \in Seq(SentRecord)
           /\ resFile \in Result /\ at \in [Thread \cup {Control} -> Place]
           /\ job \in [Thread -> Result]
  BY DEF TypeOK, LeaseRecord, ExtRecord, DrainRecord, SentRecord, Result, Place

LEMMA InitHotReload == Init => HotReloadInv
  <1> SUFFICES ASSUME Init PROVE HotReloadInv
    OBVIOUS
  <1>1. ext \in ExtRecord /\ drain \in [Batch -> DrainRecord] /\ lease \in LeaseRecord
        /\ NoResult \in Result /\ 0 \in Version /\ sent \in Seq(SentRecord)
    BY HotReloadAssumption DEF Init, ExtRecord, DrainRecord, LeaseRecord, Result, NoResult,
       Nothing, Version
  <1>2. TypeOK
    BY <1>1, HotReloadAssumption DEF Init, TypeOK, ExtRecord, DrainRecord, LeaseRecord, Result,
       SentRecord, Nothing
  <1>3. LeaseFits /\ WatchedOrOnTheWay /\ RequestsFit /\ VersionsFit /\ ResultsFit
    BY <1>1, HotReloadAssumption DEF Init, LeaseFits, WatchedOrOnTheWay, RequestsFit,
       VersionsFit, ResultsFit, Pruned, Made, NoResult, Nothing, Version
  <1>4. ExtFits(ext) /\ BatchFits(ext, drain, Active(lease))
    BY <1>1 DEF Init, ExtFits, BatchFits, Nothing
  <1> QED  BY <1>2, <1>3, <1>4 DEF HotReloadInv

-----------------------------------------------------------------------------
(* The extension's bookkeeping *)

HeldBy(x) == x.backlog \cup x.pending \cup x.inFlight

\* Whatever is decided about leases and batches, the drains in work go on.
DrainsGoOn(d, new) ==
    /\ new \in [Batch -> DrainRecord]
    /\ \A b \in Batch : /\ new[b].pc = d[b].pc /\ new[b].req = d[b].req
                        /\ new[b].ok = d[b].ok /\ new[b].outcome = d[b].outcome

LEMMA AbortFacts ==
    ASSUME NEW x, ExtFits(x), NEW want \in BOOLEAN
    PROVE  LET a == Abort(x, want)
           IN  /\ ExtFits(a) /\ a.batch = Nothing /\ a.next = x.next /\ a.timer = x.timer
               /\ a.pending = {} /\ a.inFlight = {}
               /\ want => HeldBy(a) = HeldBy(x)
  <1>1. x \in ExtRecord /\ Nothing \in Int /\ x.next \in Int /\ x.next > Nothing
    BY HotReloadAssumption DEF ExtFits, ExtRecord, Nothing
  <1>2. CASE x.batch = Nothing
    BY <1>1, <1>2 DEF Abort, ExtFits
  <1>3. CASE x.batch # Nothing
    <2> DEFINE b == IF want THEN x.backlog \cup x.pending \cup x.inFlight ELSE x.backlog
               a == [backlog |-> b, timer |-> x.timer, batch |-> Nothing,
                     pending |-> {}, inFlight |-> {}, next |-> x.next]
    <2>1. Abort(x, want) = a
      BY <1>1, <1>3 DEF Abort, ExtRecord
    <2>2. b \in SUBSET File
      BY <1>1 DEF ExtRecord
    <2>3. a \in ExtRecord
      BY <1>1, <2>2 DEF ExtRecord
    <2> QED  BY <1>1, <2>1, <2>3 DEF ExtFits, HeldBy
  <1> QED  BY <1>2, <1>3

\* The records the bookkeeping makes of x.
LEMMA NewBatch ==
    ASSUME NEW x, ExtFits(x), x.next <= MaxBatch, NEW y,
           y = [x EXCEPT !.batch = x.next, !.next = @ + 1]
    PROVE  ExtFits(y) /\ HeldBy(y) = HeldBy(x) /\ y.batch = x.next /\ y.batch \in Batch
  <1>1. x \in ExtRecord /\ x.next \in Batch /\ MaxBatch \in Nat /\ Nothing \notin Batch
    BY HotReloadAssumption DEF ExtFits, ExtRecord, Batch, Nothing
  <1>2. /\ y.backlog = x.backlog /\ y.pending = x.pending /\ y.inFlight = x.inFlight
        /\ y.batch = x.next /\ y.next = x.next + 1
    BY <1>1 DEF ExtRecord
  <1>3. x.next + 1 \in 1..(MaxBatch + 1) /\ x.next \in Int
    BY <1>1 DEF Batch
  <1>4. y \in ExtRecord
    BY <1>1, <1>3 DEF ExtRecord
  <1> QED  BY <1>1, <1>2, <1>3, <1>4 DEF ExtFits, HeldBy

LEMMA NewPending ==
    ASSUME NEW x, ExtFits(x), x.batch \in Batch, NEW y,
           y = [x EXCEPT !.pending = @ \cup x.backlog, !.backlog = {}]
    PROVE  ExtFits(y) /\ HeldBy(y) = HeldBy(x) /\ y.batch = x.batch
  <1>1. x \in ExtRecord /\ Nothing \notin Batch
    BY DEF ExtFits, Batch, Nothing
  <1>2. /\ y.backlog = {} /\ y.pending = x.pending \cup x.backlog /\ y.inFlight = x.inFlight
        /\ y.batch = x.batch /\ y.next = x.next
    BY <1>1 DEF ExtRecord
  <1>3. x.pending \cup x.backlog \in SUBSET File /\ {} \in SUBSET File
    BY <1>1 DEF ExtRecord
  <1>4. y \in ExtRecord
    BY <1>1, <1>3 DEF ExtRecord
  <1> QED  BY <1>1, <1>2, <1>4 DEF ExtFits, HeldBy

LEMMA Emptied ==
    ASSUME NEW x, ExtFits(x), x.batch = Nothing, NEW y,
           y = [x EXCEPT !.backlog = {}, !.timer = FALSE]
    PROVE  ExtFits(y) /\ y.batch = Nothing
  <1>1. x \in ExtRecord
    BY DEF ExtFits
  <1>2. y.pending = x.pending /\ y.inFlight = x.inFlight /\ y.batch = x.batch /\ y.next = x.next
    BY <1>1 DEF ExtRecord
  <1>3. y \in ExtRecord
    BY <1>1 DEF ExtRecord
  <1> QED  BY <1>2, <1>3 DEF ExtFits

LEMMA FlushFacts ==
    ASSUME NEW e, ExtFits(e.ext), e.drain \in [Batch -> DrainRecord],
           NEW l \in Lease \cup {Nothing}, BatchFits(e.ext, e.drain, l),
           e.ext.next <= MaxBatch
    PROVE  LET r == Flush(e, l)
           IN  /\ ExtFits(r.ext) /\ DrainsGoOn(e.drain, r.drain)
               /\ BatchFits(r.ext, r.drain, l)
               /\ HeldBy(r.ext) = HeldBy(e.ext)
  <1>1. e.ext \in ExtRecord /\ Nothing \in Int /\ e.ext.next \in Batch /\ MaxBatch \in Nat
        /\ Nothing \notin Batch /\ Nothing \notin Lease
    BY HotReloadAssumption DEF ExtFits, ExtRecord, Nothing, Batch, Lease
  <1>2. CASE l = Nothing \/ e.ext.backlog = {}
    BY <1>2 DEF Flush, DrainsGoOn
  <1>3. CASE l # Nothing /\ e.ext.backlog # {}
    <2> DEFINE b == WithBatch(e, l)
    <2>1. /\ ExtFits(b.ext) /\ b.ext.batch \in Batch /\ b.drain \in [Batch -> DrainRecord]
          /\ HeldBy(b.ext) = HeldBy(e.ext)
          /\ b.drain[b.ext.batch].lease = l /\ DrainsGoOn(e.drain, b.drain)
      <3>1. CASE e.ext.batch # Nothing /\ e.drain[e.ext.batch].lease = l
        BY <1>1, <3>1 DEF WithBatch, DrainsGoOn, ExtRecord, ExtFits
      <3>2. CASE ~(e.ext.batch # Nothing /\ e.drain[e.ext.batch].lease = l)
        <4> DEFINE a == Abort(e.ext, TRUE)
                   x == [a EXCEPT !.batch = e.ext.next, !.next = @ + 1]
                   d == [e.drain EXCEPT ![e.ext.next].lease = l]
        <4>1. /\ ExtFits(a) /\ a.next = e.ext.next
              /\ HeldBy(a) = HeldBy(e.ext)
          BY AbortFacts
        <4>2. WithBatch(e, l) = [ext |-> x, drain |-> d]
          BY <3>2 DEF WithBatch
        <4> HIDE DEF a
        <4>3. ExtFits(x) /\ x.batch \in Batch /\ HeldBy(x) = HeldBy(a) /\ x.batch = e.ext.next
          BY <4>1, NewBatch
        <4>4. \A f \in [Batch -> DrainRecord], k \in Batch :
                 LET g == [f EXCEPT ![k].lease = l]
                 IN  g \in [Batch -> DrainRecord] /\ DrainsGoOn(f, g) /\ g[k].lease = l
          BY DEF DrainRecord, DrainsGoOn
        <4>5. d \in [Batch -> DrainRecord] /\ d[e.ext.next].lease = l /\ DrainsGoOn(e.drain, d)
          BY <1>1, <4>4
        <4> HIDE DEF x, d
        <4> QED  BY <4>1, <4>2, <4>3, <4>5
      <3> QED  BY <3>1, <3>2
    <2> DEFINE x == [b.ext EXCEPT !.pending = @ \cup b.ext.backlog, !.backlog = {}]
               d == [b.drain EXCEPT ![b.ext.batch].again = TRUE]
    <2>3. Flush(e, l) = [ext |-> x, drain |-> d]
      BY <1>3 DEF Flush
    <2> HIDE DEF b
    <2>4. ExtFits(x) /\ x.batch = b.ext.batch /\ HeldBy(x) = HeldBy(b.ext)
      BY <2>1, NewPending
    <2>5. d \in [Batch -> DrainRecord] /\ d[b.ext.batch].lease = l /\ DrainsGoOn(e.drain, d)
      <3>1. ASSUME NEW f \in [Batch -> DrainRecord], NEW k \in Batch
            PROVE  LET g == [f EXCEPT ![k].again = TRUE]
                   IN  /\ g \in [Batch -> DrainRecord] /\ DrainsGoOn(f, g)
                       /\ g[k].lease = f[k].lease
        <4> DEFINE r == f[k]
                   y == [r EXCEPT !.again = TRUE]
        <4>1. /\ y \in DrainRecord /\ y.lease = r.lease /\ y.pc = r.pc /\ y.req = r.req
              /\ y.ok = r.ok /\ y.outcome = r.outcome
          BY <3>1 DEF DrainRecord
        <4>2. [f EXCEPT ![k].again = TRUE] = [f EXCEPT ![k] = y]
          OBVIOUS
        <4> HIDE DEF y
        <4> QED  BY <3>1, <4>1, <4>2 DEF DrainsGoOn
      <3>2. d \in [Batch -> DrainRecord] /\ d[b.ext.batch].lease = l /\ DrainsGoOn(b.drain, d)
        BY <2>1, <3>1
      <3> QED  BY <2>1, <3>2 DEF DrainsGoOn
    <2> HIDE DEF x, d
    <2>6. BatchFits(x, d, l)
      BY <2>4, <2>5 DEF BatchFits
    <2> QED  BY <2>1, <2>3, <2>4, <2>5, <2>6
  <1> QED  BY <1>2, <1>3

LEMMA ReconcileFacts ==
    ASSUME NEW e, ExtFits(e.ext), e.drain \in [Batch -> DrainRecord],
           NEW l \in Lease \cup {Nothing}, NEW want \in BOOLEAN, e.ext.next <= MaxBatch
    PROVE  LET r == Reconcile(e, want, l)
           IN  /\ ExtFits(r.ext) /\ DrainsGoOn(e.drain, r.drain)
               /\ BatchFits(r.ext, r.drain, l)
               /\ want => HeldBy(r.ext) = HeldBy(e.ext)
  <1>1. CASE ~want
    <2> DEFINE a == Abort(e.ext, FALSE)
               x == [a EXCEPT !.backlog = {}, !.timer = FALSE]
    <2>1. ExtFits(a) /\ a.batch = Nothing
      BY AbortFacts
    <2>2. Reconcile(e, want, l) = [ext |-> x, drain |-> e.drain]
      BY <1>1 DEF Reconcile, DisposeWatcher
    <2> HIDE DEF a
    <2>3. ExtFits(x) /\ x.batch = Nothing
      BY <2>1, Emptied
    <2> HIDE DEF x
    <2> QED  BY <1>1, <2>2, <2>3 DEF BatchFits, DrainsGoOn
  <1>2. CASE want
    <2> DEFINE a == IF e.ext.batch # Nothing /\ e.drain[e.ext.batch].lease # l
                    THEN [ext |-> Abort(e.ext, TRUE), drain |-> e.drain] ELSE e
    <2>1. ExtFits(a.ext) /\ a.drain = e.drain /\ HeldBy(a.ext) = HeldBy(e.ext)
          /\ BatchFits(a.ext, a.drain, l) /\ a.ext.next = e.ext.next
      BY AbortFacts DEF BatchFits
    <2>2. Reconcile(e, want, l) = IF a.ext.timer THEN a ELSE Flush(a, l)
      BY <1>2 DEF Reconcile
    <2> HIDE DEF a
    <2>3. CASE a.ext.timer
      BY <2>1, <2>2, <2>3 DEF DrainsGoOn
    <2>4. CASE ~a.ext.timer
      <3>1. /\ ExtFits(Flush(a, l).ext) /\ DrainsGoOn(a.drain, Flush(a, l).drain)
            /\ BatchFits(Flush(a, l).ext, Flush(a, l).drain, l)
            /\ HeldBy(Flush(a, l).ext) = HeldBy(a.ext)
        BY <2>1, FlushFacts
      <3> QED  BY <2>1, <2>2, <2>4, <3>1
    <2> QED  BY <2>3, <2>4
  <1> QED  BY <1>1, <1>2

-----------------------------------------------------------------------------
(* What a step has to show for the invariant, by who takes it *)

\* A step of the extension or its manager: the target and the request files stay, a lease that
\* comes is a new one, and the drains in work go on.
LEMMA ExtensionStep ==
    ASSUME HotReloadInv, UNCHANGED target, UNCHANGED <<reqFile, procFile, resFile, sent>>,
           wanted' \in BOOLEAN, lease' \in LeaseRecord, lease'.st # "none" => lease'.id # Nothing,
           lease'.id >= lease.id,
           fresh' \subseteq Lease, accepted \cap fresh' \subseteq fresh,
           saved' \in [File -> Version], \A f \in File : saved[f] <= saved'[f],
           ExtFits(ext'), DrainsGoOn(drain, drain'), BatchFits(ext', drain', Active(lease'))
    PROVE  HotReloadInv'
  <1>1. /\ drain' \in [Batch -> DrainRecord] /\ ext' \in ExtRecord
        /\ \A b \in Batch : drain'[b].pc = drain[b].pc /\ drain'[b].req = drain[b].req
                            /\ drain'[b].ok = drain[b].ok
    BY DEF DrainsGoOn, ExtFits
  <1>2. TypeOK'
    BY <1>1 DEF HotReloadInv, TypeOK, LeaseRecord, ExtFits, ExtRecord, DrainRecord, target
  <1>3. LeaseFits'
    <2>1. lease.id \in Int /\ lease'.id \in Int /\ \A l \in Lease : l \in Int
      BY HotReloadAssumption DEF HotReloadInv, LeaseFits, LeaseRecord, Lease, Nothing
    <2> QED  BY <2>1 DEF HotReloadInv, LeaseFits, target
  <1>4. WatchedOrOnTheWay'
    BY DEF HotReloadInv, WatchedOrOnTheWay, OnTheWay, Pruned, target
  <1>5. RequestsFit' /\ ResultsFit'
    BY <1>1 DEF HotReloadInv, RequestsFit, ResultsFit, Made, LoadedFor, target
  <1>6. VersionsFit'
    <2>1. \A f \in File : loaded[f] \in Int /\ saved[f] \in Int /\ saved'[f] \in Int
      BY HotReloadAssumption DEF HotReloadInv, TypeOK, Version
    <2>2. \A q \in 1..Len(sent), f \in File : sent[q].ver[f] \in Int
      <3>1. sent \in Seq(SentRecord)
        BY Types DEF HotReloadInv
      <3>2. \A q \in 1..Len(sent) : sent[q] \in SentRecord
        BY <3>1
      <3> QED  BY <3>2, HotReloadAssumption DEF SentRecord, Version
    <2> QED  BY <2>1, <2>2 DEF HotReloadInv, VersionsFit, target
  <1>7. ExtFits(ext)' /\ BatchFits(ext, drain, Active(lease))'
    BY DEF ExtFits, BatchFits, Active
  <1> QED  BY <1>2, <1>3, <1>4, <1>5, <1>6, <1>7 DEF HotReloadInv

\* A step of a drain after its request is made
LEMMA DrainStep ==
    ASSUME HotReloadInv, UNCHANGED target,
           UNCHANGED <<wanted, lease, fresh, saved, sent, procFile>>,
           drain' \in [Batch -> DrainRecord],
           \A b \in Batch : drain'[b].lease = drain[b].lease /\ drain'[b].req = drain[b].req,
           \A b \in Batch : drain'[b].pc = "take" /\ drain'[b].ok => LoadedFor(drain[b].req),
           ExtFits(ext'), ext'.batch = ext.batch, reqFile' \in Made,
           resFile' = resFile \/ resFile' = NoResult
    PROVE  HotReloadInv'
  <1>1. ext' \in ExtRecord /\ NoResult \in Result /\ reqFile' \in Request \cup {Nothing}
        /\ NoResult.req = Nothing /\ NoResult.ok = FALSE /\ Nothing \in Made
    BY HotReloadAssumption DEF ExtFits, NoResult, Result, Nothing, Made, HotReloadInv, RequestsFit,
       Request, TypeOK
  <1>2. TypeOK'
    BY <1>1 DEF HotReloadInv, TypeOK, ExtFits, ExtRecord, DrainRecord, Result, target
  <1>3. LeaseFits' /\ WatchedOrOnTheWay' /\ VersionsFit'
    BY DEF HotReloadInv, LeaseFits, WatchedOrOnTheWay, OnTheWay, Pruned, VersionsFit, target
  <1>4. RequestsFit' /\ ResultsFit'
    BY <1>1 DEF HotReloadInv, RequestsFit, ResultsFit, Made, LoadedFor, target
  <1>5. ExtFits(ext)' /\ BatchFits(ext, drain, Active(lease))'
    <2>1. ext.batch = Nothing \/ ext.batch \in Batch
      BY Types DEF HotReloadInv, ExtRecord
    <2> QED  BY <2>1 DEF HotReloadInv, ExtFits, BatchFits, Active
  <1> QED  BY <1>2, <1>3, <1>4, <1>5 DEF HotReloadInv

\* A step of the target
LEMMA TargetStep ==
    ASSUME HotReloadInv, UNCHANGED extension, UNCHANGED <<fresh, saved>>,
           accepted' \subseteq Lease, \A l \in accepted' : l <= lease.id,
           thread' \in Thread \cup {None}, suppressed' \in BOOLEAN,
           at' \in [Thread \cup {Control} -> Place], job' \in [Thread -> Result],
           loaded' \in [File -> Version],
           \A f \in File : loaded[f] <= loaded'[f] /\ loaded'[f] <= saved[f],
           resFile' \in Result, RequestsFit', WatchedOrOnTheWay',
           (resFile.ok => LoadedFor(resFile.req))',
           (\A w \in Thread : at[w] = "publish" /\ job[w].ok => LoadedFor(job[w].req))'
    PROVE  HotReloadInv'
  <1>1. reqFile' \in Request \cup {Nothing} /\ procFile' \in Request \cup {Nothing}
    BY HotReloadAssumption DEF HotReloadInv, RequestsFit, Made, Request, Nothing, TypeOK, extension
  <1>2. TypeOK'
    BY <1>1 DEF HotReloadInv, TypeOK, Result, Place, extension
  <1>3. LeaseFits' /\ VersionsFit'
    BY DEF HotReloadInv, LeaseFits, VersionsFit, extension
  <1>4. ResultsFit'
    <2>1. \A q : LoadedFor(q) => \A f \in sent[q].files : loaded'[f] >= sent[q].ver[f]
      <3> SUFFICES ASSUME NEW q, LoadedFor(q), NEW f \in sent[q].files
                   PROVE  loaded'[f] >= sent[q].ver[f]
        OBVIOUS
      <3>1. q \in 1..Len(sent) /\ sent \in Seq(SentRecord)
        BY Types DEF HotReloadInv, LoadedFor
      <3>2. sent[q] \in SentRecord
        BY <3>1
      <3>3. f \in File /\ sent[q].ver[f] \in Int
        BY <3>2, HotReloadAssumption DEF SentRecord, Version
      <3>4. loaded[f] \in Int /\ loaded'[f] \in Int
        BY <3>3, HotReloadAssumption DEF HotReloadInv, TypeOK, Version
      <3> QED  BY <3>3, <3>4 DEF LoadedFor
    <2> QED  BY <2>1 DEF HotReloadInv, ResultsFit, LoadedFor, extension
  <1>5. ExtFits(ext)' /\ BatchFits(ext, drain, Active(lease))'
    BY DEF HotReloadInv, ExtFits, BatchFits, Active, extension
  <1> QED  BY <1>2, <1>3, <1>4, <1>5 DEF HotReloadInv

-----------------------------------------------------------------------------
(* The steps of the extension and its manager *)

LEMMA ReconcilesFacts ==
    ASSUME HotReloadInv, NEW l \in Lease \cup {Nothing}, NEW want \in BOOLEAN, MayBatch,
           Reconciles(want, l)
    PROVE  /\ ExtFits(ext') /\ DrainsGoOn(drain, drain') /\ BatchFits(ext', drain', l)
           /\ sent' = sent /\ (want => Held' = Held)
  <1> DEFINE r == Reconcile(State, want, l)
  <1>1. ext' = r.ext /\ drain' = r.drain /\ sent' = sent
    BY DEF Reconciles, Become
  <1>2. State.ext = ext /\ State.drain = drain /\ drain \in [Batch -> DrainRecord]
    BY Types DEF State, HotReloadInv
  <1>3. /\ ExtFits(r.ext) /\ DrainsGoOn(drain, r.drain) /\ BatchFits(r.ext, r.drain, l)
        /\ want => HeldBy(r.ext) = HeldBy(ext)
    BY <1>2, ReconcileFacts DEF HotReloadInv, MayBatch
  <1> HIDE DEF r
  <1> QED  BY <1>1, <1>3 DEF HeldBy, Held

LEMMA ActiveIsLease ==
    ASSUME NEW l \in LeaseRecord
    PROVE  Active(l) \in Lease \cup {Nothing}
  BY DEF Active, LeaseRecord

LEMMA Numbers ==
    /\ Nothing \notin Lease /\ Nothing \notin Request /\ Nothing \notin Batch /\ Nothing \in Int
    /\ Lease \subseteq Int /\ Version \subseteq Int
  BY HotReloadAssumption DEF Nothing, Lease, Request, Batch, Version

LEMMA ManagerInv == HotReloadInv /\ Manager => HotReloadInv'
  <1> SUFFICES ASSUME HotReloadInv, Manager PROVE HotReloadInv'
    OBVIOUS
  <1>1. /\ lease \in LeaseRecord /\ wanted \in BOOLEAN /\ lease.id \in Int
        /\ \A f \in File : saved[f] \in Int /\ saved[f] <= saved[f]
        /\ saved \in [File -> Version] /\ drain \in [Batch -> DrainRecord]
        /\ fresh \subseteq Lease /\ accepted \subseteq Lease
        /\ \A st \in {"none", "offered", "active", "lapsed"} :
              LET l == [lease EXCEPT !.st = st] IN l \in LeaseRecord /\ l.id = lease.id /\ l.st = st
    <2>1. lease \in LeaseRecord /\ wanted \in BOOLEAN /\ saved \in [File -> Version]
          /\ drain \in [Batch -> DrainRecord] /\ fresh \subseteq Lease /\ accepted \subseteq Lease
      BY Types DEF HotReloadInv, TypeOK
    <2>2. lease.id \in Int /\ \A f \in File : saved[f] \in Int
      BY <2>1, Numbers DEF LeaseRecord
    <2>3. \A st \in {"none", "offered", "active", "lapsed"} :
              LET l == [lease EXCEPT !.st = st] IN l \in LeaseRecord /\ l.id = lease.id /\ l.st = st
      BY <2>1 DEF LeaseRecord
    <2> QED  BY <2>1, <2>2, <2>3
  <1>2. DrainsGoOn(drain, drain)
    BY <1>1 DEF DrainsGoOn
  <1>3. ExtFits(ext) /\ BatchFits(ext, drain, Active(lease)) /\ LeaseFits
    BY DEF HotReloadInv
  <1>4. CASE Want
    <2>1. ExtFits(ext') /\ DrainsGoOn(drain, drain') /\ BatchFits(ext', drain', Active(lease'))
      BY <1>2, <1>3, <1>4 DEF Want
    <2>2. /\ UNCHANGED target /\ UNCHANGED <<reqFile, procFile, resFile, sent>>
          /\ wanted' \in BOOLEAN /\ UNCHANGED <<lease, fresh, saved>>
      BY <1>4 DEF Want, files
    <2> QED  BY <1>1, <1>3, <2>1, <2>2, ExtensionStep DEF LeaseFits
  <1>5. ASSUME NEW l \in Lease, OfferLease(l) PROVE HotReloadInv'
    <2>1. /\ lease' \in LeaseRecord /\ lease'.id = l /\ lease'.st = "offered" /\ l = lease.id + 1
          /\ l \in Int
      BY <1>5, Numbers DEF OfferLease, LeaseRecord
    <2>2. BatchFits(ext', drain', Active(lease')) /\ ExtFits(ext') /\ DrainsGoOn(drain, drain')
      BY <1>2, <1>3, <1>5 DEF OfferLease, BatchFits, Active
    <2>3. \A a \in accepted : a # l
      BY <1>1, <1>3, <2>1, Numbers DEF LeaseFits
    <2>4. /\ UNCHANGED target /\ UNCHANGED <<reqFile, procFile, resFile, sent, wanted, saved>>
          /\ fresh' \subseteq Lease /\ accepted \cap fresh' \subseteq fresh
      BY <1>1, <1>5, <2>3 DEF OfferLease
    <2> QED  BY <1>1, <2>1, <2>2, <2>4, Numbers, ExtensionStep
  <1>6. CASE LeaseGranted
    <2>1. lease' \in LeaseRecord /\ lease'.id = lease.id /\ lease'.st = "active" /\ lease.id \in Lease
      BY <1>1, <1>6 DEF LeaseGranted
    <2>2. /\ ExtFits(ext') /\ DrainsGoOn(drain, drain') /\ BatchFits(ext', drain', lease.id)
          /\ sent' = sent
      BY <1>1, <1>6, <2>1, ReconcilesFacts DEF LeaseGranted
    <2>3. Active(lease') = lease.id
      BY <2>1 DEF Active
    <2>4. /\ UNCHANGED target /\ UNCHANGED <<reqFile, procFile, resFile, wanted, saved, fresh>>
      BY <1>6 DEF LeaseGranted, files
    <2> QED  BY <1>1, <2>1, <2>2, <2>3, <2>4, Numbers, ExtensionStep
  <1>7. CASE Lapse
    <2>1. lease' \in LeaseRecord /\ lease'.id = lease.id /\ lease'.st = "lapsed" /\ lease.id # Nothing
      BY <1>1, <1>3, <1>7 DEF Lapse, LeaseFits
    <2>2. BatchFits(ext', drain', Active(lease')) /\ ExtFits(ext') /\ DrainsGoOn(drain, drain')
      BY <1>2, <1>3, <1>7, <2>1 DEF Lapse, BatchFits, Active
    <2>3. /\ UNCHANGED target /\ UNCHANGED <<reqFile, procFile, resFile, sent, wanted, saved>>
          /\ fresh' \subseteq Lease /\ accepted \cap fresh' \subseteq fresh
      BY <1>1, <1>7 DEF Lapse
    <2> QED  BY <1>1, <2>1, <2>2, <2>3, ExtensionStep
  <1>8. CASE Retire
    <2>1. lease' \in LeaseRecord /\ lease'.id = lease.id /\ lease'.st = "none"
      BY <1>1, <1>8 DEF Retire
    <2>2. ExtFits(ext') /\ DrainsGoOn(drain, drain') /\ sent' = sent
      BY <1>1, <1>8, ReconcilesFacts DEF Retire
    <2>3. BatchFits(ext', drain', Active(lease'))
      BY <2>1 DEF Active, BatchFits
    <2>4. /\ UNCHANGED target /\ UNCHANGED <<reqFile, procFile, resFile, wanted, saved>>
          /\ fresh' \subseteq Lease /\ accepted \cap fresh' \subseteq fresh
      BY <1>1, <1>8 DEF Retire
    <2> QED  BY <1>1, <2>1, <2>2, <2>3, <2>4, ExtensionStep
  <1>9. CASE Unwant
    <2>1. lease' \in LeaseRecord /\ lease'.id = lease.id /\ lease'.st = "none"
      BY <1>1, <1>9 DEF Unwant
    <2>2. ExtFits(ext') /\ DrainsGoOn(drain, drain') /\ sent' = sent
      <3>1. ext' = DisposeWatcher(ext) /\ drain' = drain /\ sent' = sent
        BY <1>9 DEF Unwant, Reconciles, Reconcile, Become, State
      <3> DEFINE a == Abort(ext, FALSE)
                 x == [a EXCEPT !.backlog = {}, !.timer = FALSE]
      <3>2. ExtFits(a) /\ a.batch = Nothing
        BY <1>3, AbortFacts
      <3>3. ext' = x
        BY <3>1 DEF DisposeWatcher
      <3> HIDE DEF a
      <3>4. ExtFits(x)
        BY <3>2, Emptied
      <3> QED  BY <1>2, <3>1, <3>3, <3>4
    <2>3. BatchFits(ext', drain', Active(lease'))
      BY <2>1 DEF Active, BatchFits
    <2>4. /\ UNCHANGED target /\ UNCHANGED <<reqFile, procFile, resFile, saved>>
          /\ wanted' \in BOOLEAN /\ fresh' \subseteq Lease /\ accepted \cap fresh' \subseteq fresh
      BY <1>1, <1>9 DEF Unwant
    <2> QED  BY <1>1, <2>1, <2>2, <2>3, <2>4, ExtensionStep
  <1> QED  BY <1>4, <1>5, <1>6, <1>7, <1>8, <1>9 DEF Manager

\* A note of a change, and the end of the debounce, in the extension's record
LEMMA Noted ==
    ASSUME NEW x, ExtFits(x), NEW f \in File, NEW y,
           y = [x EXCEPT !.backlog = @ \cup {f}, !.timer = TRUE]
    PROVE  ExtFits(y) /\ y.batch = x.batch /\ HeldBy(y) = HeldBy(x) \cup {f}
  <1>1. x \in ExtRecord
    BY DEF ExtFits
  <1>2. /\ y.backlog = x.backlog \cup {f} /\ y.pending = x.pending /\ y.inFlight = x.inFlight
        /\ y.batch = x.batch /\ y.next = x.next
    BY <1>1 DEF ExtRecord
  <1>3. x.backlog \cup {f} \in SUBSET File
    BY <1>1 DEF ExtRecord
  <1>4. y \in ExtRecord
    BY <1>1, <1>3 DEF ExtRecord
  <1> QED  BY <1>1, <1>2, <1>4 DEF ExtFits, HeldBy

LEMMA TimedOut ==
    ASSUME NEW x, ExtFits(x), NEW y, y = [x EXCEPT !.timer = FALSE]
    PROVE  ExtFits(y) /\ y.batch = x.batch /\ HeldBy(y) = HeldBy(x)
  <1>1. x \in ExtRecord
    BY DEF ExtFits
  <1>2. /\ y.backlog = x.backlog /\ y.pending = x.pending /\ y.inFlight = x.inFlight
        /\ y.batch = x.batch /\ y.next = x.next
    BY <1>1 DEF ExtRecord
  <1>3. y \in ExtRecord
    BY <1>1 DEF ExtRecord
  <1> QED  BY <1>2, <1>3 DEF ExtFits, HeldBy

\* What a save and the timer do to the extension
LEMMA SaveFacts ==
    ASSUME HotReloadInv, NEW f \in File, Save(f)
    PROVE  /\ ExtFits(ext') /\ DrainsGoOn(drain, drain') /\ BatchFits(ext', drain', Active(lease))
           /\ sent' = sent /\ (wanted => Held \subseteq Held')
  <1> DEFINE r == Reconcile(State, wanted, Active(lease))
             y == [r.ext EXCEPT !.backlog = @ \cup {f}, !.timer = TRUE]
  <1>1. /\ State.ext = ext /\ State.drain = drain /\ drain \in [Batch -> DrainRecord]
        /\ wanted \in BOOLEAN /\ Active(lease) \in Lease \cup {Nothing}
    BY Types, ActiveIsLease DEF State, HotReloadInv
  <1>2. /\ ExtFits(r.ext) /\ DrainsGoOn(drain, r.drain) /\ BatchFits(r.ext, r.drain, Active(lease))
        /\ wanted => HeldBy(r.ext) = HeldBy(ext)
    BY <1>1, ReconcileFacts DEF HotReloadInv, MayBatch, Save
  <1>3. sent' = sent /\ drain' = r.drain /\ ext' = IF wanted THEN y ELSE r.ext
    BY DEF Save, Become
  <1> HIDE DEF r
  <1>4. ExtFits(y) /\ y.batch = r.ext.batch /\ HeldBy(y) = HeldBy(r.ext) \cup {f}
    BY <1>2, Noted
  <1> HIDE DEF y
  <1> QED  BY <1>2, <1>3, <1>4 DEF BatchFits, HeldBy, Held

LEMMA TimerFacts ==
    ASSUME HotReloadInv, TimerFires
    PROVE  /\ ExtFits(ext') /\ DrainsGoOn(drain, drain') /\ BatchFits(ext', drain', Active(lease))
           /\ sent' = sent /\ Held' = Held
  <1> DEFINE e == Flush(State, Active(lease))
             y == [e.ext EXCEPT !.timer = FALSE]
  <1>1. /\ State.ext = ext /\ State.drain = drain /\ drain \in [Batch -> DrainRecord]
        /\ Active(lease) \in Lease \cup {Nothing}
    BY Types, ActiveIsLease DEF State, HotReloadInv
  <1>2. /\ ExtFits(e.ext) /\ DrainsGoOn(drain, e.drain) /\ BatchFits(e.ext, e.drain, Active(lease))
        /\ HeldBy(e.ext) = HeldBy(ext)
    BY <1>1, FlushFacts DEF HotReloadInv, MayBatch, TimerFires
  <1>3. sent' = sent /\ drain' = e.drain /\ ext' = y
    BY DEF TimerFires, Become
  <1> HIDE DEF e
  <1>4. ExtFits(y) /\ y.batch = e.ext.batch /\ HeldBy(y) = HeldBy(e.ext)
    BY <1>2, TimedOut
  <1> HIDE DEF y
  <1> QED  BY <1>2, <1>3, <1>4 DEF BatchFits, HeldBy, Held

LEMMA Steady ==
    ASSUME HotReloadInv
    PROVE  /\ lease \in LeaseRecord /\ wanted \in BOOLEAN /\ fresh \subseteq Lease
           /\ lease.id <= lease.id /\ (lease.st # "none" => lease.id # Nothing)
           /\ saved \in [File -> Version] /\ \A g \in File : saved[g] <= saved[g]
  <1>1. lease \in LeaseRecord /\ wanted \in BOOLEAN /\ fresh \subseteq Lease
        /\ (lease.st # "none" => lease.id # Nothing) /\ saved \in [File -> Version]
    BY Types DEF HotReloadInv, LeaseFits, TypeOK
  <1>2. lease.id \in Int /\ \A g \in File : saved[g] \in Int
    BY <1>1, Numbers DEF LeaseRecord
  <1> QED  BY <1>1, <1>2

LEMMA SaveInv == \A f \in File : HotReloadInv /\ Save(f) => HotReloadInv'
  <1> SUFFICES ASSUME HotReloadInv, NEW f \in File, Save(f) PROVE HotReloadInv'
    OBVIOUS
  <1>1. saved' \in [File -> Version] /\ \A g \in File : saved[g] <= saved'[g]
    BY HotReloadAssumption DEF HotReloadInv, TypeOK, Save, Version
  <1>2. UNCHANGED <<wanted, lease, fresh, reqFile, procFile, resFile>> /\ UNCHANGED target
    BY DEF Save, files
  <1> QED  BY <1>1, <1>2, Steady, SaveFacts, ExtensionStep

LEMMA TimerInv == HotReloadInv /\ TimerFires => HotReloadInv'
  <1> SUFFICES ASSUME HotReloadInv, TimerFires PROVE HotReloadInv'
    OBVIOUS
  <1>2. UNCHANGED <<wanted, lease, fresh, reqFile, procFile, resFile, saved>> /\ UNCHANGED target
    BY DEF TimerFires, files
  <1> QED  BY <1>2, Steady, TimerFacts, ExtensionStep

-----------------------------------------------------------------------------
(* The steps of a drain *)

LEMMA GotoFacts ==
    ASSUME NEW f \in [Batch -> DrainRecord], NEW k \in Batch,
           NEW pc \in {"idle", "unlink", "rename", "sent", "poll", "check", "longPoll", "take"}, NEW g,
           g = [f EXCEPT ![k].pc = pc]
    PROVE  /\ g \in [Batch -> DrainRecord] /\ g[k].pc = pc
           /\ \A c \in Batch : g[c].lease = f[c].lease /\ g[c].req = f[c].req /\ g[c].ok = f[c].ok
           /\ \A c \in Batch \ {k} : g[c] = f[c]
  <1> DEFINE y == [f[k] EXCEPT !.pc = pc]
  <1>1. y \in DrainRecord /\ y.lease = f[k].lease /\ y.req = f[k].req /\ y.ok = f[k].ok /\ y.pc = pc
    BY DEF DrainRecord
  <1>2. g = [f EXCEPT ![k] = y]
    OBVIOUS
  <1> HIDE DEF y
  <1> QED  BY <1>1, <1>2

LEMMA EndFacts ==
    ASSUME drain \in [Batch -> DrainRecord], NEW k \in Batch,
           NEW outcome \in {"none", "cancelled", "reloaded", "failed", "timedOut"},
           drain' = [drain EXCEPT ![k].pc = "idle", ![k].outcome = outcome]
    PROVE  /\ drain' \in [Batch -> DrainRecord]
           /\ drain'[k].pc = "idle" /\ drain'[k].outcome = outcome
           /\ \A c \in Batch : drain'[c].lease = drain[c].lease /\ drain'[c].req = drain[c].req
           /\ \A c \in Batch \ {k} : drain'[c] = drain[c]
  <1> DEFINE x == [drain[k] EXCEPT !.pc = "idle"]
             y == [x EXCEPT !.outcome = outcome]
  <1>1. x \in DrainRecord /\ x.lease = drain[k].lease /\ x.req = drain[k].req /\ x.pc = "idle"
    BY DEF DrainRecord
  <1>2. drain' = [drain EXCEPT ![k] = y]
    OBVIOUS
  <1> HIDE DEF x
  <1>3. y \in DrainRecord /\ y.lease = x.lease /\ y.req = x.req /\ y.pc = x.pc
        /\ y.outcome = outcome
    BY <1>1 DEF DrainRecord
  <1> HIDE DEF y
  <1> QED  BY <1>1, <1>2, <1>3

\* End, of the extension's record
LEMMA EndExt ==
    ASSUME NEW x, ExtFits(x), NEW y, y = [x EXCEPT !.inFlight = {}]
    PROVE  ExtFits(y) /\ y.batch = x.batch /\ y.backlog = x.backlog /\ y.pending = x.pending
  <1>1. x \in ExtRecord
    BY DEF ExtFits
  <1>2. /\ y.backlog = x.backlog /\ y.pending = x.pending /\ y.inFlight = {}
        /\ y.batch = x.batch /\ y.next = x.next /\ y \in ExtRecord
    BY <1>1 DEF ExtRecord
  <1> QED  BY <1>2 DEF ExtFits

\* What a drain has to show for the step that ends it, or goes on, within the invariant.
LEMMA EndInv ==
    ASSUME HotReloadInv, UNCHANGED target,
           UNCHANGED <<wanted, lease, fresh, saved, reqFile, procFile>>, NEW b \in Batch,
           NEW outcome \in {"none", "cancelled", "reloaded", "failed", "timedOut"},
           End(b, outcome), resFile' = resFile \/ resFile' = NoResult
    PROVE  HotReloadInv'
  <1>1. drain \in [Batch -> DrainRecord] /\ ExtFits(ext) /\ reqFile \in Made
        /\ \A c \in Batch : drain[c].pc = "take" /\ drain[c].ok => LoadedFor(drain[c].req)
    BY Types DEF HotReloadInv, RequestsFit, ResultsFit
  <1>2. /\ drain' \in [Batch -> DrainRecord] /\ drain'[b].pc = "idle"
        /\ \A c \in Batch : drain'[c].lease = drain[c].lease /\ drain'[c].req = drain[c].req
        /\ \A c \in Batch \ {b} : drain'[c] = drain[c]
    <2>1. drain' = [drain EXCEPT ![b].pc = "idle", ![b].outcome = outcome]
      BY DEF End
    <2> QED  BY <1>1, <2>1, EndFacts
  <1>3. ExtFits(ext') /\ ext'.batch = ext.batch /\ sent' = sent
    <2>1. CASE ext.batch = b
      BY <1>1, <2>1, EndExt DEF End
    <2>2. CASE ext.batch # b
      BY <1>1, <2>2 DEF End
    <2> QED  BY <2>1, <2>2
  <1>4. \A c \in Batch : drain'[c].pc = "take" /\ drain'[c].ok => LoadedFor(drain[c].req)
    BY <1>1, <1>2
  <1> QED  BY <1>1, <1>2, <1>3, <1>4, DrainStep

LEMMA GotoInv ==
    ASSUME HotReloadInv, UNCHANGED target, UNCHANGED <<wanted, lease, fresh, saved, procFile>>,
           NEW b \in Batch,
           NEW pc \in {"idle", "unlink", "rename", "sent", "poll", "check", "longPoll"},
           Goto(b, pc), reqFile' = reqFile \/ reqFile' = drain[b].req,
           resFile' = resFile \/ resFile' = NoResult
    PROVE  HotReloadInv'
  <1>1. drain \in [Batch -> DrainRecord] /\ ExtFits(ext) /\ reqFile \in Made /\ drain[b].req \in Made
        /\ \A c \in Batch : drain[c].pc = "take" /\ drain[c].ok => LoadedFor(drain[c].req)
    BY Types DEF HotReloadInv, RequestsFit, ResultsFit
  <1>2. /\ drain' \in [Batch -> DrainRecord] /\ drain'[b].pc = pc
        /\ \A c \in Batch : drain'[c].lease = drain[c].lease /\ drain'[c].req = drain[c].req
        /\ \A c \in Batch \ {b} : drain'[c] = drain[c]
    <2>1. drain' = [drain EXCEPT ![b].pc = pc]
      BY DEF Goto
    <2>2. pc \in {"idle", "unlink", "rename", "sent", "poll", "check", "longPoll", "take"}
      OBVIOUS
    <2> QED  BY <1>1, <2>1, <2>2, GotoFacts
  <1>3. ext' = ext /\ sent' = sent
    BY DEF Goto
  <1>4. \A c \in Batch : drain'[c].pc = "take" /\ drain'[c].ok => LoadedFor(drain[c].req)
    BY <1>1, <1>2
  <1> QED  BY <1>1, <1>2, <1>3, <1>4, DrainStep

\* A request is made: every request made before is what it was.
LEMMA BeginsInv == \A b \in Batch : HotReloadInv /\ DrainBegins(b) => HotReloadInv'
  <1> SUFFICES ASSUME HotReloadInv, NEW b \in Batch, DrainBegins(b) PROVE HotReloadInv'
    OBVIOUS
  <1>1. drain \in [Batch -> DrainRecord] /\ ExtFits(ext) /\ sent \in Seq(SentRecord)
        /\ ext \in ExtRecord
    BY Types DEF HotReloadInv
  <1>2. /\ UNCHANGED target /\ UNCHANGED <<wanted, lease, fresh, saved, reqFile, procFile, resFile>>
    BY DEF DrainBegins, files
  <1> DEFINE x == [drain[b] EXCEPT !.again = FALSE]
  <1>3. /\ x \in DrainRecord /\ x.lease = drain[b].lease /\ x.req = drain[b].req
        /\ x.pc = drain[b].pc /\ x.ok = drain[b].ok
    BY <1>1 DEF DrainRecord
  <1>4. CASE Current(b) /\ ext.pending # {}
    <2> DEFINE q == [batch |-> b, files |-> ext.pending, ver |-> saved]
               n == Len(sent) + 1
               y == [x EXCEPT !.pc = "unlink"]
               z == [y EXCEPT !.req = n]
               e == [ext EXCEPT !.inFlight = @ \cup ext.pending, !.pending = {}]
    <2>1. /\ sent' = Append(sent, q) /\ q \in SentRecord /\ Len(sent) \in Nat
          /\ n \in Request /\ n <= MaxRequest
      BY <1>1, <1>4, HotReloadAssumption DEF DrainBegins, SentRecord, ExtRecord, HotReloadInv, TypeOK,
         Request
    <2>2. /\ sent' \in Seq(SentRecord) /\ Len(sent') = n
          /\ \A i \in 1..Len(sent) : sent'[i] = sent[i]
          /\ sent'[n] = q /\ 1..Len(sent') = 1..Len(sent) \cup {n}
      BY <1>1, <2>1
    <2>3. drain' = [drain EXCEPT ![b].again = FALSE, ![b].pc = "unlink", ![b].req = Len(sent')]
          /\ ext' = e
      BY <1>4 DEF DrainBegins
    <2>4. drain' = [drain EXCEPT ![b] = z]
      BY <2>2, <2>3
    <2> HIDE DEF x
    <2>5. y \in DrainRecord /\ y.lease = x.lease /\ y.ok = x.ok /\ y.pc = "unlink"
      BY <1>3 DEF DrainRecord
    <2> HIDE DEF y, n
    <2>6. z \in DrainRecord /\ z.lease = y.lease /\ z.ok = y.ok /\ z.pc = y.pc /\ z.req = n
      BY <2>1, <2>5 DEF DrainRecord
    <2> HIDE DEF z, q
    <2>7. /\ drain' \in [Batch -> DrainRecord] /\ drain'[b].req = n /\ drain'[b].pc = "unlink"
          /\ \A c \in Batch : drain'[c].lease = drain[c].lease
          /\ \A c \in Batch \ {b} : drain'[c] = drain[c]
      BY <1>1, <1>3, <2>4, <2>5, <2>6
    <2>8. ExtFits(e) /\ e.batch = ext.batch
      <3>1. /\ e.backlog = ext.backlog /\ e.pending = {} /\ e.batch = ext.batch /\ e.next = ext.next
            /\ e.inFlight = ext.inFlight \cup ext.pending
        BY <1>1 DEF ExtRecord
      <3>2. ext.inFlight \cup ext.pending \in SUBSET File /\ {} \in SUBSET File
        BY <1>1 DEF ExtRecord
      <3>3. e \in ExtRecord
        BY <1>1, <3>2 DEF ExtRecord
      <3> QED  BY <1>1, <1>4, <3>1, <3>3 DEF ExtFits
    <2> HIDE DEF e
    <2>9. Made \subseteq Made' /\ n \in Made'
      BY <2>1, <2>2 DEF Made, n
    <2>10. \A i : LoadedFor(i) => LoadedFor(i)'
      <3> SUFFICES ASSUME NEW i, LoadedFor(i) PROVE LoadedFor(i)'
        OBVIOUS
      <3>1. i \in 1..Len(sent) /\ sent'[i] = sent[i] /\ i \in 1..Len(sent')
        BY <2>2 DEF LoadedFor
      <3> QED  BY <1>2, <3>1 DEF LoadedFor, target
    <2>11. TypeOK'
      BY <1>2, <2>2, <2>3, <2>7, <2>8 DEF HotReloadInv, TypeOK, ExtFits, ExtRecord, DrainRecord,
         SentRecord, target
    <2>12. LeaseFits' /\ WatchedOrOnTheWay'
      BY <1>2 DEF HotReloadInv, LeaseFits, WatchedOrOnTheWay, OnTheWay, Pruned, target
    <2>13. RequestsFit'
      BY <1>2, <2>1, <2>2, <2>7, <2>9 DEF HotReloadInv, RequestsFit, target
    <2>14. ResultsFit'
      <3>1. \A c \in Batch : drain'[c].pc = "take" => drain'[c] = drain[c]
        BY <2>7
      <3>2. (resFile.ok => LoadedFor(resFile.req))'
        BY <1>2, <2>10 DEF HotReloadInv, ResultsFit
      <3>3. (\A w \in Thread : at[w] = "publish" /\ job[w].ok => LoadedFor(job[w].req))'
        BY <1>2, <2>10 DEF HotReloadInv, ResultsFit, target
      <3>4. (\A c \in Batch : drain[c].pc = "take" /\ drain[c].ok => LoadedFor(drain[c].req))'
        BY <3>1, <2>10 DEF HotReloadInv, ResultsFit
      <3> QED  BY <3>2, <3>3, <3>4 DEF ResultsFit
    <2>15. VersionsFit'
      <3>1. q.ver = saved /\ \A f \in File : saved[f] <= saved[f]
        BY Steady DEF q
      <3> QED  BY <1>2, <2>2, <3>1 DEF HotReloadInv, VersionsFit, target
    <2>16. BatchFits(ext, drain, Active(lease))'
      <3>1. ext.batch = Nothing \/ ext.batch \in Batch
        BY <1>1 DEF ExtRecord
      <3> QED  BY <1>2, <2>3, <2>7, <2>8, <3>1 DEF HotReloadInv, BatchFits, Active
    <2> QED  BY <2>3, <2>8, <2>11, <2>12, <2>13, <2>14, <2>15, <2>16 DEF HotReloadInv, ExtFits
  <1>5. CASE ~(Current(b) /\ ext.pending # {})
    <2>1. drain' = [drain EXCEPT ![b] = x] /\ ext' = ext /\ sent' = sent
      BY <1>5 DEF DrainBegins
    <2> HIDE DEF x
    <2>2. /\ drain' \in [Batch -> DrainRecord]
          /\ \A c \in Batch : /\ drain'[c].lease = drain[c].lease /\ drain'[c].req = drain[c].req
                              /\ drain'[c].pc = drain[c].pc /\ drain'[c].ok = drain[c].ok
      BY <1>1, <1>3, <2>1
    <2>3. \A c \in Batch : drain'[c].pc = "take" /\ drain'[c].ok => LoadedFor(drain[c].req)
      BY <2>2 DEF HotReloadInv, ResultsFit
    <2>4. reqFile' \in Made
      BY <1>2 DEF HotReloadInv, RequestsFit
    <2> QED  BY <1>1, <1>2, <2>1, <2>2, <2>3, <2>4, DrainStep
  <1> QED  BY <1>4, <1>5

LEMMA ReadsInv == \A b \in Batch : HotReloadInv /\ DrainReads(b) => HotReloadInv'
  <1> SUFFICES ASSUME HotReloadInv, NEW b \in Batch, DrainReads(b) PROVE HotReloadInv'
    OBVIOUS
  <1>1. drain \in [Batch -> DrainRecord] /\ ExtFits(ext) /\ resFile \in Result /\ reqFile \in Made
    BY Types DEF HotReloadInv, RequestsFit
  <1> DEFINE x == [drain[b] EXCEPT !.pc = "take"]
             y == [x EXCEPT !.ok = resFile.ok]
  <1>2. x \in DrainRecord /\ x.lease = drain[b].lease /\ x.req = drain[b].req
    BY <1>1 DEF DrainRecord
  <1>3. drain' = [drain EXCEPT ![b] = y]
    BY DEF DrainReads
  <1> HIDE DEF x
  <1>4. /\ y \in DrainRecord /\ y.lease = x.lease /\ y.req = x.req
    BY <1>1, <1>2 DEF DrainRecord, Result
  <1>5. y.ok = resFile.ok
    BY <1>2 DEF DrainRecord
  <1> HIDE DEF y
  <1>6. /\ drain' \in [Batch -> DrainRecord] /\ drain'[b].ok = resFile.ok
        /\ \A c \in Batch : drain'[c].lease = drain[c].lease /\ drain'[c].req = drain[c].req
        /\ \A c \in Batch \ {b} : drain'[c] = drain[c]
    BY <1>1, <1>2, <1>3, <1>4, <1>5
  <1>7. \A c \in Batch : drain'[c].pc = "take" /\ drain'[c].ok => LoadedFor(drain[c].req)
    BY <1>6 DEF HotReloadInv, ResultsFit, DrainReads
  <1>8. /\ UNCHANGED target /\ ext' = ext
        /\ UNCHANGED <<wanted, lease, fresh, saved, sent, reqFile, procFile, resFile>>
    BY DEF DrainReads, files
  <1> QED  BY <1>1, <1>6, <1>7, <1>8, DrainStep

LEMMA DrainInv == \A b \in Batch : HotReloadInv /\ Drain(b) => HotReloadInv'
  <1> SUFFICES ASSUME HotReloadInv, NEW b \in Batch, Drain(b) PROVE HotReloadInv'
    OBVIOUS
  <1>1. CASE DrainUnlinks(b)
    BY <1>1, GotoInv DEF DrainUnlinks
  <1>2. CASE DrainPublishes(b)
    BY <1>2, GotoInv DEF DrainPublishes
  <1>3. CASE DrainSent(b)
    BY <1>3, GotoInv, EndInv DEF DrainSent, files
  <1>4. CASE DrainTakes(b)
    <2> DEFINE o == IF ~Current(b) THEN "cancelled" ELSE IF drain[b].ok THEN "reloaded" ELSE "failed"
    <2>1. o \in {"none", "cancelled", "reloaded", "failed", "timedOut"} /\ End(b, o)
      BY <1>4 DEF DrainTakes
    <2> HIDE DEF o
    <2> QED  BY <1>4, <2>1, EndInv DEF DrainTakes
  <1>5. CASE PollEnds(b)
    BY <1>5, GotoInv, EndInv DEF PollEnds, files
  <1>6. CASE DrainChecks(b)
    BY <1>6, GotoInv, EndInv DEF DrainChecks, files
  <1> QED  BY <1>1, <1>2, <1>3, <1>4, <1>5, <1>6, BeginsInv, ReadsInv DEF Drain

-----------------------------------------------------------------------------
(* The steps of the target *)

\* A step of a thread of the target that neither reloads nor publishes
LEMMA QuietStep ==
    ASSUME HotReloadInv, UNCHANGED extension, UNCHANGED <<fresh, saved, resFile, job, loaded>>,
           reqFile' \in {reqFile, procFile, Nothing}, procFile' \in {reqFile, procFile, Nothing},
           accepted' \subseteq Lease, \A l \in accepted' : l <= lease.id,
           thread' \in Thread \cup {None}, suppressed' \in BOOLEAN,
           at' \in [Thread \cup {Control} -> Place],
           \A w \in Thread : at'[w] \in {"reload", "publish"} => at'[w] = at[w],
           WatchedOrOnTheWay'
    PROVE  HotReloadInv'
  <1>1. Nothing \in Made
    <2>1. Len(sent) \in Nat
      BY Types DEF HotReloadInv
    <2> QED  BY <2>1 DEF Made, Nothing
  <1>2. RequestsFit'
    BY <1>1 DEF HotReloadInv, RequestsFit, Made, extension
  <1>3. resFile' \in Result /\ job' \in [Thread -> Result] /\ loaded' \in [File -> Version]
    BY Types DEF HotReloadInv, TypeOK
  <1>4. \A f \in File : loaded[f] <= loaded'[f] /\ loaded'[f] <= saved[f]
    <2>1. \A f \in File : loaded[f] \in Int
      BY Numbers DEF HotReloadInv, TypeOK
    <2> QED  BY <2>1 DEF HotReloadInv, VersionsFit
  <1>5. (resFile.ok => LoadedFor(resFile.req))'
    BY DEF HotReloadInv, ResultsFit, LoadedFor, extension
  <1>6. (\A w \in Thread : at[w] = "publish" /\ job[w].ok => LoadedFor(job[w].req))'
    BY DEF HotReloadInv, ResultsFit, LoadedFor, extension
  <1> QED  BY <1>2, <1>3, <1>4, <1>5, <1>6, TargetStep

LEMMA Threads ==
    ASSUME HotReloadInv
    PROVE  /\ at \in [Thread \cup {Control} -> Place] /\ thread \in Thread \cup {None}
           /\ suppressed \in BOOLEAN /\ accepted \subseteq Lease
           /\ \A l \in accepted : l <= lease.id
           /\ Pruned(accepted) \subseteq accepted
           /\ Control \notin Thread /\ None \notin Thread \cup {Control}
           /\ WatchedOrOnTheWay
  BY Types, HotReloadAssumption DEF HotReloadInv, LeaseFits, Pruned, TypeOK

\* Where a thread may go
LEMMA HereFacts ==
    ASSUME HotReloadInv, NEW t \in Thread \cup {Control}, NEW pc \in Place, Here(t, pc)
    PROVE  /\ at' \in [Thread \cup {Control} -> Place] /\ at'[t] = pc
           /\ \A o \in Thread \cup {Control} : o # t => at'[o] = at[o]
  BY Threads DEF Here

LEMMA AcquireLeaseInv == HotReloadInv /\ AcquireLease => HotReloadInv'
  <1> SUFFICES ASSUME HotReloadInv, AcquireLease PROVE HotReloadInv'
    OBVIOUS
  <1>1. /\ lease.id \in Lease /\ lease.id <= lease.id
    BY Steady DEF LeaseRecord, AcquireLease
  <1>2. accepted' \subseteq Lease /\ \A l \in accepted' : l <= lease.id
    BY <1>1, Threads DEF AcquireLease, Pruned
  <1>3. UNCHANGED extension /\ UNCHANGED <<fresh, saved, resFile, job, loaded>>
        /\ UNCHANGED <<reqFile, procFile, thread, suppressed>>
    BY DEF AcquireLease, files
  <1>4. /\ at' \in [Thread \cup {Control} -> Place]
        /\ at'[Control] = (IF lease.id \in accepted' THEN "enter" ELSE "off")
        /\ \A o \in Thread : at'[o] = at[o]
    <2>1. (IF lease.id \in accepted' THEN "enter" ELSE "off") \in Place
      BY DEF Place
    <2> QED  BY <2>1, HereFacts, Threads DEF AcquireLease
  <1>5. WatchedOrOnTheWay'
    <2>1. (thread # None => at[thread] \in {"loop", "claimed", "reload", "publish", "clear", "exit"})'
      BY <1>3, <1>4, Threads DEF WatchedOrOnTheWay
    <2>2. CASE lease.id \in accepted'
      BY <1>4, <2>1, <2>2 DEF WatchedOrOnTheWay, OnTheWay
    <2>3. CASE lease.id \notin accepted'
      <3>1. Pruned(accepted)' \subseteq Pruned(accepted)
        BY <1>3, <2>3 DEF AcquireLease, Pruned
      <3>2. OnTheWay => OnTheWay'
        BY <1>4 DEF OnTheWay, AcquireLease
      <3> QED  BY <1>3, <2>1, <3>1, <3>2, Threads DEF WatchedOrOnTheWay, AcquireLease
    <2> QED  BY <2>2, <2>3
  <1> QED  BY <1>2, <1>3, <1>4, <1>5, Threads, QuietStep

LEMMA EnterStartInv ==
    \A t \in Thread \cup {Control} : HotReloadInv /\ EnterStart(t) => HotReloadInv'
  <1> SUFFICES ASSUME HotReloadInv, NEW t \in Thread \cup {Control}, EnterStart(t)
               PROVE  HotReloadInv'
    OBVIOUS
  <1>1. UNCHANGED extension /\ UNCHANGED <<fresh, saved, resFile, job, loaded, reqFile, procFile, thread>>
        /\ accepted' = Pruned(accepted) /\ at[t] = "enter"
    BY DEF EnterStart, files
  <1> DEFINE pc == IF accepted' = {} THEN Failed(t) ELSE IF thread = None THEN "start" ELSE "off"
  <1>2. pc \in Place /\ pc \notin {"reload", "publish"} /\ Here(t, pc)
    BY DEF Place, Failed, EnterStart
  <1>3. /\ at' \in [Thread \cup {Control} -> Place] /\ at'[t] = pc
        /\ \A o \in Thread \cup {Control} : o # t => at'[o] = at[o]
    <2> HIDE DEF pc
    <2> QED  BY <1>2, HereFacts
  <1>4. suppressed' \in BOOLEAN
    BY Threads DEF EnterStart, Installs
  <1>5. WatchedOrOnTheWay'
    <2>1. (thread # None => at[thread] \in {"loop", "claimed", "reload", "publish", "clear", "exit"})'
      BY <1>1, <1>3, Threads DEF WatchedOrOnTheWay
    <2>2. CASE accepted' = {}
      BY <2>1, <2>2 DEF WatchedOrOnTheWay, Pruned
    <2>3. CASE accepted' # {}
      <3>1. suppressed' = TRUE
        BY <2>3 DEF EnterStart, Installs
      <3>2. thread' # None \/ OnTheWay'
        BY <1>1, <1>3, <2>3 DEF OnTheWay
      <3> QED  BY <2>1, <3>1, <3>2 DEF WatchedOrOnTheWay
    <2> QED  BY <2>2, <2>3
  <1> QED  BY <1>1, <1>2, <1>3, <1>4, <1>5, Threads, QuietStep

LEMMA StartWatcherInv ==
    \A t \in Thread \cup {Control} : HotReloadInv /\ StartWatcher(t) => HotReloadInv'
  <1> SUFFICES ASSUME HotReloadInv, NEW t \in Thread \cup {Control}, StartWatcher(t)
               PROVE  HotReloadInv'
    OBVIOUS
  <1>1. UNCHANGED extension /\ UNCHANGED <<fresh, saved, resFile, job, loaded, reqFile, procFile>>
        /\ accepted' = Pruned(accepted) /\ at[t] = "start"
    BY DEF StartWatcher, files
  <1>2. CASE accepted' = {}
    <2>1. Failed(t) \in Place /\ Failed(t) \notin {"reload", "publish"}
          /\ Here(t, Failed(t)) /\ thread' = thread /\ suppressed' = FALSE
      BY <1>2 DEF StartWatcher, Place, Failed, Restores
    <2>2. /\ at' \in [Thread \cup {Control} -> Place] /\ at'[t] = Failed(t)
          /\ \A o \in Thread \cup {Control} : o # t => at'[o] = at[o]
      BY <2>1, HereFacts
    <2>3. WatchedOrOnTheWay'
      <3>1. (thread # None => at[thread] \in {"loop", "claimed", "reload", "publish", "clear", "exit"})'
        BY <1>1, <2>1, <2>2, Threads DEF WatchedOrOnTheWay
      <3> QED  BY <1>2, <3>1 DEF WatchedOrOnTheWay, Pruned
    <2> QED  BY <1>1, <2>1, <2>2, <2>3, Threads, QuietStep
  <1>3. CASE accepted' # {}
    <2>1. PICK w \in Thread : /\ thread' = w /\ at' = [at EXCEPT ![t] = "off", ![w] = "loop"]
                              /\ suppressed' = suppressed
      BY <1>3 DEF StartWatcher
    <2>2. /\ at' \in [Thread \cup {Control} -> Place] /\ at'[w] = "loop"
          /\ \A o \in Thread \cup {Control} : o # t /\ o # w => at'[o] = at[o]
          /\ t # w => at'[t] = "off"
      <3>1. "off" \in Place /\ "loop" \in Place
        BY DEF Place
      <3> QED  BY <2>1, <3>1, Threads
    <2>3. WatchedOrOnTheWay'
      <3>1. Pruned(accepted)' \subseteq Pruned(accepted)
        BY <1>1 DEF Pruned
      <3>2. Pruned(accepted)' # {} => suppressed' \/ at'[Control] = "enter"
        BY <1>1, <2>1, <2>2, <3>1, Threads DEF WatchedOrOnTheWay
      <3> QED  BY <2>1, <2>2, <3>2, Threads DEF WatchedOrOnTheWay
    <2>4. \A o \in Thread : at'[o] \in {"reload", "publish"} => at'[o] = at[o]
      BY <2>2
    <2> QED  BY <1>1, <2>1, <2>2, <2>3, <2>4, Threads, QuietStep
  <1> QED  BY <1>2, <1>3

LEMMA AcquireFailsInv == HotReloadInv /\ AcquireFails => HotReloadInv'
  <1> SUFFICES ASSUME HotReloadInv, AcquireFails PROVE HotReloadInv'
    OBVIOUS
  <1>1. UNCHANGED extension
        /\ UNCHANGED <<fresh, saved, resFile, job, loaded, reqFile, procFile, accepted, thread>>
    BY DEF AcquireFails, files
  <1>2. "off" \in Place /\ Here(Control, "off")
    BY DEF AcquireFails, Place
  <1>3. /\ at' \in [Thread \cup {Control} -> Place] /\ at'[Control] = "off"
        /\ \A o \in Thread : at'[o] = at[o]
    BY <1>2, HereFacts, Threads
  <1>4. suppressed' \in BOOLEAN
    BY Threads DEF AcquireFails, Restores
  <1>5. WatchedOrOnTheWay'
    <2>1. (thread # None => at[thread] \in {"loop", "claimed", "reload", "publish", "clear", "exit"})'
      BY <1>1, <1>3, Threads DEF WatchedOrOnTheWay
    <2>2. CASE accepted = {}
      BY <1>1, <2>1, <2>2 DEF WatchedOrOnTheWay, Pruned
    <2>3. CASE accepted # {}
      <3>1. suppressed' = suppressed /\ at[Control] = "fail"
        BY <2>3 DEF AcquireFails
      <3>2. OnTheWay => OnTheWay'
        BY <1>3, <3>1 DEF OnTheWay
      <3> QED  BY <1>1, <2>1, <3>1, <3>2, Threads DEF WatchedOrOnTheWay, Pruned
    <2> QED  BY <2>2, <2>3
  <1> QED  BY <1>1, <1>3, <1>4, <1>5, Threads, QuietStep

LEMMA WakesInv == \A w \in Thread : HotReloadInv /\ WatcherWakes(w) => HotReloadInv'
  <1> SUFFICES ASSUME HotReloadInv, NEW w \in Thread, WatcherWakes(w) PROVE HotReloadInv'
    OBVIOUS
  <1>1. UNCHANGED extension /\ UNCHANGED <<fresh, saved, resFile, job, loaded, thread, suppressed>>
        /\ accepted' = Pruned(accepted) /\ at[w] = "loop"
    BY DEF WatcherWakes
  <1>2. PICK pc \in {"exit", "claimed"} : Here(w, pc) /\ (pc = "claimed" => accepted' # {})
    BY DEF WatcherWakes
  <1>3. /\ at' \in [Thread \cup {Control} -> Place] /\ at'[w] = pc
        /\ \A o \in Thread \cup {Control} : o # w => at'[o] = at[o]
    BY <1>2, HereFacts DEF Place
  <1>4. reqFile' \in {reqFile, procFile, Nothing} /\ procFile' \in {reqFile, procFile, Nothing}
    BY DEF WatcherWakes
  <1>5. WatchedOrOnTheWay'
    <2>1. Pruned(accepted)' \subseteq Pruned(accepted)
      BY <1>1 DEF Pruned
    <2>2. (thread # None => at[thread] \in {"loop", "claimed", "reload", "publish", "clear", "exit"})'
      BY <1>1, <1>2, <1>3, Threads DEF WatchedOrOnTheWay
    <2>3. OnTheWay => OnTheWay'
      BY <1>1, <1>3 DEF OnTheWay
    <2>4. at'[Control] = at[Control]
      BY <1>3, Threads
    <2> QED  BY <1>1, <2>1, <2>2, <2>3, <2>4, Threads DEF WatchedOrOnTheWay
  <1> QED  BY <1>1, <1>2, <1>3, <1>4, <1>5, Threads, QuietStep

LEMMA ExitsInv == \A w \in Thread : HotReloadInv /\ WatcherExits(w) => HotReloadInv'
  <1> SUFFICES ASSUME HotReloadInv, NEW w \in Thread, WatcherExits(w) PROVE HotReloadInv'
    OBVIOUS
  <1>1. UNCHANGED extension /\ UNCHANGED <<fresh, saved, resFile, job, loaded, procFile>>
        /\ accepted' = Pruned(accepted) /\ at[w] = "exit"
        /\ thread' = IF thread = w THEN None ELSE thread
    BY DEF WatcherExits
  <1>2. PICK pc \in {"off", "enter"} :
           Here(w, pc) /\ (accepted' # {} => pc = "enter" /\ suppressed' = suppressed)
    BY DEF WatcherExits
  <1>3. /\ at' \in [Thread \cup {Control} -> Place] /\ at'[w] = pc
        /\ \A o \in Thread \cup {Control} : o # w => at'[o] = at[o]
    BY <1>2, HereFacts DEF Place
  <1>4. reqFile' \in {reqFile, procFile, Nothing} /\ procFile' \in {reqFile, procFile, Nothing}
        /\ suppressed' \in BOOLEAN
    BY Threads DEF WatcherExits, Restores
  <1>5. WatchedOrOnTheWay'
    <2>1. Pruned(accepted)' \subseteq Pruned(accepted) /\ Pruned(accepted)' \subseteq accepted'
      BY <1>1 DEF Pruned
    <2>2. (thread # None => at[thread] \in {"loop", "claimed", "reload", "publish", "clear", "exit"})'
      BY <1>1, <1>2, <1>3, Threads DEF WatchedOrOnTheWay
    <2>3. accepted' # {} => OnTheWay'
      BY <1>2, <1>3 DEF OnTheWay
    <2>4. at'[Control] = at[Control]
      BY <1>3, Threads
    <2> QED  BY <1>2, <2>1, <2>2, <2>3, <2>4, Threads DEF WatchedOrOnTheWay
  <1> QED  BY <1>1, <1>2, <1>3, <1>4, <1>5, Threads, QuietStep

\* A watcher with a request in hand goes from one place in its loop to another: the watcher and
\* the leases are as before.
LEMMA WorkKeepsWatch ==
    ASSUME HotReloadInv, NEW w \in Thread, at[w] \in {"claimed", "reload", "publish", "clear"},
           NEW pc \in {"loop", "reload", "publish", "clear"}, Here(w, pc),
           accepted' \subseteq accepted, UNCHANGED <<fresh, thread, suppressed>>
    PROVE  /\ WatchedOrOnTheWay' /\ at' \in [Thread \cup {Control} -> Place] /\ at'[w] = pc
           /\ \A o \in Thread : o # w => at'[o] = at[o]
  <1>1. /\ at' \in [Thread \cup {Control} -> Place] /\ at'[w] = pc
        /\ \A o \in Thread \cup {Control} : o # w => at'[o] = at[o]
    BY HereFacts DEF Place
  <1>2. Pruned(accepted)' \subseteq Pruned(accepted)
    BY DEF Pruned
  <1>3. OnTheWay => OnTheWay'
    BY <1>1 DEF OnTheWay
  <1>4. at'[Control] = at[Control]
    BY <1>1, Threads
  <1>5. (thread # None => at[thread] \in {"loop", "claimed", "reload", "publish", "clear", "exit"})'
    BY <1>1, Threads DEF WatchedOrOnTheWay
  <1> QED  BY <1>1, <1>2, <1>3, <1>4, <1>5, Threads DEF WatchedOrOnTheWay

\* What of the requests a step of the target leaves to be shown
LEMMA RequestsKept ==
    ASSUME HotReloadInv, UNCHANGED extension, UNCHANGED reqFile,
           procFile' \in Made, resFile'.req \in Made, NEW w \in Thread,
           job'[w].req \in Made, at'[w] = "reload" => job'[w].req # Nothing,
           \A o \in Thread : o # w => at'[o] = at[o] /\ job'[o] = job[o]
    PROVE  RequestsFit'
  BY DEF HotReloadInv, RequestsFit, Made, extension

LEMMA ReadsClaimInv == \A w \in Thread : HotReloadInv /\ WatcherReads(w) => HotReloadInv'
  <1> SUFFICES ASSUME HotReloadInv, NEW w \in Thread, WatcherReads(w) PROVE HotReloadInv'
    OBVIOUS
  <1> DEFINE live == procFile # Nothing /\ drain[sent[procFile].batch].lease \in accepted'
             j == [req |-> procFile, ok |-> live]
             pc == IF live THEN "reload" ELSE "publish"
  <1>1. /\ job' = [job EXCEPT ![w] = j] /\ Here(w, pc) /\ at[w] = "claimed"
        /\ accepted' = Pruned(accepted)
    BY DEF WatcherReads
  <1>2. UNCHANGED extension /\ UNCHANGED <<fresh, saved, resFile, reqFile, procFile, loaded>>
        /\ UNCHANGED <<thread, suppressed>>
    BY DEF WatcherReads, files
  <1>3. live \in BOOLEAN /\ j.req = procFile /\ j.ok = live
    OBVIOUS
  <1>4. pc \in {"loop", "reload", "publish", "clear"} /\ (pc = "reload" => procFile # Nothing)
        /\ (pc = "publish" => ~j.ok)
    OBVIOUS
  <1>5. j \in Result
    BY Types DEF HotReloadInv, TypeOK, Result
  <1> HIDE DEF live, j, pc
  <1>6. /\ WatchedOrOnTheWay' /\ at' \in [Thread \cup {Control} -> Place] /\ at'[w] = pc
        /\ \A o \in Thread : o # w => at'[o] = at[o]
    BY <1>1, <1>2, <1>4, Threads, WorkKeepsWatch
  <1>7. /\ job' \in [Thread -> Result] /\ job'[w] = j /\ \A o \in Thread : o # w => job'[o] = job[o]
    BY <1>1, <1>5, Types DEF HotReloadInv
  <1>8. RequestsFit'
    <2>1. procFile \in Made /\ resFile.req \in Made
      BY DEF HotReloadInv, RequestsFit
    <2> QED  BY <1>2, <1>3, <1>4, <1>6, <1>7, <2>1, RequestsKept
  <1>9. resFile' \in Result /\ loaded' \in [File -> Version]
        /\ \A f \in File : loaded[f] <= loaded'[f] /\ loaded'[f] <= saved[f]
    <2>1. \A f \in File : loaded[f] \in Int
      BY Numbers DEF HotReloadInv, TypeOK
    <2> QED  BY <1>2, <2>1, Types DEF HotReloadInv, VersionsFit, TypeOK
  <1>10. (resFile.ok => LoadedFor(resFile.req))'
    BY <1>2 DEF HotReloadInv, ResultsFit, LoadedFor, extension
  <1>11. (\A o \in Thread : at[o] = "publish" /\ job[o].ok => LoadedFor(job[o].req))'
    BY <1>2, <1>4, <1>6, <1>7 DEF HotReloadInv, ResultsFit, LoadedFor, extension
  <1> QED  BY <1>1, <1>2, <1>6, <1>7, <1>8, <1>9, <1>10, <1>11, Threads, TargetStep

\* A reload that has no error has loaded every file of its request as it is on disk.
LEMMA ReloadsInv == \A w \in Thread : HotReloadInv /\ WatcherReloads(w) => HotReloadInv'
  <1> SUFFICES ASSUME HotReloadInv, NEW w \in Thread, WatcherReloads(w) PROVE HotReloadInv'
    OBVIOUS
  <1> DEFINE q == job[w].req
             asked == sent[q].files
  <1>1. PICK good \in SUBSET asked :
           /\ loaded' = [f \in File |-> IF f \in good THEN saved[f] ELSE loaded[f]]
           /\ job' = [job EXCEPT ![w].ok = (good = asked)]
    BY DEF WatcherReloads
  <1>2. /\ UNCHANGED extension /\ UNCHANGED <<fresh, saved, resFile, reqFile, procFile>>
        /\ UNCHANGED <<thread, suppressed, accepted>> /\ at[w] = "reload" /\ Here(w, "publish")
    BY DEF WatcherReloads, files
  <1>3. q \in 1..Len(sent)
    BY <1>2, Types DEF HotReloadInv, RequestsFit, Made, Nothing
  <1>4. sent[q] \in SentRecord /\ asked \subseteq File
    <2>1. sent[q] \in SentRecord
      BY <1>3, Types DEF HotReloadInv
    <2> QED  BY <2>1 DEF SentRecord
  <1> DEFINE ok == (good = asked)
             j == [job[w] EXCEPT !.ok = ok]
  <1>5. j \in Result /\ j.req = q /\ j.ok = ok
    BY Types DEF HotReloadInv, Result
  <1>6. job' = [job EXCEPT ![w] = j]
    BY <1>1
  <1> HIDE DEF j
  <1>7. /\ job' \in [Thread -> Result] /\ job'[w] = j /\ \A o \in Thread : o # w => job'[o] = job[o]
    BY <1>5, <1>6, Types DEF HotReloadInv
  <1>8. /\ WatchedOrOnTheWay' /\ at' \in [Thread \cup {Control} -> Place] /\ at'[w] = "publish"
        /\ \A o \in Thread : o # w => at'[o] = at[o]
    BY <1>2, WorkKeepsWatch
  <1>9. RequestsFit'
    <2>1. procFile \in Made /\ resFile.req \in Made /\ q \in Made
      BY DEF HotReloadInv, RequestsFit
    <2> QED  BY <1>2, <1>5, <1>7, <1>8, <2>1, RequestsKept
  <1>10. loaded' \in [File -> Version]
        /\ \A f \in File : loaded[f] <= loaded'[f] /\ loaded'[f] <= saved[f]
    <2>1. \A f \in File : loaded[f] \in Int /\ saved[f] \in Int
      BY Numbers DEF HotReloadInv, TypeOK
    <2> QED  BY <1>1, <2>1 DEF HotReloadInv, VersionsFit, TypeOK
  <1>11. \A i : LoadedFor(i) => LoadedFor(i)'
    <2> SUFFICES ASSUME NEW i, LoadedFor(i) PROVE LoadedFor(i)'
      OBVIOUS
    <2>1. i \in 1..Len(sent) /\ sent[i] \in SentRecord
      BY Types DEF HotReloadInv, LoadedFor
    <2>2. \A f \in sent[i].files : loaded'[f] >= sent[i].ver[f]
      <3> SUFFICES ASSUME NEW f \in sent[i].files PROVE loaded'[f] >= sent[i].ver[f]
        OBVIOUS
      <3>1. f \in File /\ sent[i].ver[f] \in Int
        BY <2>1, Numbers DEF SentRecord
      <3>2. loaded[f] \in Int /\ loaded'[f] \in Int /\ loaded[f] <= loaded'[f]
        BY <1>10, <3>1, Numbers DEF HotReloadInv, TypeOK
      <3> QED  BY <3>1, <3>2 DEF LoadedFor
    <2> QED  BY <1>2, <2>1, <2>2 DEF LoadedFor, extension
  <1>12. good = asked => LoadedFor(job[w].req)'
    <2> SUFFICES ASSUME good = asked PROVE LoadedFor(job[w].req)'
      OBVIOUS
    <2>1. \A f \in asked : loaded'[f] = saved[f] /\ sent[q].ver[f] <= saved[f]
      BY <1>1, <1>3, <1>4 DEF HotReloadInv, VersionsFit
    <2>2. \A f \in asked : saved[f] \in Int /\ sent[q].ver[f] \in Int
      BY <1>4, Numbers DEF HotReloadInv, TypeOK, SentRecord
    <2>3. job'[w].req = q
      BY <1>5, <1>7
    <2>4. \A f \in asked : loaded'[f] >= sent[q].ver[f]
      BY <2>1, <2>2
    <2>5. sent' = sent
      BY <1>2 DEF extension
    <2> QED  BY <1>3, <2>3, <2>4, <2>5 DEF LoadedFor
  <1> QED
    <2>1. resFile' \in Result
      BY <1>2, Types DEF HotReloadInv
    <2>2. (resFile.ok => LoadedFor(resFile.req))'
      BY <1>2, <1>11 DEF HotReloadInv, ResultsFit
    <2>3. (\A o \in Thread : at[o] = "publish" /\ job[o].ok => LoadedFor(job[o].req))'
      BY <1>5, <1>7, <1>8, <1>11, <1>12 DEF HotReloadInv, ResultsFit
    <2> QED  BY <1>2, <1>7, <1>8, <1>9, <1>10, <2>1, <2>2, <2>3, Threads, TargetStep

LEMMA PublishesInv == \A w \in Thread : HotReloadInv /\ WatcherPublishes(w) => HotReloadInv'
  <1> SUFFICES ASSUME HotReloadInv, NEW w \in Thread, WatcherPublishes(w) PROVE HotReloadInv'
    OBVIOUS
  <1>1. /\ UNCHANGED extension /\ UNCHANGED <<fresh, saved, reqFile, procFile, job, loaded>>
        /\ UNCHANGED <<thread, suppressed, accepted>> /\ at[w] = "publish" /\ Here(w, "clear")
        /\ resFile' = job[w]
    BY DEF WatcherPublishes
  <1>2. /\ WatchedOrOnTheWay' /\ at' \in [Thread \cup {Control} -> Place] /\ at'[w] = "clear"
        /\ \A o \in Thread : o # w => at'[o] = at[o]
    BY <1>1, WorkKeepsWatch
  <1>3. job[w] \in Result /\ job[w].req \in Made /\ procFile \in Made /\ job \in [Thread -> Result]
    BY Types DEF HotReloadInv, RequestsFit
  <1>4. RequestsFit'
    BY <1>1, <1>2, <1>3, RequestsKept
  <1>5. loaded' \in [File -> Version]
        /\ \A f \in File : loaded[f] <= loaded'[f] /\ loaded'[f] <= saved[f]
    <2>1. \A f \in File : loaded[f] \in Int
      BY Numbers DEF HotReloadInv, TypeOK
    <2> QED  BY <1>1, <2>1 DEF HotReloadInv, VersionsFit, TypeOK
  <1>6. (resFile.ok => LoadedFor(resFile.req))'
    BY <1>1 DEF HotReloadInv, ResultsFit, LoadedFor, extension
  <1>7. (\A o \in Thread : at[o] = "publish" /\ job[o].ok => LoadedFor(job[o].req))'
    BY <1>1, <1>2 DEF HotReloadInv, ResultsFit, LoadedFor, extension
  <1> QED  BY <1>1, <1>2, <1>3, <1>4, <1>5, <1>6, <1>7, Threads, TargetStep

LEMMA ClearsInv == \A w \in Thread : HotReloadInv /\ WatcherClears(w) => HotReloadInv'
  <1> SUFFICES ASSUME HotReloadInv, NEW w \in Thread, WatcherClears(w) PROVE HotReloadInv'
    OBVIOUS
  <1>1. /\ UNCHANGED extension /\ UNCHANGED <<fresh, saved, reqFile, resFile, loaded>>
        /\ UNCHANGED <<thread, suppressed, accepted>> /\ at[w] = "clear" /\ Here(w, "loop")
        /\ procFile' = Nothing /\ job' = [job EXCEPT ![w] = NoResult]
    BY DEF WatcherClears
  <1>2. /\ WatchedOrOnTheWay' /\ at' \in [Thread \cup {Control} -> Place] /\ at'[w] = "loop"
        /\ \A o \in Thread : o # w => at'[o] = at[o]
    BY <1>1, WorkKeepsWatch
  <1>3. NoResult \in Result /\ NoResult.req = Nothing
    BY DEF NoResult, Result
  <1>4. Nothing \in Made /\ resFile.req \in Made /\ resFile \in Result
    <2>1. Len(sent) \in Nat
      BY Types DEF HotReloadInv
    <2> QED  BY <2>1, Types DEF HotReloadInv, RequestsFit, Made, Nothing
  <1>5. /\ job' \in [Thread -> Result] /\ job'[w] = NoResult
        /\ \A o \in Thread : o # w => job'[o] = job[o]
    BY <1>1, <1>3, Types DEF HotReloadInv
  <1>6. RequestsFit'
    BY <1>1, <1>2, <1>3, <1>4, <1>5, RequestsKept
  <1>7. loaded' \in [File -> Version]
        /\ \A f \in File : loaded[f] <= loaded'[f] /\ loaded'[f] <= saved[f]
    <2>1. \A f \in File : loaded[f] \in Int
      BY Numbers DEF HotReloadInv, TypeOK
    <2> QED  BY <1>1, <2>1 DEF HotReloadInv, VersionsFit, TypeOK
  <1>8. (resFile.ok => LoadedFor(resFile.req))'
    BY <1>1 DEF HotReloadInv, ResultsFit, LoadedFor, extension
  <1>9. (\A o \in Thread : at[o] = "publish" /\ job[o].ok => LoadedFor(job[o].req))'
    BY <1>1, <1>2, <1>5 DEF HotReloadInv, ResultsFit, LoadedFor, extension
  <1> QED  BY <1>1, <1>2, <1>4, <1>5, <1>6, <1>7, <1>8, <1>9, Threads, TargetStep

LEMMA WatcherInv == \A w \in Thread : HotReloadInv /\ Watcher(w) => HotReloadInv'
  BY EnterStartInv, StartWatcherInv, WakesInv, ReadsClaimInv, ReloadsInv, PublishesInv, ClearsInv,
     ExitsInv DEF Watcher

LEMMA ControlThreadInv == HotReloadInv /\ ControlThread => HotReloadInv'
  BY AcquireLeaseInv, EnterStartInv, StartWatcherInv, AcquireFailsInv DEF ControlThread

LEMMA StutterInv == HotReloadInv /\ UNCHANGED vars => HotReloadInv'
  <1> SUFFICES ASSUME HotReloadInv, UNCHANGED vars PROVE HotReloadInv'
    OBVIOUS
  <1>1. UNCHANGED extension /\ UNCHANGED <<fresh, reqFile, procFile, resFile, saved>>
        /\ UNCHANGED <<accepted, thread, suppressed, at, job, loaded>>
    BY DEF vars, files, target
  <1>2. WatchedOrOnTheWay'
    BY <1>1 DEF HotReloadInv, WatchedOrOnTheWay, OnTheWay, Pruned
  <1> QED  BY <1>1, <1>2, Threads, QuietStep DEF Place

LEMMA NextInv == HotReloadInv /\ [Next]_vars => HotReloadInv'
  BY ManagerInv, SaveInv, TimerInv, DrainInv, WatcherInv, ControlThreadInv, StutterInv DEF Next

LEMMA Always == Spec => []HotReloadInv
  BY InitHotReload, NextInv, PTL DEF Spec

-----------------------------------------------------------------------------
(* What the invariant is for *)

\* Every variable of hot reload keeps its type, for every number of files, leases, batches,
\* requests and watcher threads; no current batch has no files of its own.
THEOREM TypeCorrect == Spec => []TypeOK
  <1>1. HotReloadInv => TypeOK
    BY DEF HotReloadInv
  <1> QED  BY Always, <1>1, PTL

\* A target that has a live lease, with nobody on the way to start or to end a watcher, has a
\* watcher that runs and Django's own autoreloader suppressed: a lease that comes while the
\* watcher is leaving (_reload_watcher's finally) is seen by one of the two.
THEOREM LeasedIsWatched == Spec => []LeasedTargetIsWatched
  <1>1. HotReloadInv => LeasedTargetIsWatched
    <2> SUFFICES ASSUME HotReloadInv, Settled, Pruned(accepted) # {}
                 PROVE  suppressed /\ thread # None /\ at[thread] # "off"
      BY DEF LeasedTargetIsWatched
    <2>1. ~OnTheWay /\ at[Control] # "enter"
      BY DEF Settled, OnTheWay
    <2> QED  BY <2>1 DEF HotReloadInv, WatchedOrOnTheWay
  <1> QED  BY Always, <1>1, PTL

\* What a step does to the drains: it leaves them to go on, or it is a step of one of them.
LEMMA OnlyDrainsEnd ==
    ASSUME HotReloadInv, [Next]_vars, NEW b \in Batch,
           drain[b].pc # "idle", drain'[b].pc = "idle"
    PROVE  \E outcome \in {"cancelled", "reloaded", "failed", "timedOut"} :
              /\ End(b, outcome) /\ drain'[b].outcome = outcome
              /\ outcome = "reloaded" => drain[b].pc = "take" /\ drain[b].ok
              /\ outcome = "cancelled" => ~Current(b)
              /\ UNCHANGED <<wanted, lease, saved>> /\ UNCHANGED target
  <1>1. drain \in [Batch -> DrainRecord] /\ wanted \in BOOLEAN /\ lease \in LeaseRecord
    BY Types DEF HotReloadInv
  <1>2. \A o \in {"cancelled", "reloaded", "failed", "timedOut"} :
           End(b, o) => drain'[b].outcome = o
    <2> SUFFICES ASSUME NEW o \in {"cancelled", "reloaded", "failed", "timedOut"}, End(b, o)
                 PROVE  drain'[b].outcome = o
      OBVIOUS
    <2>1. drain' = [drain EXCEPT ![b].pc = "idle", ![b].outcome = o]
      BY DEF End
    <2> QED  BY <1>1, <2>1, EndFacts
  <1>3. \A c \in Batch, o \in {"cancelled", "reloaded", "failed", "timedOut"} :
           End(c, o) => c = b
    <2> SUFFICES ASSUME NEW c \in Batch, NEW o \in {"cancelled", "reloaded", "failed", "timedOut"},
                        End(c, o), c # b
                 PROVE  FALSE
      OBVIOUS
    <2>1. drain' = [drain EXCEPT ![c].pc = "idle", ![c].outcome = o]
      BY DEF End
    <2>2. drain'[b] = drain[b]
      BY <1>1, <2>1, EndFacts
    <2> QED  BY <2>2
  <1>4. \A c \in Batch, pc \in {"unlink", "rename", "sent", "poll", "check", "longPoll"} : ~Goto(c, pc)
    <2> SUFFICES ASSUME NEW c \in Batch,
                        NEW pc \in {"unlink", "rename", "sent", "poll", "check", "longPoll"}, Goto(c, pc)
                 PROVE  FALSE
      OBVIOUS
    <2>1. drain' = [drain EXCEPT ![c].pc = pc]
      BY DEF Goto
    <2>2. pc \in {"idle", "unlink", "rename", "sent", "poll", "check", "longPoll", "take"}
      OBVIOUS
    <2>3. drain'[c].pc = pc /\ (c # b => drain'[b] = drain[b])
      BY <1>1, <2>1, <2>2, GotoFacts
    <2> QED  BY <2>3
  <1>5. ~DrainsGoOn(drain, drain') /\ drain' # drain
    BY DEF DrainsGoOn
  <1>6. CASE Manager
    <2>1. ASSUME Want \/ (\E l \in Lease : OfferLease(l)) \/ Lapse PROVE FALSE
      BY <1>5, <2>1 DEF Want, OfferLease, Lapse
    <2>2. ASSUME LeaseGranted PROVE FALSE
      <3>1. lease.id \in Lease \cup {Nothing}
        BY <1>1 DEF LeaseRecord
      <3> QED  BY <1>1, <1>5, <2>2, <3>1, ReconcilesFacts DEF LeaseGranted
    <2>3. ASSUME Retire PROVE FALSE
      BY <1>1, <1>5, <2>3, ReconcilesFacts DEF Retire
    <2>4. ASSUME Unwant PROVE FALSE
      BY <1>5, <2>4 DEF Unwant, Reconciles, Reconcile, Become, State
    <2> QED  BY <1>6, <2>1, <2>2, <2>3, <2>4 DEF Manager
  <1>7. CASE TimerFires \/ \E f \in File : Save(f)
    BY <1>5, <1>7, TimerFacts, SaveFacts
  <1>8. ASSUME UNCHANGED extension PROVE FALSE
    BY <1>5, <1>8 DEF extension
  <1>9. CASE ControlThread \/ (\E w \in Thread : Watcher(w)) \/ UNCHANGED vars
    BY <1>8, <1>9 DEF ControlThread, Watcher, vars, AcquireLease, EnterStart, StartWatcher,
       AcquireFails, WatcherWakes, WatcherReads, WatcherReloads, WatcherPublishes, WatcherClears,
       WatcherExits
  <1>10. ASSUME NEW c \in Batch, Drain(c)
         PROVE  \E outcome \in {"cancelled", "reloaded", "failed", "timedOut"} :
              /\ End(b, outcome) /\ drain'[b].outcome = outcome
              /\ outcome = "reloaded" => drain[b].pc = "take" /\ drain[b].ok
              /\ outcome = "cancelled" => ~Current(b)
              /\ UNCHANGED <<wanted, lease, saved>> /\ UNCHANGED target
    <2>1. ASSUME DrainBegins(c) PROVE FALSE
      <3>1. drain[c].pc = "idle" /\ c # b
        BY <2>1 DEF DrainBegins
      <3>2. drain'[b] = drain[b]
        BY <1>1, <2>1, <3>1 DEF DrainBegins
      <3> QED  BY <3>2
    <2>2. ASSUME DrainUnlinks(c) \/ DrainPublishes(c) PROVE FALSE
      BY <1>4, <2>2 DEF DrainUnlinks, DrainPublishes
    <2>3. ASSUME DrainReads(c) PROVE FALSE
      <3>1. c # b => drain'[b] = drain[b]
        BY <1>1, <2>3 DEF DrainReads
      <3>2. c = b => drain'[b].pc = "take"
        BY <1>1, <2>3 DEF DrainReads, DrainRecord
      <3> QED  BY <3>1, <3>2
    <2>4. CASE DrainSent(c)
      BY <1>2, <1>3, <1>4, <2>4 DEF DrainSent, target
    <2>5. CASE PollEnds(c)
      BY <1>2, <1>3, <1>4, <2>5 DEF PollEnds, target
    <2>6. CASE DrainChecks(c)
      BY <1>2, <1>3, <1>4, <2>6 DEF DrainChecks, target
    <2>7. CASE DrainTakes(c)
      BY <1>2, <1>3, <2>7 DEF DrainTakes, target
    <2> QED  BY <1>10, <2>1, <2>2, <2>3, <2>4, <2>5, <2>6, <2>7 DEF Drain
  <1> QED  BY <1>6, <1>7, <1>9, <1>10 DEF Next

\* What the extension tells the user is reloaded is loaded in the target, in the version its
\* files had when the request was made or a later one, whatever results of other requests lie
\* in the file and whatever leases have come and gone meanwhile (requestHotReload).
THEOREM ReportsAreLoaded == Spec => ReportedIsLoaded
  <1>1. HotReloadInv /\ [Next]_vars =>
          [\A b \in Batch :
             drain[b].pc # "idle" /\ drain'[b].pc = "idle" /\ drain'[b].outcome = "reloaded"
             => LET q == sent[drain[b].req] IN \A f \in q.files : loaded[f] >= q.ver[f]]_vars
    <2> SUFFICES ASSUME HotReloadInv, [Next]_vars, NEW b \in Batch,
                        drain[b].pc # "idle", drain'[b].pc = "idle", drain'[b].outcome = "reloaded"
                 PROVE  \A f \in sent[drain[b].req].files : loaded[f] >= sent[drain[b].req].ver[f]
      OBVIOUS
    <2>1. drain[b].pc = "take" /\ drain[b].ok
      BY OnlyDrainsEnd
    <2> QED  BY <2>1 DEF HotReloadInv, ResultsFit, LoadedFor
  <1> QED  BY Always, <1>1, PTL DEF Spec, ReportedIsLoaded

\* A step that keeps what is held, whoever takes it, but for the end of a drain
LEMMA HeldIsKept ==
    ASSUME HotReloadInv, [Next]_vars, wanted'
    PROVE  \/ Held \subseteq Held'
           \/ \E b \in Batch, o \in {"cancelled", "reloaded", "failed", "timedOut"} :
                 /\ End(b, o) /\ drain[b].pc # "idle"
                 /\ o = "cancelled" => ~Current(b)
  <1>1. drain \in [Batch -> DrainRecord] /\ wanted \in BOOLEAN /\ lease \in LeaseRecord
        /\ ext \in ExtRecord
    BY Types DEF HotReloadInv
  <1>2. CASE Manager
    <2>1. ASSUME Want \/ (\E l \in Lease : OfferLease(l)) \/ Lapse PROVE Held' = Held
      BY <2>1 DEF Want, OfferLease, Lapse, Held
    <2>2. ASSUME LeaseGranted PROVE Held' = Held
      <3>1. lease.id \in Lease \cup {Nothing} /\ wanted = TRUE
        BY <1>1, <2>2 DEF LeaseRecord, LeaseGranted
      <3> QED  BY <2>2, <3>1, ReconcilesFacts DEF LeaseGranted
    <2>3. ASSUME Retire PROVE Held' = Held
      <3>1. wanted = TRUE
        BY <1>1, <2>3 DEF Retire
      <3> QED  BY <2>3, <3>1, ReconcilesFacts DEF Retire
    <2>4. ~Unwant
      BY DEF Unwant
    <2> QED  BY <1>2, <2>1, <2>2, <2>3, <2>4 DEF Manager
  <1>3. ASSUME NEW f \in File, Save(f) PROVE Held \subseteq Held'
    BY <1>3, SaveFacts DEF Save
  <1>4. CASE TimerFires
    BY <1>4, TimerFacts
  <1>5. CASE ControlThread \/ (\E w \in Thread : Watcher(w)) \/ UNCHANGED vars
    <2>1. UNCHANGED extension
      BY <1>5 DEF ControlThread, Watcher, vars, AcquireLease, EnterStart, StartWatcher,
         AcquireFails, WatcherWakes, WatcherReads, WatcherReloads, WatcherPublishes, WatcherClears,
         WatcherExits
    <2> QED  BY <2>1 DEF extension, Held
  <1>6. ASSUME NEW b \in Batch, Drain(b)
        PROVE  \/ Held \subseteq Held'
               \/ \E o \in {"cancelled", "reloaded", "failed", "timedOut"} :
                     /\ End(b, o) /\ drain[b].pc # "idle"
                     /\ o = "cancelled" => ~Current(b)
    <2>1. ASSUME DrainBegins(b) PROVE Held \subseteq Held'
      <3>1. CASE ext' = ext
        BY <3>1 DEF Held
      <3>2. CASE ext' = [ext EXCEPT !.inFlight = @ \cup ext.pending, !.pending = {}]
        <4>1. ext'.backlog = ext.backlog /\ ext'.inFlight = ext.inFlight \cup ext.pending
          BY <1>1, <3>2 DEF ExtRecord
        <4> QED  BY <4>1 DEF Held
      <3> QED  BY <2>1, <3>1, <3>2 DEF DrainBegins
    <2>2. \A pc : Goto(b, pc) => Held \subseteq Held'
      BY DEF Goto, Held
    <2>3. ASSUME DrainUnlinks(b) \/ DrainPublishes(b) PROVE Held \subseteq Held'
      BY <2>2, <2>3 DEF DrainUnlinks, DrainPublishes
    <2>4. ASSUME DrainReads(b) PROVE Held \subseteq Held'
      BY <2>4 DEF DrainReads, Held
    <2>5. CASE DrainSent(b)
      BY <2>2, <2>5 DEF DrainSent
    <2>6. CASE PollEnds(b)
      BY <2>2, <2>6 DEF PollEnds
    <2>7. CASE DrainChecks(b)
      BY <2>2, <2>7 DEF DrainChecks
    <2>8. CASE DrainTakes(b)
      BY <2>8 DEF DrainTakes
    <2> QED  BY <1>6, <2>1, <2>3, <2>4, <2>5, <2>6, <2>7, <2>8 DEF Drain
  <1> QED  BY <1>2, <1>3, <1>4, <1>5, <1>6 DEF Next

\* A change the extension has noted of a wanted target is forgotten only by the end of the drain
\* it is in flight with, one that has told what became of it or whose lease no longer counts.  A
\* save, the timer, a new lease, a lease that is given up and a batch that is replaced keep it,
\* with a lease and without one (abortHotReloadBatch, drainHotReload).
THEOREM ChangesKept == Spec => ChangesAreKept
  <1>1. HotReloadInv /\ [Next]_vars =>
          [\A f \in Held \ Held' :
             \/ ~wanted'
             \/ /\ f \in ext.inFlight
                /\ \E b \in Batch :
                     /\ DrainEnds(b)
                     /\ \/ drain'[b].outcome \in {"reloaded", "failed", "timedOut"}
                        \/ drain'[b].outcome = "cancelled" /\ Active(lease) # drain[b].lease]_vars
    <2> SUFFICES ASSUME HotReloadInv, [Next]_vars, NEW f \in Held \ Held', wanted'
                 PROVE  /\ f \in ext.inFlight
                        /\ \E b \in Batch :
                             /\ DrainEnds(b)
                             /\ \/ drain'[b].outcome \in {"reloaded", "failed", "timedOut"}
                                \/ /\ drain'[b].outcome = "cancelled"
                                   /\ Active(lease) # drain[b].lease
      OBVIOUS
    <2>1. PICK b \in Batch, o \in {"cancelled", "reloaded", "failed", "timedOut"} :
                 /\ End(b, o) /\ drain[b].pc # "idle"
                 /\ o = "cancelled" => ~Current(b)
      BY HeldIsKept
    <2>2. drain \in [Batch -> DrainRecord] /\ ext \in ExtRecord
      BY Types DEF HotReloadInv
    <2>3. drain' = [drain EXCEPT ![b].pc = "idle", ![b].outcome = o]
      BY <2>1 DEF End
    <2>4. drain'[b].pc = "idle" /\ drain'[b].outcome = o
      BY <2>2, <2>3, EndFacts
    <2>5. ext.batch = b /\ ext' = [ext EXCEPT !.inFlight = {}]
      BY <2>1 DEF End, Held
    <2>6. f \in ext.inFlight
      BY <2>2, <2>5 DEF Held, ExtRecord
    <2>7. o = "cancelled" => Active(lease) # drain[b].lease
      BY <2>1, <2>5 DEF Current
    <2> QED  BY <2>1, <2>4, <2>5, <2>6, <2>7 DEF DrainEnds
  <1> QED  BY Always, <1>1, PTL DEF Spec, ChangesAreKept

=============================================================================
