--------------------------- MODULE McpBridgeProofs ---------------------------
(***************************************************************************)
(* What McpBridge promises, for every number of windows, clients, requests *)
(* and faults: a living window's manifest is served, or was left behind    *)
(* under an id that is given up; a mutating request runs once, an          *)
(* explicitly named window is not replaced, and aborts fit.                *)
(***************************************************************************)
EXTENDS McpBridge, FiniteSetTheorems, TLAPS

(* The windows *)

\* A window's host is off, or has a port, a run of its own and a living process.
HostShape ==
    \A w \in Window :
        /\ win[w].id[1] = w
        /\ win[w].id[2] <= win[w].run + 1
        /\ win[w].pc # "off" => win[w].id[2] <= win[w].run
        /\ win[w].pc = "off" <=> win[w].port = None
        /\ win[w].pc # "off" => win[w].alive /\ win[w].run > 0

\* A manifest lies under the id of the host it describes, one its window has had.
ManifestIsFiled ==
    \A i \in Id : manifest[i] # None => /\ manifest[i].host.id = i
                                        /\ manifest[i].host.win = i[1]
                                        /\ i[2] <= win[i[1]].id[2]

Publishing(w) == win[w].pc \in {"created", "up"}

\* What lies under a window's id is its own where it publishes, and else left.
LeftAside ==
    \A w \in Window :
        /\ Publishing(w) => win[w].id \notin left
        /\ win[w].alive /\ ~Publishing(w) /\ manifest[win[w].id] # None => win[w].id \in left

WindowInv ==
    WindowTypeOK /\ HostShape /\ ManifestIsFiled /\ LeftAside /\ LiveManifestIsServed

\* The steps of windows and of their surroundings.
WindowNext ==
    WindowStep \/ \E w \in Window : DisposeTransport(w) \/ Crash(w)

LEMMA InitWindow == WindowInit => WindowInv
  <1> SUFFICES ASSUME WindowInit PROVE WindowInv
    OBVIOUS
  <1>1. WindowTypeOK
    BY WindowAssumption DEF WindowInit, WindowTypeOK, Id
  <1>2. \A i \in Id : manifest[i] = None
    BY DEF WindowInit
  <1>3. HostShape
    BY DEF WindowInit, HostShape
  <1>4. LeftAside
    <2>1. \A w \in Window : win[w].id \in Id
      BY <1>1 DEF WindowTypeOK
    <2> QED  BY <1>2, <2>1 DEF LeftAside, WindowInit
  <1>5. ManifestIsFiled /\ LiveManifestIsServed
    BY <1>2 DEF ManifestIsFiled, LiveManifestIsServed
  <1> QED  BY <1>1, <1>3, <1>4, <1>5 DEF WindowInv

\* The id of a window is one of its own, a running host is a host, and what a
\* publishing window has under its id describes it.
LEMMA HostFacts ==
    ASSUME WindowInv, NEW w \in Window
    PROVE  /\ win[w].id \in Id /\ win[w].id[1] = w
           /\ win[w].pc # "off" => HostOf(w) \in Host /\ Listening(w)
           /\ \A i \in Id : i[1] \in Window
           /\ Publishing(w) /\ manifest[win[w].id] # None => OwnsManifest(w)
  <1>1. /\ win[w].id \in Id /\ win[w].id[1] = w
        /\ \A i \in Id : i[1] \in Window
    BY DEF WindowInv, WindowTypeOK, HostShape, Id
  <1>2. win[w].pc # "off" => HostOf(w) \in Host /\ Listening(w)
    BY <1>1, WindowAssumption DEF WindowInv, WindowTypeOK, HostShape, HostOf, Host, Listening
  <1>3. ASSUME Publishing(w), manifest[win[w].id] # None
        PROVE  OwnsManifest(w)
    <2>1. win[w].alive /\ win[w].id \notin left
      BY <1>3 DEF WindowInv, HostShape, LeftAside, Publishing
    <2>2. Serves(manifest[win[w].id].host)
      BY <1>1, <1>3, <2>1 DEF WindowInv, LiveManifestIsServed
    <2>3. manifest[win[w].id].host.win = w
      BY <1>1, <1>3 DEF WindowInv, ManifestIsFiled
    <2> QED  BY <1>3, <2>2, <2>3 DEF OwnsManifest, Serves
  <1> QED  BY <1>1, <1>2, <1>3

LEMMA StartTransportInv ==
    ASSUME WindowInv, NEW w \in Window, StartTransport(w)
    PROVE  WindowInv'
  <1>1. PICK p \in Port : win' = [win EXCEPT ![w].pc = "listening", ![w].port = p, ![w].run = @ + 1]
    BY DEF StartTransport
  <1>2. /\ win[w].alive /\ win[w].pc = "off" /\ win[w].run < MaxRuns
        /\ UNCHANGED <<locks, manifest, left, faults>>
    BY DEF StartTransport
  <1>3. WindowTypeOK'
    BY <1>1, <1>2, WindowAssumption DEF WindowInv, WindowTypeOK
  <1>4. HostShape'
    BY <1>1, <1>2, WindowAssumption DEF WindowInv, WindowTypeOK, HostShape, Id
  <1>5. \A v \in Window \ {w} : win'[v] = win[v]
    BY <1>1 DEF WindowInv, WindowTypeOK
  <1>6. win'[w].alive /\ win'[w].id = win[w].id /\ win'[w].pc = "listening"
    BY <1>1, <1>2 DEF WindowInv, WindowTypeOK
  <1>7. \A i \in Id : i[1] \in Window
    BY HostFacts
  <1>8. ManifestIsFiled'
    BY <1>2, <1>5, <1>6, <1>7 DEF WindowInv, ManifestIsFiled
  <1>9. LeftAside'
    BY <1>2, <1>5, <1>6 DEF WindowInv, LeftAside, Publishing
  <1>10. LiveManifestIsServed'
    <2> SUFFICES ASSUME NEW i \in Id, manifest[i] # None, win'[i[1]].alive
                 PROVE  \/ Serves(manifest[i].host)'
                        \/ i \in left /\ ~(win'[i[1]].id = i /\ win'[i[1]].pc = "up")
      BY <1>2 DEF LiveManifestIsServed
    <2>1. manifest[i].host.win = i[1]
      BY DEF WindowInv, ManifestIsFiled
    <2>2. CASE i[1] = w
      <3>1. ~Serves(manifest[i].host)
        BY <1>2, <2>1, <2>2 DEF WindowInv, HostShape, Serves, Listening
      <3> QED  BY <1>2, <1>6, <2>2, <3>1 DEF WindowInv, LiveManifestIsServed
    <2>3. CASE i[1] # w
      BY <1>2, <1>5, <1>7, <2>1, <2>3
      DEF WindowInv, LiveManifestIsServed, Serves, HostOf, Listening
    <2> QED  BY <2>2, <2>3
  <1> QED  BY <1>3, <1>4, <1>8, <1>9, <1>10 DEF WindowInv

\* Of the windows' hosts, w's may have moved its program counter.
Kept(w) ==
    /\ \A v \in Window \ {w} : win'[v] = win[v]
    /\ win'[w].alive = win[w].alive /\ win'[w].id = win[w].id
    /\ win'[w].run = win[w].run /\ win'[w].port = win[w].port

\* A step of window w that keeps its transport: what has to hold after it of
\* the manifest under its id.
LEMMA SameTransport ==
    ASSUME WindowInv, WindowTypeOK', NEW w \in Window, win[w].pc # "off", win'[w].pc # "off",
           Kept(w),
           \A i \in Id \ {win[w].id} : /\ manifest'[i] = manifest[i]
                                       /\ i \in left' <=> i \in left,
           Publishing(w)' => /\ win[w].id \notin left'
                             /\ manifest'[win[w].id] # None =>
                                    manifest'[win[w].id].host = HostOf(w),
           ~Publishing(w)' => /\ manifest'[win[w].id] \in {None, manifest[win[w].id]}
                              /\ manifest'[win[w].id] # None => win[w].id \in left'
    PROVE  WindowInv'
  <1> USE DEF Kept
  <1>1. /\ HostOf(w)' = HostOf(w) /\ HostOf(w).id = win[w].id /\ HostOf(w).win = w
        /\ Listening(w)' /\ Listening(w)
    BY HostFacts DEF HostOf, Listening
  <1>2. \A i \in Id : i[1] \in Window
    BY HostFacts
  <1>3. win[w].id \in Id /\ win[w].id[1] = w
    BY HostFacts
  <1>4. HostShape'
    BY DEF WindowInv, HostShape
  <1>5. ManifestIsFiled'
    <2> SUFFICES ASSUME NEW i \in Id, manifest'[i] # None
                 PROVE  /\ manifest'[i].host.id = i /\ manifest'[i].host.win = i[1]
                        /\ i[2] <= win'[i[1]].id[2]
      BY DEF ManifestIsFiled
    <2>1. win'[i[1]].id = win[i[1]].id
      BY <1>2
    <2>2. CASE manifest'[i] = manifest[i]
      BY <2>1, <2>2 DEF WindowInv, ManifestIsFiled
    <2>3. CASE i = win[w].id /\ manifest'[i].host = HostOf(w)
      <3>1. i[2] \in Int
        BY DEF Id
      <3> QED  BY <1>1, <1>3, <2>1, <2>3, <3>1
    <2> QED  BY <2>2, <2>3
  <1>6. LeftAside'
    <2> SUFFICES ASSUME NEW v \in Window
                 PROVE  /\ Publishing(v)' => win'[v].id \notin left'
                        /\ win'[v].alive /\ ~Publishing(v)' /\ manifest'[win'[v].id] # None
                              => win'[v].id \in left'
      BY DEF LeftAside
    <2>1. CASE v = w
      BY <2>1
    <2>2. CASE v # w
      <3>1. win'[v] = win[v] /\ win[v].id \in Id \ {win[w].id}
        BY <1>3, <2>2, HostFacts
      <3> QED  BY <3>1 DEF WindowInv, LeftAside, Publishing
    <2> QED  BY <2>1, <2>2
  <1>7. LiveManifestIsServed'
    <2> SUFFICES ASSUME NEW i \in Id, manifest'[i] # None, win'[i[1]].alive
                 PROVE  \/ Serves(manifest[i].host)'
                        \/ i \in left' /\ ~(win'[i[1]].id = i /\ win'[i[1]].pc = "up")
      BY DEF LiveManifestIsServed
    <2>1. CASE i = win[w].id /\ Publishing(w)'
      BY <1>1, <2>1 DEF Serves
    <2>2. CASE i = win[w].id /\ ~Publishing(w)'
      BY <1>3, <2>2 DEF Publishing
    <2>3. CASE i # win[w].id
      <3>1. manifest'[i] = manifest[i] /\ (i \in left' <=> i \in left)
        BY <2>3
      <3>2. win[i[1]].alive /\ win'[i[1]].id = win[i[1]].id
        BY <1>2
      <3>3. manifest[i].host.win = i[1] /\ i[1] \in Window
        BY <1>2, <3>1 DEF WindowInv, ManifestIsFiled
      <3>4. Serves(manifest[i].host)' <=> Serves(manifest[i].host)
        BY <3>1, <3>3 DEF Serves, HostOf, Listening
      <3>5. win[i[1]].id = i => win'[i[1]] = win[i[1]]
        BY <1>2, <2>3
      <3> QED  BY <3>1, <3>2, <3>4, <3>5 DEF WindowInv, LiveManifestIsServed
    <2> QED  BY <2>1, <2>2, <2>3
  <1> QED  BY <1>4, <1>5, <1>6, <1>7 DEF WindowInv

\* What a move of the program counter leaves as it is.
LEMMA GoesToFacts ==
    ASSUME WindowInv, NEW w \in Window,
           NEW pc \in {"locked", "created", "up", "collided", "closing"}, GoesTo(w, pc)
    PROVE  /\ Kept(w) /\ win'[w].pc = pc /\ win'[w].pc # "off"
           /\ Publishing(w)' <=> pc \in {"created", "up"}
           /\ WindowTypeOK' <=> /\ locks' \subseteq Id /\ left' \subseteq Id
                                /\ manifest' \in [Id -> [host : Host, fresh : BOOLEAN] \cup {None}]
                                /\ faults' \in 0..MaxFaults
  BY DEF GoesTo, Kept, Publishing, WindowInv, WindowTypeOK

\* Publication has succeeded.
IsUp(w) == win' = [win EXCEPT ![w] = [@ EXCEPT !.pc = "up", !.attempt = 1]]

HostRecord == [alive : BOOLEAN, id : Id, attempt : 1..3, run : 0..MaxRuns,
               port : Port \cup {None},
               pc : {"off", "listening", "locked", "created", "up", "collided", "closing"}]

LEMMA UpFacts ==
    ASSUME WindowInv, NEW w \in Window, IsUp(w)
    PROVE  /\ Kept(w) /\ win'[w].pc = "up"
           /\ win' \in [Window -> [alive : BOOLEAN, id : Id, attempt : 1..3, run : 0..MaxRuns,
                                  port : Port \cup {None},
                                  pc : {"off", "listening", "locked", "created", "up",
                                        "collided", "closing"}]]
  <1> DEFINE r == [win[w] EXCEPT !.pc = "up", !.attempt = 1]
  <1>1. win \in [Window -> HostRecord] /\ win' = [win EXCEPT ![w] = r] /\ win[w] \in HostRecord
    BY DEF IsUp, WindowInv, WindowTypeOK, HostRecord
  <1>2. /\ r \in HostRecord /\ r.pc = "up" /\ r.alive = win[w].alive /\ r.id = win[w].id
        /\ r.run = win[w].run /\ r.port = win[w].port
    <2> DEFINE up == [win[w] EXCEPT !.pc = "up"]
    <2>1. /\ up \in HostRecord /\ up.pc = "up" /\ up.alive = win[w].alive /\ up.id = win[w].id
          /\ up.run = win[w].run /\ up.port = win[w].port
      BY <1>1 DEF HostRecord
    <2>2. r = [up EXCEPT !.attempt = 1]
      OBVIOUS
    <2> HIDE DEF up, r
    <2> QED  BY <2>1, <2>2 DEF HostRecord
  <1> HIDE DEF r
  <1>3. win' \in [Window -> HostRecord] /\ win'[w] = r /\ \A v \in Window \ {w} : win'[v] = win[v]
    BY <1>1, <1>2
  <1>4. Kept(w) /\ win'[w].pc = "up"
    BY <1>2, <1>3 DEF Kept
  <1> QED  BY <1>3, <1>4 DEF HostRecord

LEMMA FaultFacts == WindowInv /\ Fault => faults' \in 0..MaxFaults
  BY WindowAssumption DEF Fault, WindowInv, WindowTypeOK

LEMMA LockFacts ==
    ASSUME WindowInv, NEW w \in Window, DisposeLock(w)
    PROVE  locks' \subseteq locks /\ locks' \subseteq Id
  BY DEF DisposeLock, WindowInv, WindowTypeOK

\* What lies under the id of a window before it publishes was left there.
LEMMA NotPublishing ==
    ASSUME WindowInv, NEW w \in Window, win[w].pc \in {"listening", "locked"},
           manifest[win[w].id] # None
    PROVE  win[w].id \in left
  BY DEF WindowInv, LeftAside, HostShape, Publishing

LEMMA AcquireLifetimeLockInv ==
    ASSUME WindowInv, NEW w \in Window, AcquireLifetimeLock(w)
    PROVE  WindowInv'
  <1>1. /\ win[w].pc = "listening" /\ UNCHANGED <<manifest, left, faults>>
        /\ locks' \subseteq locks \cup {win[w].id} /\ win[w].id \in Id
    BY HostFacts DEF AcquireLifetimeLock, At
  <1>2. PICK pc \in {"locked", "collided"} : GoesTo(w, pc)
    BY DEF AcquireLifetimeLock
  <1>3. Kept(w) /\ win'[w].pc # "off" /\ ~Publishing(w)' /\ WindowTypeOK'
    <2>1. locks' \subseteq Id /\ left' \subseteq Id /\ faults' \in 0..MaxFaults
          /\ manifest' \in [Id -> [host : Host, fresh : BOOLEAN] \cup {None}]
      BY <1>1 DEF WindowInv, WindowTypeOK
    <2> QED  BY <1>2, <2>1, GoesToFacts
  <1>4. manifest[win[w].id] # None => win[w].id \in left
    BY <1>1, NotPublishing
  <1> QED  BY ONLY WindowInv, w \in Window, <1>1, <1>3, <1>4, SameTransport

LEMMA CreateManifestInv ==
    ASSUME WindowInv, NEW w \in Window, CreateManifest(w)
    PROVE  WindowInv'
  <1>1. win[w].pc = "locked" /\ win[w].id \in Id /\ HostOf(w) \in Host
    BY HostFacts DEF CreateManifest, At
  <1>2. CASE /\ GoesTo(w, "created") /\ Published(w) /\ left' = left \ {win[w].id}
             /\ UNCHANGED <<locks, faults>>
    <2>1. /\ manifest'[win[w].id] = [host |-> HostOf(w), fresh |-> TRUE]
          /\ \A i \in Id \ {win[w].id} : manifest'[i] = manifest[i]
          /\ manifest' \in [Id -> [host : Host, fresh : BOOLEAN] \cup {None}]
      BY <1>1, <1>2 DEF Published, WindowInv, WindowTypeOK
    <2>2. locks' \subseteq Id /\ left' \subseteq Id /\ faults' \in 0..MaxFaults
      BY <1>2 DEF WindowInv, WindowTypeOK
    <2>3. Kept(w) /\ win'[w].pc # "off" /\ Publishing(w)' /\ WindowTypeOK'
      BY <1>2, <2>1, <2>2, GoesToFacts
    <2>4. /\ win[w].id \notin left' /\ manifest'[win[w].id].host = HostOf(w)
          /\ \A i \in Id \ {win[w].id} : manifest'[i] = manifest[i] /\ (i \in left' <=> i \in left)
      BY <1>2, <2>1
    <2> QED  BY ONLY WindowInv, w \in Window, <1>1, <2>3, <2>4, SameTransport
  <1>3. CASE /\ NotOwned(w) \/ (manifest[win[w].id] # None /\ UNCHANGED faults)
             /\ GoesTo(w, "collided") /\ DisposeLock(w) /\ UNCHANGED <<manifest, left>>
    <2>1. /\ locks' \subseteq Id /\ left' \subseteq Id /\ faults' \in 0..MaxFaults
          /\ manifest' \in [Id -> [host : Host, fresh : BOOLEAN] \cup {None}]
      BY <1>3, FaultFacts, LockFacts DEF NotOwned, WindowInv, WindowTypeOK
    <2>2. Kept(w) /\ win'[w].pc # "off" /\ ~Publishing(w)' /\ WindowTypeOK'
      BY <1>3, <2>1, GoesToFacts
    <2>3. manifest[win[w].id] # None => win[w].id \in left
      BY <1>1, NotPublishing
    <2> QED  BY ONLY WindowInv, w \in Window, <1>1, <1>3, <2>2, <2>3, SameTransport
  <1> QED  BY <1>2, <1>3 DEF CreateManifest

LEMMA FinishPublishInv ==
    ASSUME WindowInv, NEW w \in Window, FinishPublish(w)
    PROVE  WindowInv'
  <1>1. win[w].pc = "created" /\ win[w].id \in Id /\ UNCHANGED manifest
    BY HostFacts DEF FinishPublish, At
  <1>2. Publishing(w)
    BY <1>1 DEF Publishing
  <1>3. CASE IsUp(w) /\ UNCHANGED <<locks, left, faults>>
    <2>1. Kept(w) /\ win'[w].pc # "off" /\ Publishing(w)'
      BY <1>3, UpFacts DEF Publishing
    <2>2. WindowTypeOK'
      BY <1>1, <1>3, UpFacts DEF WindowInv, WindowTypeOK
    <2>3. win[w].id \notin left
      BY <1>2 DEF WindowInv, LeftAside
    <2>4. manifest[win[w].id] # None => manifest[win[w].id].host = HostOf(w)
      BY <1>2, HostFacts DEF OwnsManifest
    <2> QED  BY ONLY WindowInv, w \in Window, <1>1, <1>3, <2>1, <2>2, <2>3, <2>4, SameTransport
  <1>4. CASE /\ NotOwned(w) /\ GoesTo(w, "collided") /\ DisposeLock(w)
             /\ left' = left \cup {win[w].id}
    <2>1. /\ locks' \subseteq Id /\ left' \subseteq Id /\ faults' \in 0..MaxFaults
          /\ manifest' \in [Id -> [host : Host, fresh : BOOLEAN] \cup {None}]
      BY <1>1, <1>4, FaultFacts, LockFacts DEF NotOwned, WindowInv, WindowTypeOK
    <2>2. Kept(w) /\ win'[w].pc # "off" /\ ~Publishing(w)' /\ WindowTypeOK'
      BY <1>4, <2>1, GoesToFacts
    <2> QED  BY ONLY WindowInv, w \in Window, <1>1, <1>4, <2>2, SameTransport
  <1> QED  BY <1>3, <1>4 DEF FinishPublish, IsUp

LEMMA PublishFailsInv ==
    ASSUME WindowInv, NEW w \in Window, PublishFails(w)
    PROVE  WindowInv'
  <1>1. /\ win[w].pc \in {"listening", "locked"} /\ Fault /\ GoesTo(w, "closing")
        /\ DisposeLock(w) \/ UNCHANGED locks
        /\ UNCHANGED <<manifest, left>>
    BY DEF PublishFails, At
  <1>2. /\ locks' \subseteq Id /\ left' \subseteq Id /\ faults' \in 0..MaxFaults
        /\ manifest' \in [Id -> [host : Host, fresh : BOOLEAN] \cup {None}]
    BY <1>1, FaultFacts, LockFacts DEF WindowInv, WindowTypeOK
  <1>3. Kept(w) /\ win'[w].pc # "off" /\ ~Publishing(w)' /\ WindowTypeOK'
    BY <1>1, <1>2, GoesToFacts
  <1>4. manifest[win[w].id] # None => win[w].id \in left
    BY <1>1, NotPublishing
  <1>5. win[w].pc # "off"
    BY <1>1
  <1> QED  BY ONLY WindowInv, w \in Window, <1>1, <1>3, <1>4, <1>5, SameTransport

LEMMA HeartbeatInv ==
    ASSUME WindowInv, NEW w \in Window, Heartbeat(w)
    PROVE  WindowInv'
  <1>1. /\ HostOf(w) \in Host /\ win[w].id \in Id /\ win[w].pc = "up"
        /\ UNCHANGED <<win, locks, left, faults>>
    BY HostFacts DEF Heartbeat, At
  <1>2. /\ manifest'[win[w].id] = [host |-> HostOf(w), fresh |-> TRUE]
        /\ \A i \in Id \ {win[w].id} : manifest'[i] = manifest[i]
        /\ manifest' \in [Id -> [host : Host, fresh : BOOLEAN] \cup {None}]
    BY <1>1 DEF Heartbeat, Published, WindowInv, WindowTypeOK
  <1>3. WindowTypeOK'
    BY <1>1, <1>2 DEF WindowInv, WindowTypeOK
  <1>4. Kept(w) /\ Publishing(w)' /\ win[w].id \notin left
    BY <1>1 DEF Kept, Publishing, WindowInv, LeftAside
  <1>5. win[w].pc # "off" /\ win'[w].pc # "off" /\ manifest'[win[w].id].host = HostOf(w)
    BY <1>1, <1>2
  <1> QED  BY ONLY WindowInv, w \in Window, <1>1, <1>2, <1>3, <1>4, <1>5, SameTransport

LEMMA DisposePublisherInv ==
    ASSUME WindowInv, NEW w \in Window, DisposePublisher(w)
    PROVE  WindowInv'
  <1>1. win[w].pc = "up" /\ win[w].id \in Id /\ GoesTo(w, "closing") /\ DisposeLock(w)
    BY HostFacts DEF DisposePublisher, At
  <1>2. faults' \in 0..MaxFaults
    BY FaultFacts DEF DisposePublisher, NotOwned, WindowInv, WindowTypeOK
  <1>3. \/ manifest' = [manifest EXCEPT ![win[w].id] = None] /\ UNCHANGED left
        \/ UNCHANGED manifest /\ left' = left \cup {win[w].id}
    BY DEF DisposePublisher
  <1>4. /\ locks' \subseteq Id /\ left' \subseteq Id
        /\ manifest' \in [Id -> [host : Host, fresh : BOOLEAN] \cup {None}]
    BY <1>1, <1>3, LockFacts DEF WindowInv, WindowTypeOK
  <1>5. Kept(w) /\ win'[w].pc # "off" /\ ~Publishing(w)' /\ WindowTypeOK'
    BY <1>1, <1>2, <1>4, GoesToFacts
  <1>6. /\ \A i \in Id \ {win[w].id} : manifest'[i] = manifest[i] /\ (i \in left' <=> i \in left)
        /\ manifest'[win[w].id] \in {None, manifest[win[w].id]}
        /\ manifest'[win[w].id] # None => win[w].id \in left'
    BY <1>1, <1>3 DEF WindowInv, WindowTypeOK
  <1>7. win[w].pc # "off"
    BY <1>1
  <1> QED  BY ONLY WindowInv, w \in Window, <1>5, <1>6, <1>7, SameTransport

\* A step that leaves the hosts alone and makes no manifest.
LEMMA SameHosts ==
    ASSUME WindowInv, UNCHANGED <<win, left>>, WindowTypeOK',
           \A i \in Id : manifest'[i] # None =>
                manifest[i] # None /\ manifest'[i].host = manifest[i].host
    PROVE  WindowInv'
  <1>1. HostShape' /\ ManifestIsFiled'
    BY DEF WindowInv, HostShape, ManifestIsFiled
  <1>2. \A w \in Window : win[w].id \in Id
    BY HostFacts
  <1>3. LeftAside'
    BY <1>2 DEF WindowInv, LeftAside, Publishing
  <1>4. LiveManifestIsServed'
    BY DEF WindowInv, LiveManifestIsServed, Serves, HostOf, Listening
  <1> QED  BY <1>1, <1>3, <1>4 DEF WindowInv

LEMMA LeaseLapsesInv ==
    ASSUME WindowInv, NEW i \in Id, LeaseLapses(i)
    PROVE  WindowInv'
  <1>1. manifest' = [manifest EXCEPT ![i].fresh = FALSE] /\ manifest[i] # None
        /\ UNCHANGED <<win, locks, left>> /\ Fault
    BY DEF LeaseLapses
  <1>2. [manifest[i] EXCEPT !.fresh = FALSE] \in [host : Host, fresh : BOOLEAN]
    <2>1. manifest[i] \in [host : Host, fresh : BOOLEAN]
      BY <1>1 DEF WindowInv, WindowTypeOK
    <2> QED  BY <2>1
  <1>3. WindowTypeOK'
    <2> DEFINE m == [manifest[i] EXCEPT !.fresh = FALSE]
    <2>1. manifest' = [manifest EXCEPT ![i] = m]
      BY <1>1
    <2>2. faults' \in 0..MaxFaults
      BY <1>1, FaultFacts
    <2> HIDE DEF m
    <2> QED  BY <1>1, <1>2, <2>1, <2>2 DEF WindowInv, WindowTypeOK, m
  <1>4. \A j \in Id : manifest'[j] = manifest[j] \/ (j = i /\ manifest'[j].host = manifest[j].host)
    BY <1>1, <1>2 DEF WindowInv, WindowTypeOK
  <1> QED  BY <1>1, <1>3, <1>4, SameHosts

LEMMA FileLostInv ==
    ASSUME WindowInv, NEW i \in Id, FileLost(i)
    PROVE  WindowInv'
  <1>1. UNCHANGED <<win, left>> /\ Fault /\ locks' \subseteq locks
        /\ (manifest' = manifest \/ manifest' = [manifest EXCEPT ![i] = None])
    BY DEF FileLost
  <1>2. WindowTypeOK'
    BY <1>1, FaultFacts DEF WindowInv, WindowTypeOK
  <1>3. \A j \in Id : manifest'[j] = manifest[j] \/ manifest'[j] = None
    BY <1>1 DEF WindowInv, WindowTypeOK
  <1> QED  BY <1>1, <1>2, <1>3, SameHosts

\* The ends of a transport: nothing lies under the window's id but what was left.
LEMMA HostEndsInv ==
    ASSUME WindowInv, NEW w \in Window, DisposeTransport(w) \/ Crash(w)
    PROVE  WindowInv' /\ ~Listening(w)' /\ \A v \in Window \ {w} : win'[v] = win[v]
  <1> DEFINE next == <<w, win[w].id[2] + 1>>
  <1>1. win \in [Window -> HostRecord] /\ win[w] \in HostRecord /\ win[w].alive
    BY DEF DisposeTransport, Crash, At, WindowInv, WindowTypeOK, HostRecord
  <1>2. UNCHANGED <<locks, manifest, left, faults>>
    BY DEF DisposeTransport, Crash
  <1>3. win[w].id \in Id /\ win[w].id[1] = w /\ win[w].id[2] \in Nat /\ win[w].run \in 0..MaxRuns
    BY <1>1, HostFacts DEF Id, HostRecord
  <1>4. DisposeTransport(w) => win[w].id[2] <= win[w].run /\ win[w].pc \in {"closing", "collided"}
    BY DEF DisposeTransport, At, WindowInv, HostShape
  <1>5. DisposeTransport(w) => next \in Id
    BY <1>3, <1>4, WindowAssumption DEF Id
  <1>6. PICK r \in HostRecord :
            /\ win' = [win EXCEPT ![w] = r]
            /\ r.run = win[w].run /\ r.port = None /\ r.pc = "off"
            /\ r.id = win[w].id \/ (r.id = next /\ DisposeTransport(w))
            /\ r.alive => DisposeTransport(w)
    <2>1. CASE DisposeTransport(w)
      <3> DEFINE again == win[w].pc = "collided" /\ win[w].attempt < 3
                 id == IF again THEN next ELSE win[w].id
                 attempt == IF again THEN win[w].attempt + 1 ELSE 1
                 r == [win[w] EXCEPT !.pc = "off", !.port = None, !.id = id, !.attempt = attempt]
      <3>1. win' = [win EXCEPT ![w] = r]
        BY <1>1, <2>1 DEF DisposeTransport
      <3>2. id \in Id /\ id \in {win[w].id, next} /\ attempt \in 1..3
        BY <1>1, <1>3, <1>5, <2>1 DEF HostRecord
      <3> HIDE DEF id, attempt
      <3>3. /\ r \in HostRecord /\ r.run = win[w].run /\ r.port = None /\ r.pc = "off" /\ r.id = id
        BY <1>1, <3>2 DEF HostRecord
      <3> QED  BY <2>1, <3>1, <3>2, <3>3
    <2>2. CASE Crash(w)
      <3> DEFINE r == [win[w] EXCEPT !.alive = FALSE, !.pc = "off", !.port = None]
      <3>1. win' = [win EXCEPT ![w] = r]
        BY <2>2 DEF Crash
      <3>2. /\ r \in HostRecord /\ r.run = win[w].run /\ r.port = None /\ r.pc = "off"
            /\ r.id = win[w].id /\ ~r.alive
        BY <1>1 DEF HostRecord
      <3> QED  BY <3>1, <3>2
    <2> QED  BY <2>1, <2>2
  <1> DEFINE id == r.id
             alive == r.alive
  <1>7. /\ win' \in [Window -> HostRecord]
        /\ win'[w].alive = alive /\ win'[w].id = id /\ win'[w].run = win[w].run
        /\ win'[w].port = None /\ win'[w].pc = "off"
        /\ \A v \in Window \ {w} : win'[v] = win[v]
    BY <1>1, <1>6
  <1>8. WindowTypeOK'
    BY <1>2, <1>7 DEF WindowInv, WindowTypeOK, HostRecord
  <1>9. /\ id \in Id /\ id[1] = w /\ id[2] \in Nat /\ id[2] >= win[w].id[2]
        /\ id[2] <= win[w].run + 1
    <2>1. id \in Id
      BY <1>6 DEF HostRecord
    <2>2. win[w].id[2] <= win[w].run + 1
      BY DEF WindowInv, HostShape
    <2> QED  BY <1>3, <1>4, <1>6, <2>1, <2>2
  <1>10. HostShape'
    BY <1>7, <1>9 DEF WindowInv, HostShape
  <1>11. \A i \in Id : i[1] \in Window /\ i[2] \in Nat
    BY DEF Id
  <1>12. ManifestIsFiled'
    BY <1>2, <1>3, <1>7, <1>9, <1>11 DEF WindowInv, ManifestIsFiled
  <1>13. alive /\ manifest[id] # None => id = win[w].id /\ id \in left
    <2>1. manifest[id] # None => id[2] <= win[w].id[2]
      BY <1>9 DEF WindowInv, ManifestIsFiled
    <2>2. id = next => manifest[id] = None
      BY <1>3, <2>1
    <2>3. alive /\ manifest[win[w].id] # None => win[w].id \in left
      BY <1>1, <1>4, <1>6 DEF WindowInv, LeftAside, Publishing
    <2> QED  BY <1>6, <2>2, <2>3
  <1>14. LeftAside'
    BY <1>2, <1>7, <1>13 DEF WindowInv, LeftAside, Publishing
  <1>15. LiveManifestIsServed'
    <2> SUFFICES ASSUME NEW i \in Id, manifest[i] # None, win'[i[1]].alive
                 PROVE  \/ Serves(manifest[i].host)'
                        \/ i \in left /\ ~(win'[i[1]].id = i /\ win'[i[1]].pc = "up")
      BY <1>2 DEF LiveManifestIsServed
    <2>1. manifest[i].host.win = i[1] /\ manifest[i].host.id = i
      BY DEF WindowInv, ManifestIsFiled
    <2>2. CASE i[1] = w
      <3>1. Serves(manifest[i].host) => i = win[w].id
        BY <2>1, <2>2 DEF Serves, HostOf
      <3>2. alive
        BY <1>7, <2>2
      <3>3. i = win[w].id => i \in left
        BY <1>1, <1>4, <1>6, <3>2 DEF WindowInv, LeftAside, Publishing
      <3>4. i \in left
        BY <1>1, <2>2, <3>1, <3>3 DEF WindowInv, LiveManifestIsServed
      <3> QED  BY <1>7, <2>2, <3>4
    <2>3. CASE i[1] # w
      <3>1. win'[i[1]] = win[i[1]]
        BY <1>7, <1>11, <2>3
      <3>2. Serves(manifest[i].host)' <=> Serves(manifest[i].host)
        BY <1>2, <2>1, <3>1 DEF Serves, HostOf, Listening
      <3> QED  BY <3>1, <3>2 DEF WindowInv, LiveManifestIsServed
    <2> QED  BY <2>2, <2>3
  <1> QED  BY <1>7, <1>8, <1>10, <1>12, <1>14, <1>15 DEF WindowInv, Listening

LEMMA WindowNextInv == WindowInv /\ (WindowNext \/ UNCHANGED windowVars) => WindowInv'
  <1> SUFFICES ASSUME WindowInv, WindowNext \/ UNCHANGED windowVars PROVE WindowInv'
    OBVIOUS
  <1>1. CASE WindowStep
    BY <1>1, StartTransportInv, AcquireLifetimeLockInv, CreateManifestInv, FinishPublishInv,
       PublishFailsInv, HeartbeatInv, DisposePublisherInv, LeaseLapsesInv, FileLostInv
    DEF WindowStep
  <1>2. CASE \E w \in Window : DisposeTransport(w) \/ Crash(w)
    BY <1>2, HostEndsInv
  <1>3. CASE UNCHANGED windowVars
    <2>1. WindowTypeOK'
      BY <1>3 DEF windowVars, WindowInv, WindowTypeOK
    <2>2. UNCHANGED <<win, left>> /\ \A i \in Id : manifest'[i] = manifest[i]
      BY <1>3 DEF windowVars
    <2> QED  BY <2>1, <2>2, SameHosts
  <1> QED  BY <1>1, <1>2, <1>3 DEF WindowNext

-----------------------------------------------------------------------------
(* Hosts that somebody has heard of *)

\* h is or was a host with a manifest: one that is only starting is not known.
Past(h) == /\ h.run <= win[h.win].run
           /\ h.run = win[h.win].run => win[h.win].pc \notin {"listening", "locked"}

\* The steps after which a window has the transport it had.
KeepsTransport(w) ==
    AcquireLifetimeLock(w) \/ CreateManifest(w) \/ FinishPublish(w) \/ PublishFails(w)
    \/ DisposePublisher(w)

LEMMA TransportKept ==
    ASSUME WindowInv, NEW w \in Window, KeepsTransport(w)
    PROVE  /\ Kept(w)
           /\ win'[w].pc \in {"listening", "locked"} => win[w].pc \in {"listening", "locked"}
  <1>1. CASE IsUp(w)
    BY <1>1, UpFacts
  <1>2. ASSUME NEW pc \in {"locked", "created", "up", "collided", "closing"}, GoesTo(w, pc),
               pc = "locked" => win[w].pc = "listening"
        PROVE  Kept(w) /\ (win'[w].pc \in {"listening", "locked"}
                              => win[w].pc \in {"listening", "locked"})
    <2>1. Kept(w) /\ win'[w].pc = pc
      BY <1>2, GoesToFacts
    <2> QED  BY <1>2, <2>1
  <1>3. \/ IsUp(w)
        \/ GoesTo(w, "created") \/ GoesTo(w, "collided") \/ GoesTo(w, "closing")
        \/ GoesTo(w, "locked") /\ win[w].pc = "listening"
    BY DEF KeepsTransport, AcquireLifetimeLock, CreateManifest, FinishPublish, PublishFails,
           DisposePublisher, At, IsUp
  <1> QED  BY <1>1, <1>2, <1>3

\* A window's steps, as far as hosts are concerned.
LEMMA HostSteps ==
    ASSUME WindowInv, WindowNext \/ UNCHANGED windowVars, NEW h \in Host, Past(h)
    PROVE  Past(h)' /\ (Serves(h)' => Serves(h))
  <1>1. h.win \in Window /\ h.run \in 1..MaxRuns
    BY DEF Host
  <1>2. CASE win' = win
    BY <1>2 DEF Past, Serves, HostOf, Listening
  <1>3. ASSUME NEW w \in Window, StartTransport(w)
        PROVE  Past(h)' /\ (Serves(h)' => Serves(h))
    <2>1. PICK p \in Port : win' = [win EXCEPT ![w].pc = "listening", ![w].port = p, ![w].run = @ + 1]
      BY <1>3 DEF StartTransport
    <2>2. win'[w].run = win[w].run + 1 /\ \A v \in Window \ {w} : win'[v] = win[v]
      BY <2>1 DEF WindowInv, WindowTypeOK
    <2>3. win[w].run \in Nat
      BY WindowAssumption DEF WindowInv, WindowTypeOK
    <2> QED  BY <1>1, <2>2, <2>3 DEF Past, Serves, HostOf, Listening
  <1>4. ASSUME NEW w \in Window, KeepsTransport(w)
        PROVE  Past(h)' /\ (Serves(h)' => Serves(h))
    BY <1>1, <1>4, TransportKept DEF Kept, Past, Serves, HostOf, Listening
  <1>5. ASSUME NEW w \in Window, DisposeTransport(w) \/ Crash(w)
        PROVE  Past(h)' /\ (Serves(h)' => Serves(h))
    <2>1. ~Listening(w)' /\ \A v \in Window \ {w} : win'[v] = win[v]
      BY <1>5, HostEndsInv
    <2>2. win'[w].run = win[w].run /\ win'[w].pc = "off"
      <3>1. win[w] \in HostRecord /\ win \in [Window -> HostRecord]
        BY DEF WindowInv, WindowTypeOK, HostRecord
      <3>2. CASE DisposeTransport(w)
        BY <3>1, <3>2 DEF DisposeTransport, HostRecord
      <3>3. CASE Crash(w)
        BY <3>1, <3>3 DEF Crash, HostRecord
      <3> QED  BY <1>5, <3>2, <3>3
    <2> QED  BY <1>1, <2>1, <2>2 DEF Past, Serves, HostOf, Listening
  <1> QED  BY <1>2, <1>3, <1>4, <1>5
           DEF WindowNext, WindowStep, KeepsTransport, windowVars, Heartbeat, LeaseLapses, FileLost

\* A step that ends no transport: who is served stays served.
LEMMA HostsGoOn ==
    ASSUME WindowInv, WindowStep, NEW h \in Host, Past(h)
    PROVE  Serves(h)' <=> Serves(h)
  <1>1. h.win \in Window /\ h.run \in 1..MaxRuns
    BY DEF Host
  <1>2. CASE win' = win
    BY <1>2 DEF Serves, HostOf, Listening
  <1>3. ASSUME NEW w \in Window, StartTransport(w)
        PROVE  Serves(h)' <=> Serves(h)
    <2>1. Serves(h)' => Serves(h)
      BY <1>3, HostSteps DEF WindowNext
    <2>2. ~Serves(h) \/ h.win # w
      BY <1>1, <1>3 DEF StartTransport, WindowInv, HostShape, Serves, Listening
    <2>3. \A v \in Window \ {w} : win'[v] = win[v]
      BY <1>3 DEF StartTransport, WindowInv, WindowTypeOK
    <2> QED  BY <1>1, <2>1, <2>2, <2>3 DEF Serves, HostOf, Listening
  <1>4. ASSUME NEW w \in Window, KeepsTransport(w)
        PROVE  Serves(h)' <=> Serves(h)
    BY <1>1, <1>4, TransportKept DEF Kept, Serves, HostOf, Listening
  <1> QED  BY <1>2, <1>3, <1>4
           DEF WindowStep, KeepsTransport, Heartbeat, LeaseLapses, FileLost

\* A manifest keeps its host, or describes one that has just been published.
LEMMA ManifestSteps ==
    ASSUME WindowInv, WindowStep, NEW i \in Id, manifest'[i] # None
    PROVE  \/ manifest[i] # None /\ manifest'[i].host = manifest[i].host
           \/ \E w \in Window : /\ win'[w].pc \in {"created", "up"}
                                /\ manifest'[i].host = HostOf(w)'
  <1>1. CASE manifest'[i] = manifest[i]
    BY <1>1
  <1>2. ASSUME NEW w \in Window, Published(w), UNCHANGED win \/ GoesTo(w, "created"),
               win[w].pc = "up" \/ GoesTo(w, "created")
        PROVE  \/ manifest'[i] = manifest[i]
               \/ manifest'[i].host = HostOf(w)' /\ win'[w].pc \in {"created", "up"}
    <2>1. /\ win'[w].id = win[w].id /\ win'[w].run = win[w].run /\ win'[w].port = win[w].port
          /\ win'[w].pc \in {"created", "up"}
      BY <1>2 DEF GoesTo, WindowInv, WindowTypeOK
    <2> QED  BY <1>2, <2>1 DEF Published, HostOf, WindowInv, WindowTypeOK
  <1>3. ASSUME NEW w \in Window, CreateManifest(w) \/ Heartbeat(w)
        PROVE  \/ manifest'[i] = manifest[i]
               \/ manifest'[i].host = HostOf(w)' /\ win'[w].pc \in {"created", "up"}
    BY <1>2, <1>3 DEF CreateManifest, Heartbeat, At
  <1>4. ASSUME NEW w \in Window, DisposePublisher(w)
        PROVE  manifest'[i] = manifest[i]
    BY <1>4 DEF DisposePublisher, WindowInv, WindowTypeOK
  <1>5. ASSUME NEW j \in Id, LeaseLapses(j)
        PROVE  manifest[i] # None /\ manifest'[i].host = manifest[i].host
    BY <1>5 DEF LeaseLapses, WindowInv, WindowTypeOK
  <1>6. ASSUME NEW j \in Id, FileLost(j)
        PROVE  manifest'[i] = manifest[i]
    BY <1>6 DEF FileLost, WindowInv, WindowTypeOK
  <1> QED  BY <1>1, <1>3, <1>4, <1>5, <1>6
           DEF WindowStep, StartTransport, AcquireLifetimeLock, FinishPublish, PublishFails

-----------------------------------------------------------------------------
(* Clients, bridges and transports *)

BridgeRecord == [st : {"connecting", "running", "exited"},
                 manifest : Host \cup {None},
                 discovering : BOOLEAN]
LineRecord == [attempt : Attempt, pc : {"unread", "awaiting", "posted", "answered"}, ran : 0..2]

\* Everybody who keeps a host got it from a manifest.
HostsArePast ==
    /\ \A i \in Id : manifest[i] # None => Past(manifest[i].host)
    /\ \A c \in Client : bridge[c].manifest # None => Past(bridge[c].manifest)
    /\ \A p \in posts : Past(p.to)
    /\ \A k \in calls : Past(k.at)
    /\ \A r \in Line : cancel[r].st = "sent" => cancel[r].to # None /\ Past(cancel[r].to)

\* A mutating request is on its way at most once, and has not run until then.
MutatingFits ==
    \A r \in Line :
        /\ line[r].ran <= 1
        /\ Kind[r] = "mutating" =>
              /\ line[r].pc \in {"unread", "awaiting"} =>
                    line[r].ran = 0 /\ \A p \in posts : p.line # r
              /\ \A p \in posts : p.line = r =>
                    line[r].ran = 0 /\ \A q \in posts : q.line = r => q = p

\* What a client that names its window sends goes there.
ExplicitFits ==
    /\ \A c \in Client : Selection[c] = "explicit" /\ bridge[c].manifest # None
                           => bridge[c].manifest.id = Wanted[c]
    /\ \A p \in posts : Selection[ClientOf[p.line]] = "explicit"
                           => p.to.id = Wanted[ClientOf[p.line]]

BridgeInv ==
    /\ TypeOK /\ WindowInv /\ HostsArePast /\ MutatingFits
    /\ ExplicitFits /\ ExplicitWindowOnly /\ AbortsFit

LEMMA SameWindows ==
    ASSUME WindowInv, UNCHANGED windowVars
    PROVE  /\ WindowInv'
           /\ \A h : (Past(h)' <=> Past(h)) /\ (Serves(h)' <=> Serves(h))
  <1>1. WindowInv'
    BY WindowNextInv
  <1> QED  BY <1>1 DEF windowVars, Past, Serves, HostOf, Listening

LEMMA LineFacts == \A r \in Line : ClientOf[r] \in Client /\ Kind[r] \in {"safe", "mutating"}
  BY BridgeAssumption DEF Line

\* The window a bridge selects passed its health check, and is the one the client has named.
LEMMA SelectedIsLive ==
    ASSUME NEW c \in Client, NEW live, Selected(c, live) # None
    PROVE  /\ Selected(c, live) \in live
           /\ Selection[c] = "explicit" => Selected(c, live).id = Wanted[c]
  <1>1. ASSUME NEW S, Cardinality(S) = 1
        PROVE  (CHOOSE h \in S : TRUE) \in S
    BY <1>1, FS_EmptySet
  <1> DEFINE requested == {h \in live : h.id = Wanted[c]}
             children == {h \in live : h.win = Parent[c]}
             Only(S) == IF Cardinality(S) = 1 THEN CHOOSE h \in S : TRUE ELSE None
  <1>2. \A S : Only(S) # None => Only(S) \in S
    BY <1>1
  <1>3. Selected(c, live) = IF Selection[c] = "explicit" \/ (Selection[c] = "env" /\ requested # {})
                            THEN Only(requested)
                            ELSE IF Cardinality(live) = 1 THEN Only(live) ELSE Only(children)
    BY DEF Selected
  <1> HIDE DEF Only
  <1> QED  BY <1>2, <1>3

\* The ids of a client's requests tell them apart.
LEMMA RequestKeyIsUnique ==
    ASSUME NEW q \in Line, NEW r \in Line, RequestKey(q) = RequestKey(r)
    PROVE  q = r
  <1> DEFINE upTo(x) == {y \in LinesOf(ClientOf[x]) : y <= x}
  <1>1. ClientOf[q] = ClientOf[r] /\ Cardinality(upTo(q)) = Cardinality(upTo(r))
    BY DEF RequestKey, RequestId
  <1>2. IsFiniteSet(upTo(q)) /\ IsFiniteSet(upTo(r))
    <2>1. IsFiniteSet(Line)
      BY BridgeAssumption, FS_Interval DEF Line
    <2> QED  BY <2>1, FS_Subset DEF LinesOf
  <1>3. q \in Int /\ r \in Int
    BY DEF Line
  <1>4. upTo(q) \subseteq upTo(r) \/ upTo(r) \subseteq upTo(q)
    BY <1>1, <1>3 DEF LinesOf, Line
  <1>5. upTo(q) = upTo(r)
    BY <1>1, <1>2, <1>4, FS_Subset
  <1>6. q \in upTo(q) /\ r \in upTo(r)
    BY <1>3 DEF LinesOf
  <1> QED  BY <1>3, <1>5, <1>6

LEMMA InitBridge == Init => BridgeInv
  <1> SUFFICES ASSUME Init PROVE BridgeInv
    OBVIOUS
  <1>1. WindowInv /\ \A i \in Id : manifest[i] = None
    BY InitWindow DEF Init, WindowInit
  <1>2. TypeOK
    <2>1. bridge \in [Client -> BridgeRecord] /\ line \in [Line -> LineRecord]
      BY DEF Init, Attempt, BridgeRecord, LineRecord
    <2> QED  BY <1>1, <2>1 DEF Init, TypeOK, WindowInv, BridgeRecord, LineRecord
  <1>3. HostsArePast /\ MutatingFits /\ ExplicitFits /\ ExplicitWindowOnly /\ AbortsFit
    BY <1>1 DEF Init, HostsArePast, MutatingFits, ExplicitFits, ExplicitWindowOnly, AbortsFit
  <1> QED  BY <1>1, <1>2, <1>3 DEF BridgeInv

-----------------------------------------------------------------------------
(* The windows' own steps *)

LEMMA WindowStepInv ==
    ASSUME BridgeInv, WindowStep, UNCHANGED <<bridge, line, posts, calls, cancel>>
    PROVE  BridgeInv'
  <1>1. WindowInv'
    BY WindowNextInv DEF BridgeInv, WindowNext
  <1>2. TypeOK'
    BY <1>1 DEF BridgeInv, TypeOK, WindowInv
  <1>3. \A h \in Host : Past(h) => Past(h)' /\ (Serves(h)' <=> Serves(h))
    BY HostSteps, HostsGoOn DEF BridgeInv, WindowNext
  <1>4. ASSUME NEW i \in Id, manifest'[i] # None
        PROVE  Past(manifest[i].host)'
    <2>1. CASE manifest[i] # None /\ manifest'[i].host = manifest[i].host
      <3>1. Past(manifest[i].host) /\ manifest[i].host \in Host
        BY <2>1 DEF BridgeInv, HostsArePast, WindowInv, WindowTypeOK
      <3> QED  BY <1>3, <2>1, <3>1 DEF Past
    <2>2. ASSUME NEW w \in Window, win'[w].pc \in {"created", "up"},
                 manifest'[i].host = HostOf(w)'
          PROVE  Past(manifest[i].host)'
      <3>1. win'[w].run \in Int
        BY <1>1, WindowAssumption DEF WindowInv, WindowTypeOK
      <3> QED  BY <2>2, <3>1 DEF Past, HostOf
    <2> QED  BY <1>4, <2>1, <2>2, ManifestSteps DEF BridgeInv
  <1>5. HostsArePast'
    <2>1. \A c \in Client : bridge[c].manifest # None => bridge[c].manifest \in Host
      BY DEF BridgeInv, TypeOK
    <2>2. (\A p \in posts : p.to \in Host) /\ (\A k \in calls : k.at \in Host)
      BY DEF BridgeInv, TypeOK, Post, ToolCall
    <2>3. \A r \in Line : cancel[r].st = "sent" => cancel[r].to \in Host
      BY DEF BridgeInv, TypeOK, HostsArePast
    <2> QED  BY <1>3, <1>4, <2>1, <2>2, <2>3 DEF BridgeInv, HostsArePast
  <1>6. AbortsFit'
    <2>1. \A k \in calls : k.at \in Host /\ Past(k.at)
      BY DEF BridgeInv, TypeOK, ToolCall, HostsArePast
    <2> QED  BY <1>3, <2>1 DEF BridgeInv, AbortsFit
  <1>7. MutatingFits' /\ ExplicitFits' /\ ExplicitWindowOnly'
    BY DEF BridgeInv, MutatingFits, ExplicitFits, ExplicitWindowOnly
  <1> QED  BY <1>1, <1>2, <1>5, <1>6, <1>7 DEF BridgeInv

\* The ends of transports: what runs there is aborted, or ends with its window.
LEMMA HostEndsBridge ==
    ASSUME BridgeInv, NEW w \in Window, WindowDisposesTransport(w) \/ WindowCrashes(w)
    PROVE  BridgeInv'
  <1>1. /\ DisposeTransport(w) \/ Crash(w)
        /\ UNCHANGED <<manifest, bridge, line, posts, cancel>>
    BY DEF WindowDisposesTransport, WindowCrashes, DisposeTransport, Crash
  <1>2. WindowInv' /\ ~Listening(w)' /\ \A v \in Window \ {w} : win'[v] = win[v]
    BY <1>1, HostEndsInv DEF BridgeInv
  <1>3. \A h \in Host : Past(h) => Past(h)' /\ (Serves(h)' => Serves(h))
    BY <1>1, HostSteps DEF BridgeInv, WindowNext
  <1>4. \A k \in calls' : \/ k \in calls
                          \/ \E m \in calls : k = [m EXCEPT !.aborted = TRUE] /\ m.at = HostOf(w)
    BY DEF WindowDisposesTransport, WindowCrashes, ActiveAt
  <1>5. \A k \in calls' : /\ k \in ToolCall
                          /\ \E m \in calls : /\ k.at = m.at /\ k.line = m.line
                                              /\ m.aborted => k.aborted
                                              /\ k.aborted => m.aborted \/ m.at = HostOf(w)
    <2>1. \A m \in calls : m \in ToolCall
      BY DEF BridgeInv, TypeOK
    <2>2. ASSUME NEW m \in calls
          PROVE  /\ [m EXCEPT !.aborted = TRUE] \in ToolCall
                 /\ [m EXCEPT !.aborted = TRUE].at = m.at
                 /\ [m EXCEPT !.aborted = TRUE].line = m.line
      BY <2>1 DEF ToolCall
    <2> SUFFICES ASSUME NEW k \in calls'
                 PROVE  /\ k \in ToolCall
                        /\ \E m \in calls : /\ k.at = m.at /\ k.line = m.line
                                            /\ m.aborted => k.aborted
                                            /\ k.aborted => m.aborted \/ m.at = HostOf(w)
      OBVIOUS
    <2>3. CASE k \in calls
      BY <2>1, <2>3
    <2>4. ASSUME NEW m \in calls, k = [m EXCEPT !.aborted = TRUE], m.at = HostOf(w)
          PROVE  k.at = m.at /\ k.line = m.line /\ k.aborted /\ k \in ToolCall
      BY <2>1, <2>4 DEF ToolCall
    <2> QED  BY <1>4, <2>3, <2>4
  <1>6. \A k \in calls' : k.at.win = w /\ Serves(k.at) => k.aborted
    <2>1. CASE WindowCrashes(w)
      BY <2>1 DEF WindowCrashes
    <2>2. CASE WindowDisposesTransport(w)
      <3>1. ASSUME NEW m \in calls, m.at.win = w, Serves(m.at)
            PROVE  m.at = HostOf(w)
        BY <3>1 DEF Serves
      <3> QED  BY <2>2, <3>1 DEF WindowDisposesTransport, ActiveAt, BridgeInv, TypeOK, ToolCall
    <2> QED  BY <2>1, <2>2
  <1>7. TypeOK'
    BY <1>1, <1>2, <1>5 DEF BridgeInv, TypeOK, WindowInv
  <1>8. HostsArePast'
    <2>1. \A i \in Id : manifest[i] # None => manifest[i].host \in Host
      BY DEF BridgeInv, WindowInv, WindowTypeOK
    <2>2. \A c \in Client : bridge[c].manifest # None => bridge[c].manifest \in Host
      BY DEF BridgeInv, TypeOK
    <2>3. (\A p \in posts : p.to \in Host) /\ (\A k \in calls : k.at \in Host)
      BY DEF BridgeInv, TypeOK, Post, ToolCall
    <2>4. \A r \in Line : cancel[r].st = "sent" => cancel[r].to \in Host
      BY DEF BridgeInv, TypeOK, HostsArePast
    <2> QED  BY <1>1, <1>3, <1>5, <2>1, <2>2, <2>3, <2>4 DEF BridgeInv, HostsArePast
  <1>9. AbortsFit'
    <2> SUFFICES ASSUME NEW k \in calls'
                 PROVE  /\ k.aborted => cancel[k.line].st # "no" \/ ~Serves(k.at)'
                        /\ ~Serves(k.at)' => k.aborted
      BY <1>1 DEF AbortsFit
    <2>1. PICK m \in calls : /\ k.at = m.at /\ k.line = m.line
                             /\ m.aborted => k.aborted
                             /\ k.aborted => m.aborted \/ m.at = HostOf(w)
      BY <1>5
    <2>2. k.at \in Host /\ Past(k.at)
      BY <2>1 DEF BridgeInv, TypeOK, ToolCall, HostsArePast
    <2>3. k.at.win # w => (Serves(k.at)' <=> Serves(k.at))
      BY <1>2, <2>2 DEF Serves, HostOf, Listening, Host
    <2>4. k.at.win = w => ~Serves(k.at)'
      BY <1>2 DEF Serves
    <2> QED  BY <1>6, <2>1, <2>3, <2>4 DEF BridgeInv, AbortsFit, HostOf
  <1>10. MutatingFits' /\ ExplicitFits' /\ ExplicitWindowOnly'
    BY <1>1, <1>5 DEF BridgeInv, MutatingFits, ExplicitFits, ExplicitWindowOnly
  <1> QED  BY <1>2, <1>7, <1>8, <1>9, <1>10 DEF BridgeInv

-----------------------------------------------------------------------------
(* The bridges' steps, in which the windows stand still *)

LEMMA SameAll ==
    ASSUME BridgeInv, UNCHANGED vars
    PROVE  BridgeInv'
  <1>1. /\ WindowInv'
        /\ \A h : (Past(h)' <=> Past(h)) /\ (Serves(h)' <=> Serves(h))
    BY SameWindows DEF vars, windowVars, BridgeInv
  <1>2. TypeOK'
    BY <1>1 DEF vars, BridgeInv, TypeOK, WindowInv
  <1>3. HostsArePast' /\ AbortsFit'
    BY <1>1 DEF vars, BridgeInv, HostsArePast, AbortsFit
  <1>4. MutatingFits' /\ ExplicitFits' /\ ExplicitWindowOnly'
    BY DEF vars, BridgeInv, MutatingFits, ExplicitFits, ExplicitWindowOnly
  <1> QED  BY <1>1, <1>2, <1>3, <1>4 DEF BridgeInv

LEMMA DiscoverInv ==
    ASSUME BridgeInv, NEW c \in Client, Discover(c)
    PROVE  BridgeInv'
  <1>1. UNCHANGED windowVars /\ UNCHANGED calls /\ bridge[c].discovering
    BY DEF Discover
  <1>2. /\ WindowInv'
        /\ \A h : (Past(h)' <=> Past(h)) /\ (Serves(h)' <=> Serves(h))
    BY <1>1, SameWindows DEF BridgeInv
  <1>3. ASSUME NEW h \in Host, h # None, Past(h), Selection[c] = "explicit" => h.id = Wanted[c],
               Discovered(c, h)
        PROVE  BridgeInv'
    <2>1. bridge' = [bridge EXCEPT ![c] = [st |-> "running", manifest |-> h,
                                            discovering |-> FALSE]]
      BY <1>3 DEF Discovered
    <2>2. line' = [r \in Line |-> IF r \in WaitersOf(c) THEN Posted(r) ELSE line[r]]
      BY <1>3 DEF Discovered
    <2>3. posts' = posts \cup {[line |-> r, attempt |-> line[r].attempt, to |-> h] : r \in WaitersOf(c)}
      BY <1>3 DEF Discovered
    <2>4. cancel' = [r \in Line |-> IF r \in LinesOf(c) /\ cancel[r].st = "awaiting"
                                    THEN CancelTo(h) ELSE cancel[r]]
      BY <1>3 DEF Discovered
    <2>5. \A r \in WaitersOf(c) : r \in Line /\ ClientOf[r] = c /\ line[r].pc = "awaiting"
      BY DEF WaitersOf, LinesOf
    <2>6. \A p \in posts' : \/ p \in posts
                            \/ /\ p.line \in WaitersOf(c) /\ p.to = h
                               /\ p = [line |-> p.line, attempt |-> line[p.line].attempt, to |-> h]
      BY <2>3
    <2>7. bridge' \in [Client -> BridgeRecord]
      BY <1>3, <2>1 DEF BridgeInv, TypeOK, BridgeRecord
    <2>8. line' \in [Line -> LineRecord]
      BY <2>2 DEF BridgeInv, TypeOK, LineRecord, Posted
    <2>9. posts' \subseteq Post
      BY <1>3, <2>5, <2>6 DEF BridgeInv, TypeOK, Post
    <2>10. cancel' \in [Line -> [st : {"no", "awaiting", "sent", "over"}, to : Host \cup {None}]]
      BY <1>3, <2>4 DEF BridgeInv, TypeOK, CancelTo
    <2>11. TypeOK'
      BY <1>1, <1>2, <2>7, <2>8, <2>9, <2>10
      DEF BridgeInv, TypeOK, WindowInv, BridgeRecord, LineRecord
    <2>12. HostsArePast'
      <3>1. \A k \in Client : bridge'[k].manifest = IF k = c THEN h ELSE bridge[k].manifest
        BY <2>1 DEF BridgeInv, TypeOK
      <3>2. \A p \in posts' : Past(p.to)
        BY <1>3, <2>6 DEF BridgeInv, HostsArePast
      <3>3. \A r \in Line : cancel'[r].st = "sent" => cancel'[r].to # None /\ Past(cancel'[r].to)
        <4>1. \A r \in Line : cancel'[r] = CancelTo(h) \/ cancel'[r] = cancel[r]
          BY <2>4
        <4>2. CancelTo(h).to = h /\ h # None
          BY <1>3 DEF CancelTo
        <4> QED  BY <1>3, <4>1, <4>2 DEF BridgeInv, HostsArePast
      <3> QED  BY <1>1, <1>2, <1>3, <3>1, <3>2, <3>3 DEF BridgeInv, HostsArePast, windowVars
    <2>13. MutatingFits'
      <3>4. \A r \in Line : line'[r].ran <= 1
        BY <2>2 DEF Posted, BridgeInv, MutatingFits, TypeOK
      <3> SUFFICES ASSUME NEW r \in Line, Kind[r] = "mutating"
                   PROVE  /\ line'[r].pc \in {"unread", "awaiting"} =>
                                line'[r].ran = 0 /\ \A p \in posts' : p.line # r
                          /\ \A p \in posts' : p.line = r =>
                                line'[r].ran = 0 /\ \A q \in posts' : q.line = r => q = p
        BY <3>4 DEF MutatingFits
      <3>1. line[r] \in LineRecord
        BY DEF BridgeInv, TypeOK, LineRecord
      <3>2. CASE r \in WaitersOf(c)
        <4>1. line[r].pc = "awaiting" /\ line[r].ran = 0 /\ \A p \in posts : p.line # r
          BY <2>5, <3>2 DEF BridgeInv, MutatingFits
        <4>2. line'[r].pc = "posted" /\ line'[r].ran = 0
          BY <2>2, <3>1, <3>2, <4>1 DEF Posted, LineRecord
        <4>3. \A p \in posts' : p.line = r => p = [line |-> r, attempt |-> line[r].attempt, to |-> h]
          BY <2>6, <4>1
        <4> QED  BY <4>2, <4>3
      <3>3. CASE r \notin WaitersOf(c)
        <4>1. line'[r] = line[r]
          BY <2>2, <3>3
        <4>2. \A p \in posts' : p.line = r => p \in posts
          BY <2>6, <3>3
        <4> QED  BY <4>1, <4>2 DEF BridgeInv, MutatingFits
      <3> QED  BY <3>2, <3>3
    <2>14. ExplicitFits'
      <3>1. \A k \in Client : bridge'[k].manifest = IF k = c THEN h ELSE bridge[k].manifest
        BY <2>1 DEF BridgeInv, TypeOK
      <3>2. \A p \in posts' : Selection[ClientOf[p.line]] = "explicit"
                                  => p.to.id = Wanted[ClientOf[p.line]]
        BY <1>3, <2>5, <2>6 DEF BridgeInv, ExplicitFits
      <3> QED  BY <1>3, <3>1, <3>2 DEF BridgeInv, ExplicitFits
    <2>15. AbortsFit'
      <3>1. \A k \in calls : k.line \in Line
        BY DEF BridgeInv, TypeOK, ToolCall
      <3>2. \A r \in Line : cancel'[r].st # "no" <=> cancel[r].st # "no"
        BY <2>4 DEF CancelTo
      <3> QED  BY <1>1, <1>2, <3>1, <3>2 DEF BridgeInv, AbortsFit
    <2>16. ExplicitWindowOnly'
      BY <1>1 DEF BridgeInv, ExplicitWindowOnly
    <2> QED  BY <1>2, <2>11, <2>12, <2>13, <2>14, <2>15, <2>16 DEF BridgeInv
  <1>4. ASSUME NotDiscovered(c)
        PROVE  BridgeInv'
    <2>2. line' = [r \in Line |-> IF r \in WaitersOf(c)
                                  THEN [line[r] EXCEPT !.pc = "answered"] ELSE line[r]]
      BY <1>4 DEF NotDiscovered
    <2>3. cancel' = [r \in Line |-> IF r \in LinesOf(c) /\ cancel[r].st = "awaiting"
                                    THEN CancelOver ELSE cancel[r]]
      BY <1>4 DEF NotDiscovered
    <2>4. posts' = posts
      BY <1>4 DEF NotDiscovered
    <2>5. bridge' \in [Client -> BridgeRecord]
          /\ \A k \in Client : bridge'[k].manifest = bridge[k].manifest
      <3>1. bridge \in [Client -> BridgeRecord]
        BY DEF BridgeInv, TypeOK, BridgeRecord
      <3>2. \E st \in {"connecting", "running", "exited"} :
              bridge' = [bridge EXCEPT ![c] = [st |-> st, manifest |-> bridge[c].manifest,
                                               discovering |-> FALSE]]
        BY <1>4, <3>1 DEF NotDiscovered, BridgeRecord
      <3> QED  BY <3>1, <3>2 DEF BridgeRecord
    <2>6. line' \in [Line -> LineRecord]
          /\ \A r \in Line : /\ line'[r].ran = line[r].ran
                             /\ line'[r].pc = line[r].pc \/ line'[r].pc = "answered"
      BY <2>2 DEF BridgeInv, TypeOK, LineRecord
    <2>7. cancel' \in [Line -> [st : {"no", "awaiting", "sent", "over"}, to : Host \cup {None}]]
          /\ \A r \in Line : cancel'[r] = cancel[r] \/
                (cancel'[r].st = "over" /\ cancel[r].st # "no")
      BY <2>3 DEF BridgeInv, TypeOK, CancelOver
    <2>8. TypeOK'
      BY <1>1, <1>2, <2>4, <2>5, <2>6, <2>7
      DEF BridgeInv, TypeOK, WindowInv, BridgeRecord, LineRecord
    <2>9. HostsArePast'
      BY <1>1, <1>2, <2>4, <2>5, <2>7 DEF BridgeInv, HostsArePast, windowVars
    <2>10. MutatingFits'
      BY <2>4, <2>6 DEF BridgeInv, MutatingFits
    <2>11. ExplicitFits' /\ ExplicitWindowOnly'
      BY <1>1, <2>4, <2>5 DEF BridgeInv, ExplicitFits, ExplicitWindowOnly
    <2>12. AbortsFit'
      BY <1>1, <1>2, <2>7 DEF BridgeInv, TypeOK, ToolCall, AbortsFit
    <2> QED  BY <1>2, <2>8, <2>9, <2>10, <2>11, <2>12 DEF BridgeInv
  <1>5. ASSUME UNCHANGED <<bridge, line, posts, cancel>>
        PROVE  BridgeInv'
    BY <1>1, <1>5, SameAll DEF vars, windowVars
  <1>6. ASSUME NEW live \in SUBSET {h \in Registered : Serves(h)}, Selected(c, live) # None,
               Discovered(c, Selected(c, live))
        PROVE  BridgeInv'
    <2>1. Selected(c, live) \in Registered /\ (Selection[c] = "explicit" => Selected(c, live).id = Wanted[c])
      BY <1>6, SelectedIsLive
    <2>2. \A h \in Registered : h \in Host /\ Past(h)
      BY DEF Registered, BridgeInv, HostsArePast, WindowInv, WindowTypeOK
    <2> HIDE DEF Registered
    <2> QED  BY <1>3, <1>6, <2>1, <2>2
  <1> QED  BY <1>4, <1>5, <1>6 DEF Discover

LEMMA DiscoveringKeeps ==
    ASSUME NEW b \in BridgeRecord
    PROVE  Discovering(b) \in BridgeRecord /\ Discovering(b).manifest = b.manifest
  BY DEF Discovering, BridgeRecord

LEMMA ForwardInv ==
    ASSUME BridgeInv, NEW r \in Line, ForwardLine(r)
    PROVE  BridgeInv'
  <1> DEFINE c == ClientOf[r]
             h == bridge[c].manifest
  <1>1. /\ UNCHANGED <<windowVars, calls, cancel>> /\ line[r].pc = "unread"
        /\ c \in Client
    BY LineFacts DEF ForwardLine
  <1>2. /\ WindowInv'
        /\ \A k : (Past(k)' <=> Past(k)) /\ (Serves(k)' <=> Serves(k))
    BY <1>1, SameWindows DEF BridgeInv
  <1>3. /\ bridge \in [Client -> BridgeRecord] /\ line \in [Line -> LineRecord]
        /\ \A k \in Client : bridge[k] \in BridgeRecord
        /\ \A k \in Client : bridge[k].manifest \in Host \cup {None}
    BY DEF BridgeInv, TypeOK, BridgeRecord, LineRecord
  <1>4. AbortsFit' /\ ExplicitWindowOnly'
    BY <1>1, <1>2 DEF BridgeInv, AbortsFit, ExplicitWindowOnly
  <1>5. CASE h # None
    <2>1. /\ line' = [line EXCEPT ![r] = [line[r] EXCEPT !.pc = "posted"]]
          /\ posts' = posts \cup {[line |-> r, attempt |-> 1, to |-> h]}
          /\ UNCHANGED bridge
      BY <1>5 DEF ForwardLine, Posted
    <2>2. h \in Host /\ Past(h) /\ (Selection[c] = "explicit" => h.id = Wanted[c])
      BY <1>1, <1>3, <1>5 DEF BridgeInv, HostsArePast, ExplicitFits
    <2>3. line' \in [Line -> LineRecord] /\ posts' \subseteq Post
      <3>1. [line[r] EXCEPT !.pc = "posted"] \in LineRecord
        BY <1>3 DEF LineRecord
      <3>2. [line |-> r, attempt |-> 1, to |-> h] \in Post
        BY <2>2 DEF Post, Attempt
      <3> QED  BY <1>3, <2>1, <3>1, <3>2 DEF BridgeInv, TypeOK
    <2>4. TypeOK'
      BY <1>1, <1>2, <2>1, <2>3 DEF BridgeInv, TypeOK, WindowInv, LineRecord
    <2> HIDE DEF h
    <2>5. HostsArePast'
      <3>1. \A p \in posts' : Past(p.to)
        BY <2>1, <2>2 DEF BridgeInv, HostsArePast
      <3> QED  BY <1>1, <1>2, <2>1, <3>1 DEF BridgeInv, HostsArePast, windowVars
    <2>6. ExplicitFits'
      BY <2>1, <2>2 DEF BridgeInv, ExplicitFits
    <2>7. MutatingFits'
      <3>1. \A q \in Line : /\ line'[q].ran = line[q].ran
                            /\ q # r => line'[q] = line[q]
        BY <1>3, <2>1 DEF LineRecord
      <3>2. line'[r].pc = "posted"
        BY <1>3, <2>1 DEF LineRecord
      <3>3. \A p \in posts' : p \in posts \/ p = [line |-> r, attempt |-> 1, to |-> h]
        BY <2>1
      <3> QED  BY <1>1, <3>1, <3>2, <3>3 DEF BridgeInv, MutatingFits
    <2> QED  BY <1>2, <1>4, <2>4, <2>5, <2>6, <2>7 DEF BridgeInv
  <1>6. CASE h = None
    <2>1. /\ line' = [line EXCEPT ![r].pc = "awaiting"]
          /\ bridge' = [bridge EXCEPT ![c] = Discovering(bridge[c])]
          /\ UNCHANGED posts
      BY <1>6 DEF ForwardLine
    <2>2. /\ bridge' \in [Client -> BridgeRecord]
          /\ \A k \in Client : bridge'[k].manifest = bridge[k].manifest
      BY <1>1, <1>3, <2>1, DiscoveringKeeps
    <2>3. /\ line' \in [Line -> LineRecord]
          /\ \A q \in Line : line'[q].ran = line[q].ran /\ (q # r => line'[q] = line[q])
      BY <1>3, <2>1 DEF LineRecord
    <2>4. TypeOK'
      BY <1>1, <1>2, <2>1, <2>2, <2>3 DEF BridgeInv, TypeOK, WindowInv, LineRecord, BridgeRecord
    <2>5. HostsArePast'
      BY <1>1, <1>2, <2>1, <2>2 DEF BridgeInv, HostsArePast, windowVars
    <2>6. ExplicitFits'
      BY <2>1, <2>2 DEF BridgeInv, ExplicitFits
    <2>7. MutatingFits'
      BY <1>1, <2>1, <2>3 DEF BridgeInv, MutatingFits
    <2> QED  BY <1>2, <1>4, <2>4, <2>5, <2>6, <2>7 DEF BridgeInv
  <1> QED  BY <1>5, <1>6

\* A request that failed: what changes the debuggee is over.
LEMMA SendFailsFacts ==
    ASSUME BridgeInv, NEW r \in Line, SendFails(r)
    PROVE  /\ line' \in [Line -> LineRecord]
           /\ bridge' \in [Client -> BridgeRecord]
           /\ \A q \in Line : line'[q].ran = line[q].ran /\ (q # r => line'[q] = line[q])
           /\ Kind[r] = "mutating" => line'[r].pc = "answered"
           /\ \A k \in Client : bridge'[k].manifest \in {None, bridge[k].manifest}
  <1> DEFINE c == ClientOf[r]
  <1>1. /\ bridge \in [Client -> BridgeRecord] /\ line \in [Line -> LineRecord]
        /\ c \in Client /\ line[r].attempt \in Attempt
    BY LineFacts DEF BridgeInv, TypeOK, BridgeRecord, LineRecord
  <1>2. CASE Retries(r)
    <2> DEFINE l == [attempt |-> line[r].attempt + 1, pc |-> "awaiting", ran |-> line[r].ran]
               b == [bridge[c] EXCEPT !.manifest = None]
    <2>1. /\ line' = [line EXCEPT ![r] = l]
          /\ bridge' = [bridge EXCEPT ![c] = Discovering(b)]
      BY <1>2 DEF SendFails
    <2>2. l \in LineRecord /\ l.ran = line[r].ran
      BY <1>1, <1>2 DEF LineRecord, Attempt, Retries
    <2>3. b \in BridgeRecord /\ b.manifest = None
      BY <1>1 DEF BridgeRecord
    <2> HIDE DEF b, l
    <2>4. Discovering(b) \in BridgeRecord /\ Discovering(b).manifest = None
      BY <2>3, DiscoveringKeeps
    <2>5. Kind[r] # "mutating"
      BY <1>2 DEF Retries
    <2> QED  BY <1>1, <2>1, <2>2, <2>4, <2>5
  <1>3. CASE ~Retries(r)
    <2> DEFINE m == IF Kind[r] = "mutating" THEN None ELSE bridge[c].manifest
    <2>1. /\ line' = [line EXCEPT ![r].pc = "answered"]
          /\ bridge' = [bridge EXCEPT ![c].manifest = m]
      BY <1>3 DEF SendFails
    <2>2. m \in Host \cup {None} /\ m \in {None, bridge[c].manifest}
      BY <1>1 DEF BridgeRecord
    <2> HIDE DEF m
    <2>3. /\ line' \in [Line -> LineRecord] /\ line'[r].pc = "answered"
          /\ \A q \in Line : line'[q].ran = line[q].ran /\ (q # r => line'[q] = line[q])
      BY <1>1, <2>1 DEF LineRecord
    <2>4. /\ bridge' \in [Client -> BridgeRecord]
          /\ \A k \in Client : bridge'[k].manifest \in {None, bridge[k].manifest}
      BY <1>1, <2>1, <2>2 DEF BridgeRecord
    <2> QED  BY <2>3, <2>4
  <1> QED  BY <1>2, <1>3

\* A request that failed is not sent again where it changes the debuggee,
\* whether its post is gone or not.
LEMMA GivenUpInv ==
    ASSUME BridgeInv, NEW r \in Line, SendFails(r) \/ UNCHANGED <<line, bridge>>,
           posts' \subseteq posts, UNCHANGED <<windowVars, calls, cancel>>
    PROVE  BridgeInv'
  <1>1. /\ WindowInv'
        /\ \A k : (Past(k)' <=> Past(k)) /\ (Serves(k)' <=> Serves(k))
    BY SameWindows DEF BridgeInv
  <1>2. /\ line' \in [Line -> LineRecord]
        /\ bridge' \in [Client -> BridgeRecord]
        /\ \A q \in Line : line'[q].ran = line[q].ran /\ (q # r => line'[q] = line[q])
        /\ Kind[r] = "mutating" => line'[r] = line[r] \/ line'[r].pc = "answered"
        /\ \A k \in Client : bridge'[k].manifest \in {None, bridge[k].manifest}
    <2>1. CASE SendFails(r)
      BY <2>1, SendFailsFacts
    <2>2. CASE UNCHANGED <<line, bridge>>
      BY <2>2 DEF BridgeInv, TypeOK, LineRecord, BridgeRecord
    <2> QED  BY <2>1, <2>2
  <1>3. AbortsFit' /\ ExplicitWindowOnly'
    BY <1>1 DEF BridgeInv, AbortsFit, ExplicitWindowOnly
  <1>4. TypeOK'
    BY <1>1, <1>2 DEF BridgeInv, TypeOK, WindowInv, LineRecord, BridgeRecord
  <1>5. HostsArePast'
    BY <1>1, <1>2 DEF BridgeInv, HostsArePast, windowVars
  <1>6. ExplicitFits'
    BY <1>2 DEF BridgeInv, ExplicitFits
  <1>7. MutatingFits'
    BY <1>2 DEF BridgeInv, MutatingFits
  <1> QED  BY <1>1, <1>3, <1>4, <1>5, <1>6, <1>7 DEF BridgeInv

LEMMA RequestFailsInv ==
    ASSUME BridgeInv, NEW r \in Line, RequestFails(r)
    PROVE  BridgeInv'
  BY GivenUpInv DEF RequestFails

LEMMA NotAcceptedInv ==
    ASSUME BridgeInv, NEW p \in posts, NotAccepted(p)
    PROVE  BridgeInv'
  <1>1. p.line \in Line
    BY DEF BridgeInv, TypeOK, Post
  <1> QED  BY <1>1, GivenUpInv DEF NotAccepted

LEMMA CancelInv ==
    ASSUME BridgeInv, NEW r \in Line, Cancel(r)
    PROVE  BridgeInv'
  <1> DEFINE c == ClientOf[r]
             h == bridge[c].manifest
  <1>1. /\ UNCHANGED <<windowVars, line, posts, calls>> /\ cancel[r].st = "no"
        /\ c \in Client
        /\ bridge \in [Client -> BridgeRecord]
        /\ \A k \in Client : bridge[k] \in BridgeRecord
        /\ cancel \in [Line -> [st : {"no", "awaiting", "sent", "over"}, to : Host \cup {None}]]
    BY LineFacts DEF Cancel, BridgeInv, TypeOK, BridgeRecord
  <1>2. /\ WindowInv'
        /\ \A k : (Past(k)' <=> Past(k)) /\ (Serves(k)' <=> Serves(k))
    BY <1>1, SameWindows DEF BridgeInv
  <1>3. /\ bridge' \in [Client -> BridgeRecord]
        /\ \A k \in Client : bridge'[k].manifest = bridge[k].manifest
    <2>1. bridge' = bridge \/ bridge' = [bridge EXCEPT ![c] = Discovering(bridge[c])]
      BY <1>1 DEF Cancel
    <2> QED  BY <1>1, <2>1, DiscoveringKeeps
  <1>4. /\ cancel' \in [Line -> [st : {"no", "awaiting", "sent", "over"}, to : Host \cup {None}]]
        /\ cancel'[r].st # "no"
        /\ cancel'[r].st = "sent" => cancel'[r].to # None /\ Past(cancel'[r].to)
        /\ \A q \in Line \ {r} : cancel'[q] = cancel[q]
    <2>1. CASE h # None
      <3>1. cancel' = [cancel EXCEPT ![r] = [st |-> "sent", to |-> h]]
        BY <2>1 DEF Cancel, CancelTo
      <3>2. h \in Host /\ Past(h)
        BY <1>1, <2>1 DEF BridgeInv, HostsArePast, BridgeRecord
      <3> QED  BY <1>1, <2>1, <3>1, <3>2
    <2>2. CASE h = None
      <3>1. cancel' = [cancel EXCEPT ![r].st = "awaiting"]
        BY <2>2 DEF Cancel
      <3> QED  BY <1>1, <3>1
    <2> QED  BY <2>1, <2>2
  <1>5. TypeOK'
    BY <1>1, <1>2, <1>3, <1>4 DEF BridgeInv, TypeOK, WindowInv, BridgeRecord
  <1>6. HostsArePast'
    BY <1>1, <1>2, <1>3, <1>4 DEF BridgeInv, HostsArePast, windowVars
  <1>7. AbortsFit'
    <2>1. \A k \in calls : k.line \in Line
      BY DEF BridgeInv, TypeOK, ToolCall
    <2>2. \A q \in Line : cancel[q].st # "no" => cancel'[q].st # "no"
      BY <1>4
    <2> QED  BY <1>1, <1>2, <2>1, <2>2 DEF BridgeInv, AbortsFit
  <1>8. MutatingFits' /\ ExplicitFits' /\ ExplicitWindowOnly'
    BY <1>1, <1>3 DEF BridgeInv, MutatingFits, ExplicitFits, ExplicitWindowOnly
  <1> QED  BY <1>2, <1>5, <1>6, <1>7, <1>8 DEF BridgeInv

LEMMA AnsweredFacts ==
    ASSUME BridgeInv, NEW p \in posts \cup calls, Answered(p) \/ UNCHANGED line
    PROVE  /\ line' \in [Line -> LineRecord]
           /\ \A q \in Line : /\ line'[q].ran = line[q].ran
                              /\ line'[q].pc = line[q].pc \/ line'[q].pc = "answered"
  <1>1. line \in [Line -> LineRecord] /\ p.line \in Line
    BY DEF BridgeInv, TypeOK, LineRecord, Post, ToolCall
  <1>2. line' = line \/ line' = [line EXCEPT ![p.line].pc = "answered"]
    BY DEF Answered
  <1> QED  BY <1>1, <1>2 DEF LineRecord

\* The window that takes a request is the one it was posted to.
LEMMA AcceptedFacts ==
    ASSUME BridgeInv, NEW p \in posts, NEW w \in Window, Accepted(p, w)
    PROVE  p.to = HostOf(w) /\ Serves(p.to)
  BY DEF Accepted, Authorized, Serves

LEMMA DispatchRequestInv ==
    ASSUME BridgeInv, NEW p \in posts, NEW w \in Window, DispatchRequest(p, w)
    PROVE  BridgeInv'
  <1> DEFINE r == p.line
             k == [line |-> p.line, attempt |-> p.attempt, at |-> p.to, aborted |-> FALSE]
  <1>1. /\ UNCHANGED <<windowVars, bridge, cancel>> /\ posts' = posts \ {p}
        /\ p \in Post /\ r \in Line /\ Kind[r] \in {"safe", "mutating"}
    BY LineFacts DEF DispatchRequest, BridgeInv, TypeOK, Post
  <1>2. p.to = HostOf(w) /\ Serves(p.to)
    BY AcceptedFacts DEF DispatchRequest
  <1>3. /\ WindowInv'
        /\ \A h : (Past(h)' <=> Past(h)) /\ (Serves(h)' <=> Serves(h))
    BY <1>1, SameWindows DEF BridgeInv
  <1>4. \/ UNCHANGED calls /\ Answered(p)
        \/ calls' = calls \cup {k} /\ UNCHANGED line
        \/ /\ calls' = calls \cup {k} /\ Kind[r] = "mutating"
           /\ line' = [line EXCEPT ![r].ran = @ + 1]
    BY <1>1, <1>2 DEF DispatchRequest
  <1>5. calls' \subseteq calls \cup {k} /\ k \in ToolCall
    BY <1>1, <1>4 DEF Post, ToolCall
  <1>6. /\ line' \in [Line -> LineRecord]
        /\ \A q \in Line : /\ line'[q].pc = line[q].pc \/ line'[q].pc = "answered"
                           /\ line'[q].ran = line[q].ran
                              \/ (q = r /\ Kind[r] = "mutating" /\ line'[q].ran = line[q].ran + 1)
    <2>1. CASE Answered(p) \/ UNCHANGED line
      BY <2>1, AnsweredFacts
    <2>2. CASE Kind[r] = "mutating" /\ line' = [line EXCEPT ![r].ran = @ + 1]
      <3>1. line \in [Line -> LineRecord] /\ line[r].ran = 0
        BY <1>1, <2>2 DEF BridgeInv, TypeOK, LineRecord, MutatingFits
      <3> QED  BY <1>1, <2>2, <3>1 DEF LineRecord
    <2> QED  BY <1>4, <2>1, <2>2
  <1>7. TypeOK'
    BY <1>1, <1>3, <1>5, <1>6 DEF BridgeInv, TypeOK, WindowInv, LineRecord
  <1>8. HostsArePast'
    <2>1. Past(k.at)
      BY DEF BridgeInv, HostsArePast
    <2> QED  BY <1>1, <1>3, <1>5, <2>1 DEF BridgeInv, HostsArePast, windowVars
  <1>9. MutatingFits'
    <2>3. \A q \in Line : line'[q].ran <= 1
      BY <1>1, <1>6 DEF TypeOK, BridgeInv, MutatingFits
    <2> SUFFICES ASSUME NEW q \in Line, Kind[q] = "mutating"
                 PROVE  /\ line'[q].pc \in {"unread", "awaiting"} =>
                              line'[q].ran = 0 /\ \A x \in posts' : x.line # q
                        /\ \A x \in posts' : x.line = q =>
                              line'[q].ran = 0 /\ \A y \in posts' : y.line = q => y = x
      BY <2>3 DEF MutatingFits
    <2>1. CASE q = r
      <3>1. line[q].ran = 0 /\ line[q].pc \notin {"unread", "awaiting"}
            /\ \A x \in posts : x.line = q => x = p
        BY <1>1, <2>1 DEF BridgeInv, MutatingFits
      <3>2. line'[q].pc \notin {"unread", "awaiting"}
        BY <1>6, <3>1
      <3> QED  BY <1>1, <3>1, <3>2
    <2>2. CASE q # r
      BY <1>1, <1>6, <2>2 DEF BridgeInv, MutatingFits
    <2> QED  BY <2>1, <2>2
  <1>10. ExplicitFits' /\ ExplicitWindowOnly'
    <2>1. Selection[ClientOf[k.line]] = "explicit" => k.at.id = Wanted[ClientOf[k.line]]
      BY DEF BridgeInv, ExplicitFits
    <2> QED  BY <1>1, <1>5, <2>1 DEF BridgeInv, ExplicitFits, ExplicitWindowOnly
  <1>11. AbortsFit'
    <2>1. ~k.aborted /\ Serves(k.at)
      BY <1>2
    <2> QED  BY <1>1, <1>3, <1>5, <2>1 DEF BridgeInv, AbortsFit
  <1> QED  BY <1>3, <1>7, <1>8, <1>9, <1>10, <1>11 DEF BridgeInv

LEMMA ToolReturnsInv ==
    ASSUME BridgeInv, NEW k \in calls, ToolReturns(k)
    PROVE  BridgeInv'
  <1>1. /\ UNCHANGED <<windowVars, bridge, posts, cancel>> /\ calls' \subseteq calls
        /\ Answered(k) \/ UNCHANGED line
    BY DEF ToolReturns
  <1>2. /\ WindowInv'
        /\ \A h : (Past(h)' <=> Past(h)) /\ (Serves(h)' <=> Serves(h))
    BY <1>1, SameWindows DEF BridgeInv
  <1>3. /\ line' \in [Line -> LineRecord]
        /\ \A q \in Line : /\ line'[q].ran = line[q].ran
                           /\ line'[q].pc = line[q].pc \/ line'[q].pc = "answered"
    BY <1>1, AnsweredFacts
  <1>4. TypeOK'
    BY <1>1, <1>2, <1>3 DEF BridgeInv, TypeOK, WindowInv, LineRecord
  <1>5. HostsArePast' /\ AbortsFit'
    BY <1>1, <1>2 DEF BridgeInv, HostsArePast, AbortsFit, windowVars
  <1>6. MutatingFits' /\ ExplicitFits' /\ ExplicitWindowOnly'
    BY <1>1, <1>3 DEF BridgeInv, MutatingFits, ExplicitFits, ExplicitWindowOnly
  <1> QED  BY <1>2, <1>4, <1>5, <1>6 DEF BridgeInv

\* A notification aborts what runs under the id of the request it cancels.
LEMMA DispatchNotificationInv ==
    ASSUME BridgeInv, NEW r \in Line, DispatchNotification(r)
    PROVE  BridgeInv'
  <1>1. /\ UNCHANGED <<windowVars, line, posts>> /\ cancel[r].st = "sent"
        /\ cancel' = [cancel EXCEPT ![r] = [st |-> "over", to |-> None]]
        /\ ClientOf[r] \in Client
        /\ bridge \in [Client -> BridgeRecord]
        /\ cancel \in [Line -> [st : {"no", "awaiting", "sent", "over"}, to : Host \cup {None}]]
    BY LineFacts DEF DispatchNotification, CancelOver, BridgeInv, TypeOK, BridgeRecord
  <1>2. /\ WindowInv'
        /\ \A h : (Past(h)' <=> Past(h)) /\ (Serves(h)' <=> Serves(h))
    BY <1>1, SameWindows DEF BridgeInv
  <1>3. /\ bridge' \in [Client -> BridgeRecord]
        /\ \A c \in Client : bridge'[c].manifest \in {None, bridge[c].manifest}
    <2>1. bridge' = bridge \/ bridge' = [bridge EXCEPT ![ClientOf[r]].manifest = None]
      BY DEF DispatchNotification
    <2> QED  BY <1>1, <2>1 DEF BridgeRecord
  <1>4. /\ cancel' \in [Line -> [st : {"no", "awaiting", "sent", "over"}, to : Host \cup {None}]]
        /\ cancel'[r].st = "over"
        /\ \A q \in Line \ {r} : cancel'[q] = cancel[q]
    BY <1>1
  <1>5. \A m \in calls : m \in ToolCall
    BY DEF BridgeInv, TypeOK
  <1>6. ASSUME NEW k \in calls'
        PROVE  /\ k \in ToolCall
               /\ \E m \in calls : /\ k.at = m.at /\ k.line = m.line
                                   /\ m.aborted => k.aborted
                                   /\ k.aborted => m.aborted \/ m.line = r
    <2>1. \/ k \in calls
          \/ \E m \in calls : k = [m EXCEPT !.aborted = TRUE] /\ RequestKey(m.line) = RequestKey(r)
      BY <1>6 DEF DispatchNotification
    <2>2. CASE k \in calls
      BY <1>5, <2>2
    <2>3. ASSUME NEW m \in calls, k = [m EXCEPT !.aborted = TRUE],
                 RequestKey(m.line) = RequestKey(r)
          PROVE  k.at = m.at /\ k.line = m.line /\ k.aborted /\ k \in ToolCall /\ m.line = r
      <3>1. k.at = m.at /\ k.line = m.line /\ k.aborted /\ k \in ToolCall /\ m.line \in Line
        BY <1>5, <2>3 DEF ToolCall
      <3> QED  BY <2>3, <3>1, RequestKeyIsUnique
    <2> QED  BY <2>1, <2>2, <2>3
  <1>7. TypeOK'
    BY <1>1, <1>2, <1>3, <1>4, <1>6 DEF BridgeInv, TypeOK, WindowInv, BridgeRecord
  <1>8. HostsArePast'
    BY <1>1, <1>2, <1>3, <1>4, <1>6 DEF BridgeInv, HostsArePast, windowVars
  <1>9. AbortsFit'
    <2> SUFFICES ASSUME NEW k \in calls'
                 PROVE  /\ k.aborted => cancel'[k.line].st # "no" \/ ~Serves(k.at)
                        /\ ~Serves(k.at) => k.aborted
      BY <1>2 DEF AbortsFit
    <2>1. PICK m \in calls : /\ k.at = m.at /\ k.line = m.line
                             /\ m.aborted => k.aborted
                             /\ k.aborted => m.aborted \/ m.line = r
      BY <1>6
    <2>2. m.line \in Line
      BY <1>5 DEF ToolCall
    <2> QED  BY <1>4, <2>1, <2>2 DEF BridgeInv, AbortsFit
  <1>10. MutatingFits' /\ ExplicitFits' /\ ExplicitWindowOnly'
    BY <1>1, <1>3, <1>6 DEF BridgeInv, MutatingFits, ExplicitFits, ExplicitWindowOnly
  <1> QED  BY <1>2, <1>7, <1>8, <1>9, <1>10 DEF BridgeInv

LEMMA BridgeNext ==
    ASSUME BridgeInv, [Next]_vars
    PROVE  BridgeInv'
  BY SameAll, WindowStepInv, HostEndsBridge, DiscoverInv, ForwardInv, RequestFailsInv, CancelInv,
     DispatchNotificationInv, NotAcceptedInv, DispatchRequestInv, ToolReturnsInv DEF Next

LEMMA BridgeInvariant == Spec => []BridgeInv
  <1>1. Init => BridgeInv
    BY InitBridge
  <1>2. BridgeInv /\ [Next]_vars => BridgeInv'
    BY BridgeNext
  <1> QED  BY <1>1, <1>2, PTL DEF Spec

-----------------------------------------------------------------------------
(* What holds for every number of windows, clients, ports and requests *)

\* The types of the registry, the bridges, the requests and the calls, with
\* at most two attempts of a request (stdioBridge.ts:592).
THEOREM TypeCorrect == Spec => []TypeOK
  <1>1. BridgeInv => TypeOK
    BY DEF BridgeInv
  <1> QED  BY <1>1, BridgeInvariant, PTL

\* However a publication, a heartbeat or a removal fails or is overtaken by the
\* loss of a file: the manifest of a living window names a transport that
\* answers, or lies under an id the window has given up
\* (windowHost.ts:33, 82, windowRegistry.ts:394, 625, extension.ts:2911).
THEOREM LiveManifestIsAlwaysServed == Spec => []LiveManifestIsServed
  <1>1. BridgeInv => LiveManifestIsServed
    BY DEF BridgeInv, WindowInv
  <1> QED  BY <1>1, BridgeInvariant, PTL

\* A request that changes the debuggee is executed at most once, whatever
\* fails on its way and however often discovery starts anew
\* (stdioBridge.ts:592, 708).
THEOREM MutatingOnce == Spec => []MutatingRunsOnce
  <1>1. BridgeInv => MutatingRunsOnce
    BY DEF BridgeInv, MutatingFits, MutatingRunsOnce
  <1> QED  BY <1>1, BridgeInvariant, PTL

\* A client that names its window is served by no other one, although its
\* bridge keeps the manifest of a host that may be gone and whose port
\* another window may have got (stdioBridge.ts:325).
THEOREM ExplicitWindow == Spec => []ExplicitWindowOnly
  <1>1. BridgeInv => ExplicitWindowOnly
    BY DEF BridgeInv
  <1> QED  BY <1>1, BridgeInvariant, PTL

\* A call is aborted only by the cancellation of its own client's request or
\* by the end of its transport, which leaves none waiting
\* (transport.ts:470, 842).
THEOREM AbortsAreFit == Spec => []AbortsFit
  <1>1. BridgeInv => AbortsFit
    BY DEF BridgeInv
  <1> QED  BY <1>1, BridgeInvariant, PTL

=============================================================================
