------------------------------- MODULE McpWindow -------------------------------
(***************************************************************************)
(* The MCP endpoint of a VS Code window: queueMcpReconcile and             *)
(* shutdownMcpLifecycle (src/extension.ts) start and stop one host at a    *)
(* time, a host (src/mcp/windowHost.ts) is a loopback HTTP transport and   *)
(* its publication in the registry directory all windows of a user share   *)
(* (src/mcp/windowRegistry.ts): a lifetime lock and a manifest with a      *)
(* lease, both named after the window's discovery id.                      *)
(*                                                                         *)
(* A discovery id holds its process's pid and 128 random bits, so that no  *)
(* two windows share one: an id is <<window, n>>, and the only lock or     *)
(* manifest a window can find under its id is one it failed to remove.     *)
(* The token of a transport is random: a token is its host.                *)
(***************************************************************************)
EXTENDS Integers, FiniteSets

CONSTANTS Window,    \* extension host processes with the clients' workspace open
          Port,      \* loopback TCP ports
          None,
          MaxRuns,   \* bound on the transports a window starts
          MaxFaults  \* bound on the files that are lost, unread or too old

ASSUME WindowAssumption ==
    None \notin Window \cup Port /\ MaxRuns \in Nat /\ MaxFaults \in Nat

VARIABLES
    win,       \* every window's host
    locks,     \* the lock files, by id
    manifest,  \* the manifest files, by id
    left,      \* history: the ids of manifests whose publisher is over
    faults

windowVars == <<win, locks, manifest, left, faults>>

Id == Window \X (1..(MaxRuns + 1))

\* A started transport with its token, as a manifest describes it.
Host == [win : Window, id : Id, run : 1..MaxRuns, port : Port]

WindowTypeOK ==
    /\ win \in [Window -> [alive : BOOLEAN, id : Id, attempt : 1..3, run : 0..MaxRuns,
                           port : Port \cup {None},
                           pc : {"off", "listening", "locked", "created", "up",
                                 "collided", "closing"}]]
    /\ locks \subseteq Id
    /\ manifest \in [Id -> [host : Host, fresh : BOOLEAN] \cup {None}]
    /\ left \subseteq Id
    /\ faults \in 0..MaxFaults

WindowInit ==
    /\ win = [w \in Window |-> [alive |-> TRUE, id |-> <<w, 1>>, attempt |-> 1,
                                run |-> 0, port |-> None, pc |-> "off"]]
    /\ locks = {}
    /\ manifest = [i \in Id |-> None]
    /\ left = {}
    /\ faults = 0

Listening(w) == win[w].alive /\ win[w].port # None
HostOf(w) == [win |-> w, id |-> win[w].id, run |-> win[w].run, port |-> win[w].port]

\* A request that carries h's token and arrives at h's port is answered.
Serves(h) == Listening(h.win) /\ HostOf(h.win) = h

OwnsManifest(w) == manifest[win[w].id] # None /\ manifest[win[w].id].host = HostOf(w)

\* A file is lost, or cannot be read or written.
Fault == faults < MaxFaults /\ faults' = faults + 1

-----------------------------------------------------------------------------
(* Starting: the endpoint first, then its publication (publishMcpWindowManifest), *)
(* one action for what happens between two of its awaits on a file.               *)

StartTransport(w) ==
    /\ win[w].alive /\ win[w].pc = "off" /\ win[w].run < MaxRuns
    /\ \E p \in Port :
        /\ \A v \in Window : Listening(v) => win[v].port # p
        /\ win' = [win EXCEPT ![w].pc = "listening", ![w].port = p, ![w].run = @ + 1]
    /\ UNCHANGED <<locks, manifest, left, faults>>

At(w, pc) == win[w].alive /\ win[w].pc = pc
GoesTo(w, pc) == win' = [win EXCEPT ![w].pc = pc]

\* The lock found is the window's own, whose process lives: it is not stale.
AcquireLifetimeLock(w) ==
    /\ At(w, "listening")
    /\ IF win[w].id \in locks
       THEN GoesTo(w, "collided") /\ UNCHANGED locks
       ELSE GoesTo(w, "locked") /\ locks' = locks \cup {win[w].id}
    /\ UNCHANGED <<manifest, left, faults>>

Published(w) == manifest' = [manifest EXCEPT ![win[w].id] = [host |-> HostOf(w), fresh |-> TRUE]]

\* assertOwned throws: the lock is gone, or cannot be read.
NotOwned(w) == (win[w].id \notin locks /\ UNCHANGED faults) \/ Fault

\* lifetimeLock.dispose, which leaves a lock it cannot read.
DisposeLock(w) == locks' = locks \ {win[w].id} \/ (UNCHANGED locks /\ faults' # faults)

\* createJsonExclusive, after assertOwned: a manifest of this id is never replaced.
CreateManifest(w) ==
    /\ At(w, "locked")
    /\ \/ /\ win[w].id \in locks /\ manifest[win[w].id] = None
          /\ GoesTo(w, "created") /\ Published(w)
          /\ left' = left \ {win[w].id}
          /\ UNCHANGED <<locks, faults>>
       \/ /\ NotOwned(w) \/ (manifest[win[w].id] # None /\ UNCHANGED faults)
          /\ GoesTo(w, "collided") /\ DisposeLock(w)
          /\ UNCHANGED <<manifest, left>>

\* The second assertOwned.  Where it throws, nobody removes the new manifest.
FinishPublish(w) ==
    /\ At(w, "created")
    /\ \/ /\ win[w].id \in locks
          /\ win' = [win EXCEPT ![w] = [@ EXCEPT !.pc = "up", !.attempt = 1]]
          /\ UNCHANGED <<locks, left, faults>>
       \/ /\ NotOwned(w)
          /\ GoesTo(w, "collided") /\ DisposeLock(w)
          /\ left' = left \cup {win[w].id}
    /\ UNCHANGED manifest

\* Any other error of the publication, which leaves the window its id.
PublishFails(w) ==
    /\ Fault
    /\ \/ At(w, "listening") /\ UNCHANGED locks
       \/ At(w, "locked") /\ DisposeLock(w)
    /\ GoesTo(w, "closing")
    /\ UNCHANGED <<manifest, left>>

\* A heartbeat: a lost manifest is made again, an own one replaced; without
\* its lock the window writes nothing any more.
Heartbeat(w) ==
    /\ At(w, "up") /\ win[w].id \in locks
    /\ manifest[win[w].id] = None \/ OwnsManifest(w)
    /\ Published(w)
    /\ UNCHANGED <<win, locks, left, faults>>

-----------------------------------------------------------------------------
(* Stopping: discovery is removed before the transport is closed. *)

\* Mutant: the transport is closed while the publication is being removed.
DisposeTogether(w) ==
    /\ At(w, "up")
    /\ win' = [win EXCEPT ![w].pc = "closing", ![w].port = None]
    /\ UNCHANGED <<locks, manifest, left, faults>>

\* The manifest stays where the lock was lost, or where it or the lock cannot be read.
DisposePublisher(w) ==
    /\ At(w, "up")
    /\ GoesTo(w, "closing")
    /\ \/ /\ win[w].id \in locks /\ OwnsManifest(w)
          /\ manifest' = [manifest EXCEPT ![win[w].id] = None]
          /\ UNCHANGED left /\ (UNCHANGED faults \/ Fault)
       \/ /\ NotOwned(w) \/ (~OwnsManifest(w) /\ UNCHANGED faults)
          /\ left' = left \cup {win[w].id}
          /\ UNCHANGED manifest
    /\ DisposeLock(w)

\* The next attempt after a collision takes a new id, unless it was the third.
DisposeTransport(w) ==
    /\ At(w, "closing") \/ At(w, "collided")
    /\ LET again == win[w].pc = "collided" /\ win[w].attempt < 3
           id == IF again THEN <<w, win[w].id[2] + 1>> ELSE win[w].id
           attempt == IF again THEN win[w].attempt + 1 ELSE 1
       IN  win' = [win EXCEPT ![w] = [@ EXCEPT !.pc = "off", !.port = None,
                                               !.id = id, !.attempt = attempt]]
    /\ UNCHANGED <<locks, manifest, left, faults>>

-----------------------------------------------------------------------------
(* The environment *)

Crash(w) ==
    /\ win[w].alive
    /\ win' = [win EXCEPT ![w] = [@ EXCEPT !.alive = FALSE, !.pc = "off", !.port = None]]
    /\ UNCHANGED <<locks, manifest, left, faults>>

\* No heartbeat came for the time of a lease: the window was asleep, or could
\* not write.  The manifest of a dead window counts for nothing with a lease.
LeaseLapses(i) ==
    /\ manifest[i] # None /\ manifest[i].fresh /\ win[i[1]].alive
    /\ Fault
    /\ manifest' = [manifest EXCEPT ![i].fresh = FALSE]
    /\ UNCHANGED <<win, locks, left>>

\* The registry lies in the temporary directory, which others clean.
FileLost(i) ==
    /\ Fault
    /\ \/ i \in locks /\ locks' = locks \ {i} /\ UNCHANGED manifest
       \/ /\ manifest[i] # None /\ manifest' = [manifest EXCEPT ![i] = None]
          /\ UNCHANGED locks
    /\ UNCHANGED <<win, left>>

\* The steps that end no call.
WindowStep ==
    \/ \E w \in Window : StartTransport(w) \/ AcquireLifetimeLock(w) \/ CreateManifest(w)
                         \/ FinishPublish(w) \/ PublishFails(w) \/ Heartbeat(w)
                         \/ DisposePublisher(w)
    \/ \E i \in Id : LeaseLapses(i) \/ FileLost(i)

-----------------------------------------------------------------------------
\* A bridge reads a window's manifest and never its lock.  What it finds there
\* while the window lives names a transport that accepts requests, whether the
\* window is starting, restarting or stopping (windowHost.ts:33, 82); a manifest
\* its publisher could not remove, or made and gave up, may name one that is
\* gone, but never under the id of a window that is up: that id is given up
\* (windowRegistry.ts:403, extension.ts:2915).
LiveManifestIsServed ==
    \A i \in Id :
        manifest[i] # None /\ win[i[1]].alive =>
            \/ Serves(manifest[i].host)
            \/ i \in left /\ ~(win[i[1]].id = i /\ win[i[1]].pc = "up")

=============================================================================
