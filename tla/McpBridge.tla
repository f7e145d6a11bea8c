------------------------------- MODULE McpBridge -------------------------------
(***************************************************************************)
(* The way of an MCP request: a client writes a line to its stdio bridge   *)
(* (src/mcp/stdioBridge.ts), which finds a window through the registry,    *)
(* posts the line to its transport (src/mcp/transport.ts) and writes the   *)
(* answer; composed with the windows' hosts (McpWindow).                   *)
(*                                                                         *)
(* A line is a request with an id, or the client's cancellation of one.    *)
(* The lines of one client have different ids; two clients use the same.   *)
(* Between two awaits a bridge or a transport does one step, and the       *)
(* awaiters a promise wakes go on in the step that settles it.             *)
(*                                                                         *)
(* The transport issues no mcp-session-id, so that the bridge's sessionId  *)
(* stays unset; it and the protocol version decide no step and are left    *)
(* out.                                                                    *)
(***************************************************************************)
EXTENDS McpWindow

CONSTANTS Client,     \* MCP clients, each with its bridge
          MaxLines,   \* bound on the requests of all clients
          ClientOf,   \* the client of each request
          Kind,       \* "safe" where the bridge may send it twice, or "mutating"
          Selection,  \* how each client names a window: "explicit", "env" or None
          Wanted,     \* the id it names
          Parent      \* the window that is the parent process of its bridge, or None

ASSUME BridgeAssumption ==
    /\ MaxLines \in Nat /\ ClientOf \in [1..MaxLines -> Client]
    /\ Kind \in [1..MaxLines -> {"safe", "mutating"}]
    /\ Selection \in [Client -> {"explicit", "env", None}]
    /\ Wanted \in [Client -> Id]
    /\ Parent \in [Client -> Window \cup {None}]

VARIABLES
    bridge,   \* the bridges, with manifest and discovery
    line,     \* the requests as their bridges forward them
    posts,    \* requests on their way to a port
    calls,    \* activeRequests: the calls that run at the windows
    cancel    \* the cancellation of each request: where it is

vars == <<win, locks, manifest, left, faults, bridge, line, posts, calls, cancel>>

Line == 1..MaxLines
Attempt == {1, 2}
Post == [line : Line, attempt : Attempt, to : Host]
ToolCall == [line : Line, attempt : Attempt, at : Host, aborted : BOOLEAN]

TypeOK ==
    /\ WindowTypeOK
    /\ bridge \in [Client -> [st : {"connecting", "running", "exited"},
                              manifest : Host \cup {None},
                              discovering : BOOLEAN]]
    /\ line \in [Line -> [attempt : Attempt, pc : {"unread", "awaiting", "posted", "answered"},
                          ran : 0..2]]    \* history: how often it changed the debuggee
    /\ posts \subseteq Post
    /\ calls \subseteq ToolCall
    /\ cancel \in [Line -> [st : {"no", "awaiting", "sent", "over"}, to : Host \cup {None}]]

Init ==
    /\ WindowInit
    /\ bridge = [c \in Client |-> [st |-> "connecting", manifest |-> None,
                                   discovering |-> TRUE]]
    /\ line = [r \in Line |-> [attempt |-> 1, pc |-> "unread", ran |-> 0]]
    /\ posts = {} /\ calls = {}
    /\ cancel = [r \in Line |-> [st |-> "no", to |-> None]]

LinesOf(c) == {r \in Line : ClientOf[r] = c}
Outstanding(r) == line[r].pc \in {"awaiting", "posted"}

\* The ids of a client's lines are 1, 2, ...
RequestId(r) == Cardinality({q \in LinesOf(ClientOf[r]) : q <= r})

\* Mutant: the id alone is the key.
RequestKeyOfId(r) == RequestId(r)

RequestKey(r) == <<ClientOf[r], RequestId(r)>>

-----------------------------------------------------------------------------
(* McpStdioBridge: discovery *)

\* getManifest joins a discovery in flight or starts one.
Discovering(b) == [b EXCEPT !.discovering = TRUE]

\* discoverMcpWindow: the manifests with a lease and a live process.
Registered == {manifest[i].host : i \in {j \in Id : /\ manifest[j] # None
                                                    /\ manifest[j].fresh
                                                    /\ win[j[1]].alive}}

\* The window among those that passed the health check, None if none is
\* wanted or several are.
Selected(c, live) ==
    LET requested == {h \in live : h.id = Wanted[c]}
        children == {h \in live : h.win = Parent[c]}
        Only(S) == IF Cardinality(S) = 1 THEN CHOOSE h \in S : TRUE ELSE None
    IN  IF Selection[c] = "explicit" \/ (Selection[c] = "env" /\ requested # {})
        THEN Only(requested)
        ELSE IF Cardinality(live) = 1 THEN Only(live) ELSE Only(children)

\* The error of several live windows is final, the others are polled again.
Polls(c, live) == Selection[c] = "explicit" \/ live = {}

\* What awaited the manifest goes on in the step that settles the discovery.
Posted(r) == [line[r] EXCEPT !.pc = "posted"]
CancelTo(h) == [st |-> "sent", to |-> h]
CancelOver == [st |-> "over", to |-> None]
WaitersOf(c) == {r \in LinesOf(c) : line[r].pc = "awaiting"}

Discovered(c, h) ==
    /\ bridge' = [bridge EXCEPT ![c] = [st |-> "running", manifest |-> h,
                                         discovering |-> FALSE]]
    /\ line' = [r \in Line |-> IF r \in WaitersOf(c) THEN Posted(r) ELSE line[r]]
    /\ posts' = posts \cup {[line |-> r, attempt |-> line[r].attempt, to |-> h] :
                            r \in WaitersOf(c)}
    /\ cancel' = [r \in Line |-> IF r \in LinesOf(c) /\ cancel[r].st = "awaiting"
                                 THEN CancelTo(h) ELSE cancel[r]]

NotDiscovered(c) ==
    /\ bridge' = [bridge EXCEPT ![c] =
                      [st |-> IF @.st = "connecting" THEN "exited" ELSE @.st,
                       manifest |-> @.manifest, discovering |-> FALSE]]
    /\ line' = [r \in Line |-> IF r \in WaitersOf(c)
                               THEN [line[r] EXCEPT !.pc = "answered"] ELSE line[r]]
    /\ cancel' = [r \in Line |-> IF r \in LinesOf(c) /\ cancel[r].st = "awaiting"
                                 THEN CancelOver ELSE cancel[r]]
    /\ UNCHANGED posts

\* One round of discoverWithPolling: what it selects passed the health check
\* and may be gone right after.  A window that answers too late does not pass.
Discover(c) ==
    /\ bridge[c].discovering
    /\ \E live \in SUBSET {h \in Registered : Serves(h)} :
        IF Selected(c, live) # None
        THEN Discovered(c, Selected(c, live))
        ELSE \/ NotDiscovered(c)           \* the deadline of --connect-timeout-ms
             \/ Polls(c, live) /\ UNCHANGED <<bridge, line, posts, cancel>>
    /\ UNCHANGED <<windowVars, calls>>

-----------------------------------------------------------------------------
(* McpStdioBridge: forwarding *)

\* send
ForwardLine(r) ==
    LET c == ClientOf[r] h == bridge[c].manifest IN
    /\ bridge[c].st = "running" /\ line[r].pc = "unread"
    /\ IF h # None
       THEN /\ line' = [line EXCEPT ![r] = Posted(r)]
            /\ posts' = posts \cup {[line |-> r, attempt |-> 1, to |-> h]}
            /\ UNCHANGED bridge
       ELSE /\ line' = [line EXCEPT ![r].pc = "awaiting"]
            /\ bridge' = [bridge EXCEPT ![c] = Discovering(@)]
            /\ UNCHANGED posts
    /\ UNCHANGED <<windowVars, calls, cancel>>

\* Mutants: everything is sent again; what is safe is sent until it succeeds.
RetriesAll(r) == line[r].attempt = 1
RetriesAlways(r) == Kind[r] = "safe"

\* isSafeToRetry, once
Retries(r) == Kind[r] = "safe" /\ line[r].attempt = 1

\* forwardLine, where the request failed without an answer of the transport
SendFails(r) ==
    LET c == ClientOf[r] IN
    IF Retries(r)
    THEN /\ line' = [line EXCEPT ![r] = [attempt |-> @.attempt + 1, pc |-> "awaiting",
                                          ran |-> @.ran]]
         /\ bridge' = [bridge EXCEPT ![c] = Discovering([@ EXCEPT !.manifest = None])]
    ELSE /\ line' = [line EXCEPT ![r].pc = "answered"]
         /\ bridge' = [bridge EXCEPT ![c].manifest =
                          IF Kind[r] = "mutating" THEN None ELSE @]

\* requestTimeoutMs, or the host closed the connection: a request nobody has
\* read yet is gone with it or, where the host is only busy, still read; a call
\* that runs at the window goes on.
RequestFails(r) ==
    /\ line[r].pc = "posted"
    /\ SendFails(r)
    /\ \/ posts' = {p \in posts : p.line # r}
       \/ posts' = {p \in posts : p.line # r \/ Serves(p.to)}
    /\ UNCHANGED <<windowVars, calls, cancel>>

\* The answer to an attempt the bridge has given up goes nowhere.
Awaited(p) == line[p.line].pc = "posted" /\ line[p.line].attempt = p.attempt

Answered(p) == IF Awaited(p) THEN line' = [line EXCEPT ![p.line].pc = "answered"]
                             ELSE UNCHANGED line

\* The client cancels a request it has no answer to.
Cancel(r) ==
    LET c == ClientOf[r] h == bridge[c].manifest IN
    /\ Outstanding(r) /\ cancel[r].st = "no"
    /\ cancel' = [cancel EXCEPT ![r] = IF h # None THEN CancelTo(h)
                                        ELSE [@ EXCEPT !.st = "awaiting"]]
    /\ bridge' = [bridge EXCEPT ![c] = IF h # None THEN @ ELSE Discovering(@)]
    /\ UNCHANGED <<windowVars, line, posts, calls>>

-----------------------------------------------------------------------------
(* startMcpTransport *)

\* Mutant: whoever listens at the port answers.
AuthorizedByPort(w, h) == Listening(w)

\* bearerMatches: the token a request carries is that of the host it was
\* posted to.
Authorized(w, h) == Serves(h) /\ h.win = w

ListenerAt(p, w) == Listening(w) /\ win[w].port = p

\* handleRequest gets to the body of the request.
Accepted(p, w) == ListenerAt(p.to.port, w) /\ Authorized(w, p.to)

ActiveAt(h) == {k \in calls : k.at = h}

\* tools/call and resources/read: the request runs, or is refused because one
\* of its client with its id does.
DispatchRequest(p, w) ==
    /\ Accepted(p, w)
    /\ posts' = posts \ {p}
    /\ IF \E k \in ActiveAt(HostOf(w)) : RequestKey(k.line) = RequestKey(p.line)
       THEN Answered(p) /\ UNCHANGED calls
       ELSE /\ calls' = calls \cup {[line |-> p.line, attempt |-> p.attempt,
                                     at |-> HostOf(w), aborted |-> FALSE]}
            /\ line' = IF Kind[p.line] = "safe" THEN line
                       ELSE [line EXCEPT ![p.line].ran = @ + 1]
    /\ UNCHANGED <<windowVars, bridge, cancel>>

\* The port is another host's by now, which answers 401, or nobody's.
NotAccepted(p) ==
    /\ \A w \in Window : ~Accepted(p, w)
    /\ posts' = posts \ {p}
    /\ IF Awaited(p) THEN SendFails(p.line) ELSE UNCHANGED <<line, bridge>>
    /\ UNCHANGED <<windowVars, calls, cancel>>

\* The backend returns, of its own or because its signal was aborted.
ToolReturns(k) ==
    /\ calls' = calls \ {k}
    /\ IF Serves(k.at) THEN Answered(k) ELSE UNCHANGED line
    /\ UNCHANGED <<windowVars, bridge, posts, cancel>>

\* notifications/cancelled: what runs under the id is aborted; before the
\* request is there and after it is over nothing is.
DispatchNotification(r) ==
    /\ cancel[r].st = "sent"
    /\ cancel' = [cancel EXCEPT ![r] = CancelOver]
    /\ IF Serves(cancel[r].to)
       THEN /\ calls' = {IF k \in ActiveAt(cancel[r].to) /\ RequestKey(k.line) = RequestKey(r)
                         THEN [k EXCEPT !.aborted = TRUE] ELSE k : k \in calls}
            /\ UNCHANGED bridge
       ELSE /\ bridge' = [bridge EXCEPT ![ClientOf[r]].manifest = None]
            /\ UNCHANGED calls
    /\ UNCHANGED <<windowVars, line, posts>>

\* dispose: every active request is aborted and the connections are closed.
WindowDisposesTransport(w) ==
    /\ DisposeTransport(w)
    /\ calls' = {IF k \in ActiveAt(HostOf(w)) THEN [k EXCEPT !.aborted = TRUE] ELSE k :
                 k \in calls}
    /\ UNCHANGED <<bridge, line, posts, cancel>>

WindowCrashes(w) ==
    /\ Crash(w)
    /\ calls' = {k \in calls : k.at.win # w}
    /\ UNCHANGED <<bridge, line, posts, cancel>>

-----------------------------------------------------------------------------
Next ==
    \/ WindowStep /\ UNCHANGED <<bridge, line, posts, calls, cancel>>
    \/ \E w \in Window : WindowDisposesTransport(w) \/ WindowCrashes(w)
    \/ \E c \in Client : Discover(c)
    \/ \E r \in Line : ForwardLine(r) \/ RequestFails(r) \/ Cancel(r) \/ DispatchNotification(r)
    \/ \E p \in posts : NotAccepted(p) \/ \E w \in Window : DispatchRequest(p, w)
    \/ \E k \in calls : ToolReturns(k)

Spec == Init /\ [][Next]_vars

-----------------------------------------------------------------------------
(* Properties *)

\* A request that changes the debuggee is executed at most once, whatever
\* fails after it was sent: the bridge sends again only what is safe to repeat
\* (stdioBridge.ts:592, 708).
MutatingRunsOnce ==
    \A r \in Line : line[r].ran <= 1

\* A client that names its window with --window-id is served by no other one,
\* although its bridge keeps a manifest of a host that may be gone and whose
\* port another window may have got (stdioBridge.ts:325).
ExplicitWindowOnly ==
    \A k \in calls : LET c == ClientOf[k.line] IN
                       Selection[c] = "explicit" => k.at.id = Wanted[c]

\* A running call is aborted only where its own client cancelled it or its
\* transport was disposed of, and a disposed transport leaves no call
\* waiting (transport.ts:470, 842).
AbortsFit ==
    \A k \in calls :
        /\ k.aborted => cancel[k.line].st # "no" \/ ~Serves(k.at)
        /\ ~Serves(k.at) => k.aborted

=============================================================================
