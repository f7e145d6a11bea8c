----------------------------- MODULE MCPidLock -----------------------------
(* Small instances of PidLock for TLC. *)
EXTENDS PidLock

CONSTANTS w1, w2, w3, a, b, c, d

\* A session in each of three windows, or two of the sessions in one.
OwnWindow == [s \in Session |-> CASE s = a -> w1 [] s = b -> w2 [] s = c -> w3]
Together == [s \in Session |-> CASE s = c -> w2 [] s = d -> w3 [] OTHER -> w1]

\* A bound: session c contends for the guard and the lock, but once it has the
\* lock its start goes no further.
Brief == flow[c] \in {"new", "claiming", "claimed", "rejected", "over"}

\* Another bound: the sessions of w1 get no further, and c runs as it likes.
Takeover ==
    \A s \in Session :
        Home[s] = w1 => flow[s] \in {"new", "claiming", "claimed", "rejected", "over"}

BriefOrTakeover == Brief \/ Takeover
=============================================================================
