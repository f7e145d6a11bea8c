----------------------------- MODULE MCMcpBridge -----------------------------
EXTENDS McpBridge, TLC

CONSTANTS c1, c2, w1, w2

\* c1 is told its window; c2 has the id in its environment from a terminal of
\* the window that was reloaded as w2.
HowSelected == c1 :> "explicit" @@ c2 :> "env"
WantsFirst == c1 :> <<w1, 1>> @@ c2 :> <<w1, 1>>
ChildOfSecond == c1 :> None @@ c2 :> w2

Senders == <<c1, c2>>

Kinds == <<"safe", "mutating">>

\* Starts, faults and crashes of an execution are few in all, one request is
\* cancelled where no fault happens, and what windows do after the last request
\* is over they also do before the first.
Cancelled == {r \in Line : cancel[r].st # "no"}
Brief ==
    /\ posts # {} \/ calls # {} \/ \E r \in Line : line[r].pc # "answered"
    /\ win[w1].run + win[w2].run + faults + Cardinality({w \in Window : ~win[w].alive}) <= 3
    /\ Cardinality(Cancelled) + faults <= 1

PortSymmetry == Permutations(Port)

=============================================================================
