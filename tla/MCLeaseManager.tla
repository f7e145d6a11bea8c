--------------------------- MODULE MCLeaseManager ---------------------------
(* Small instances of LeaseManager for TLC. *)
EXTENDS LeaseManager, TLC

\* Session ids, and pids, are interchangeable in every action and property.
SessionSymmetry == Permutations(Session)
SessionPidSymmetry == Permutations(Session) \cup Permutations(Pid)
=============================================================================
