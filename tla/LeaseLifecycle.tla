--------------------------- MODULE LeaseLifecycle ---------------------------
(***************************************************************************)
(* What HotReloadLeaseManager promises the rest of the extension about the *)
(* leases of a target process, whatever promises, timers and calls do      *)
(* meanwhile.  A lease of a pid is identified by its generation and goes   *)
(* through unborn -> live -> retired -> gone (a failed acquire goes from   *)
(* live to gone).  A pid has at most one live lease, only while somebody   *)
(* wants it, and a retired lease is never live again.                      *)
(***************************************************************************)
EXTENDS Integers

CONSTANTS Pid,       \* target processes
          MaxLease   \* bound on the generations of leases of one pid

VARIABLES wanted,    \* pids with an owner session while the feature is on
          stage      \* life-cycle stage of every lease

lifecycleVars == <<wanted, stage>>

Lease == Pid \X (1..MaxLease)

Stage == {"unborn", "live", "retired", "gone"}

LifecycleTypeOK ==
    /\ wanted \in SUBSET Pid
    /\ stage \in [Lease -> Stage]

(***************************************************************************)
(* The stages a lease may move to in one step.                             *)
(***************************************************************************)
Successors(s) ==
    {s} \cup CASE s = "unborn"  -> {"live"}
               [] s = "live"    -> {"retired", "gone"}
               [] s = "retired" -> {"gone"}
               [] s = "gone"    -> {}

\* Generations of a pid are handed out one at a time and in order.
MayBeBorn(l) == l[2] = 1 \/ stage[<<l[1], l[2] - 1>>] # "unborn"

LiveOnlyWhileWanted == \A l \in Lease : stage[l] = "live" => l[1] \in wanted

OneLivePerPid ==
    \A k, l \in Lease :
        k[1] = l[1] /\ stage[k] = "live" /\ stage[l] = "live" => k = l

LifecycleInit ==
    /\ wanted = {}
    /\ stage = [l \in Lease |-> "unborn"]

(***************************************************************************)
(* One call or callback of the manager may change what is wanted and start *)
(* or retire the leases of several pids at once (enabling or disabling the *)
(* feature does).                                                          *)
(***************************************************************************)
Evolve ==
    /\ wanted' \in SUBSET Pid
    /\ stage' \in [Lease -> Stage]
    /\ \A l \in Lease : stage'[l] \in Successors(stage[l])
    /\ \A l \in Lease : stage[l] = "unborn" /\ stage'[l] = "live" => MayBeBorn(l)
    /\ LiveOnlyWhileWanted'
    /\ OneLivePerPid'

\* The release of a retired lease has completed.
Finish(l) ==
    /\ stage[l] = "retired"
    /\ stage' = [stage EXCEPT ![l] = "gone"]
    /\ UNCHANGED wanted

LifecycleSpec ==
    /\ LifecycleInit
    /\ [][Evolve]_lifecycleVars
    /\ \A l \in Lease : WF_lifecycleVars(Finish(l))
=============================================================================
