--------------------------- MODULE PidLockProofs ---------------------------
(***************************************************************************)
(* Proofs about the per-PID session lock, for every set of windows and     *)
(* sessions.  Its types hold whatever dies.  As long as no window dies     *)
(* while it holds the guard, the guard excludes the windows from each      *)
(* other, two sessions of a window never own the target at once, an active *)
(* session has its lock on disk, and a live lock is its own window's.      *)
(***************************************************************************)
EXTENDS PidLock, TLAPS

ThreadInPlace == at \in [Thread -> Place]

\* The guard file, if there is one, belongs to a window that is running.
GuardIsHonoured ==
    /\ guard \in Thread \cup {None}
    /\ guard # None => WindowOf(guard) \in alive

\* So nobody finds it stale.
NobodyUnlinks == \A t \in Thread : at[t] # "unlink"

GuardInv == ThreadInPlace /\ GuardIsHonoured /\ NobodyUnlinks /\ GuardIsExclusive

-----------------------------------------------------------------------------

LEMMA ThreadFacts ==
    /\ \A s \in Session : s \in Thread /\ WindowOf(s) = Home[s] /\ Home[s] \in Window
    /\ \A w \in Window : w \in Thread /\ WindowOf(w) = w
    /\ None \notin Thread
    /\ \A t \in Thread : t # None
  BY PidLockAssumption DEF Thread, WindowOf

\* A step in which nobody enters a guarded section and the guard stays.
LEMMA NobodyEnters ==
    ASSUME GuardInv, ThreadInPlace', UNCHANGED <<alive, guard>>,
           \A t \in Thread : /\ at'[t] \in Inside => at[t] \in Inside
                             /\ at'[t] # "unlink"
    PROVE  GuardInv'
  BY DEF GuardInv, GuardIsHonoured, NobodyUnlinks, GuardIsExclusive, WindowOf

\* A step in which thread t leaves its guarded section and releases the guard.
LEMMA Leaving ==
    ASSUME GuardInv, ThreadInPlace', UNCHANGED alive,
           NEW t \in Thread, at[t] \in Inside, at'[t] \notin Inside, ReleaseGuard(t),
           \A u \in Thread : /\ at'[u] \in Inside => at[u] \in Inside
                             /\ at'[u] # "unlink"
    PROVE  GuardInv'
  <1>1. guard = t /\ guard' = None
    BY DEF GuardInv, GuardIsExclusive, ReleaseGuard
  <1>2. \A u \in Thread : at'[u] \notin Inside
    BY <1>1 DEF GuardInv, GuardIsExclusive
  <1> QED  BY <1>1, <1>2 DEF GuardInv, GuardIsHonoured, NobodyUnlinks, GuardIsExclusive

\* Where a step with Move(t, place) leaves the threads.
LEMMA Moved ==
    ASSUME ThreadInPlace, NEW t \in Thread, NEW place \in Place, Move(t, place)
    PROVE  ThreadInPlace' /\ at'[t] = place /\ \A u \in Thread \ {t} : at'[u] = at[u]
  BY DEF ThreadInPlace, Move

\* Where StartsRemoval leaves them.
LEMMA RemovalStarted ==
    ASSUME NEW s \in Session, NEW places \in [Thread -> Place]
    PROVE  /\ StartsRemoval(s, places) \in [Thread -> Place]
           /\ \A t \in Thread : StartsRemoval(s, places)[t] \in {places[t], "try"}
  BY ThreadFacts DEF StartsRemoval, Place

-----------------------------------------------------------------------------

LEMMA InitGuard == Init /\ ~DiesInside => GuardInv
  BY ThreadFacts DEF Init, GuardInv, ThreadInPlace, GuardIsHonoured, NobodyUnlinks,
                     GuardIsExclusive, Inside, Place

\* The steps of acquirePidClaimGuard.
LEMMA GuardSteps ==
    ASSUME GuardInv, NEW t \in Thread, GuardStep(t)
    PROVE  GuardInv'
  <1>1. CASE AcquireGuard(t)
    <2>1. Move(t, "section") /\ guard = None /\ guard' = t /\ alive' = alive
          /\ WindowOf(t) \in alive
      BY <1>1 DEF AcquireGuard, GuardUnused, Polls, MayRun, BetweenTurns
    <2>2. ThreadInPlace' /\ at'[t] = "section" /\ \A u \in Thread \ {t} : at'[u] = at[u]
      BY <2>1, Moved DEF GuardInv, Place
    <2>3. \A u \in Thread : at[u] \notin Inside
      BY <2>1, ThreadFacts DEF GuardInv, GuardIsExclusive
    <2>4. GuardIsHonoured'
      BY <2>1 DEF GuardIsHonoured, WindowOf
    <2>5. NobodyUnlinks' /\ GuardIsExclusive'
      BY <2>1, <2>2, <2>3 DEF GuardInv, NobodyUnlinks, GuardIsExclusive
    <2> QED  BY <2>2, <2>4, <2>5 DEF GuardInv
  <1>2. CASE SeeStaleGuard(t)
    BY <1>2 DEF SeeStaleGuard, GuardIsStale, GuardInv, GuardIsHonoured
  <1>3. CASE SeeHeldGuard(t)
    <2>1. Move(t, "guard") /\ UNCHANGED <<alive, guard>>
      BY <1>3 DEF SeeHeldGuard, GuardUnused
    <2>2. ThreadInPlace' /\ at'[t] = "guard" /\ \A u \in Thread \ {t} : at'[u] = at[u]
      BY <2>1, Moved DEF GuardInv, Place
    <2> QED  BY <2>1, <2>2, NobodyEnters DEF GuardInv, NobodyUnlinks, Inside
  <1>4. CASE UnlinkGuard(t)
    BY <1>4 DEF UnlinkGuard, GuardInv, NobodyUnlinks
  <1> QED  BY <1>1, <1>2, <1>3, <1>4 DEF GuardStep

-----------------------------------------------------------------------------

LEMMA MoveOutside ==
    ASSUME GuardInv, NEW t \in Thread, NEW place \in Place \ (Inside \cup {"unlink"}),
           Move(t, place), UNCHANGED <<alive, guard>>
    PROVE  GuardInv'
  <1>1. ThreadInPlace' /\ at'[t] = place /\ \A u \in Thread \ {t} : at'[u] = at[u]
    BY Moved DEF GuardInv
  <1> QED  BY <1>1, NobodyEnters DEF GuardInv, NobodyUnlinks

LEMMA MoveInside ==
    ASSUME GuardInv, NEW t \in Thread, at[t] \in Inside, NEW place \in Place \ {"unlink"},
           Move(t, place), UNCHANGED <<alive, guard>>
    PROVE  GuardInv'
  <1>1. ThreadInPlace' /\ at'[t] = place /\ \A u \in Thread \ {t} : at'[u] = at[u]
    BY Moved DEF GuardInv
  <1> QED  BY <1>1, NobodyEnters DEF GuardInv, NobodyUnlinks

LEMMA MoveOut ==
    ASSUME GuardInv, NEW t \in Thread, at[t] \in Inside,
           NEW place \in Place \ (Inside \cup {"unlink"}),
           Move(t, place), ReleaseGuard(t), UNCHANGED alive
    PROVE  GuardInv'
  <1>1. ThreadInPlace' /\ at'[t] = place /\ \A u \in Thread \ {t} : at'[u] = at[u]
    BY Moved DEF GuardInv
  <1> QED  BY <1>1, Leaving DEF GuardInv, NobodyUnlinks

LEMMA StayInPlace ==
    ASSUME GuardInv, UNCHANGED <<at, guard, alive>>
    PROVE  GuardInv'
  BY DEF GuardInv, ThreadInPlace, GuardIsHonoured, NobodyUnlinks, GuardIsExclusive, WindowOf

\* The start of a removal, by a session that stays where it is.
LEMMA StartRemoval ==
    ASSUME GuardInv, NEW s \in Session, at' = StartsRemoval(s, at), UNCHANGED <<guard, alive>>
    PROVE  GuardInv'
  <1>1. ThreadInPlace' /\ \A t \in Thread : at'[t] \in {at[t], "try"}
    BY RemovalStarted DEF GuardInv, ThreadInPlace
  <1> QED  BY <1>1, NobodyEnters DEF GuardInv, NobodyUnlinks, Inside

\* The start of a removal, by a session that leaves its guarded section.
LEMMA LeaveAndStartRemoval ==
    ASSUME GuardInv, NEW s \in Session, at[s] \in Inside, ReleaseGuard(s),
           at' = StartsRemoval(s, [at EXCEPT ![s] = "idle"]), UNCHANGED alive
    PROVE  GuardInv'
  <1> DEFINE places == [at EXCEPT ![s] = "idle"]
  <1>1. places \in [Thread -> Place] /\ places[s] = "idle"
        /\ \A t \in Thread \ {s} : places[t] = at[t]
    BY ThreadFacts DEF GuardInv, ThreadInPlace, Place
  <1>2. ThreadInPlace' /\ \A t \in Thread : at'[t] \in {places[t], "try"}
    BY <1>1, RemovalStarted DEF ThreadInPlace
  <1> HIDE DEF places
  <1> QED  BY <1>1, <1>2, Leaving, ThreadFacts DEF GuardInv, NobodyUnlinks, Inside

LEMMA RemovalSteps ==
    ASSUME GuardInv, NEW w \in Window, RemovalStep(w) \/ RemovalGivesUp(w)
    PROVE  GuardInv'
  <1> DEFINE next == IF Len(chain[w]) = 1 THEN "idle" ELSE "try"
  <1>1. w \in Thread /\ next \in Place \ (Inside \cup {"unlink"})
    BY ThreadFacts DEF Place, Inside
  <1>2. CASE RemovePidLockIf(w)
    <2>1. at[w] \in Inside /\ Move(w, "leave") /\ UNCHANGED <<alive, guard>>
      BY <1>2 DEF RemovePidLockIf, Inside
    <2> QED  BY <1>1, <2>1, MoveInside DEF Place
  <1>3. CASE FinishRemoval(w)
    <2>1. at[w] \in Inside /\ Move(w, next) /\ ReleaseGuard(w) /\ UNCHANGED alive
      BY <1>3 DEF FinishRemoval, RemovalSettles, Inside
    <2> QED  BY <1>1, <2>1, MoveOut
  <1>4. CASE RemovalGivesUp(w)
    <2>1. Move(w, next) /\ UNCHANGED <<alive, guard>>
      BY <1>4 DEF RemovalGivesUp, RemovalSettles
    <2> QED  BY <1>1, <2>1, MoveOutside
  <1> QED  BY <1>2, <1>3, <1>4 DEF RemovalStep

LEMMA ReserveSteps ==
    ASSUME GuardInv, NEW s \in Session, ReserveStep(s)
    PROVE  GuardInv'
  <1> DEFINE asks == IF chain[Home[s]] = <<>> THEN "try" ELSE "reserve"
  <1>1. /\ s \in Thread
        /\ {asks, "idle", "await", "reserve", "try"} \subseteq Place \ (Inside \cup {"unlink"})
        /\ {"section", "judge", "leave"} \subseteq Place \ {"unlink"}
    BY ThreadFacts DEF Place, Inside
  <1> HIDE DEF asks
  <1>2. CASE ClaimChecks(s)
    <2>1. UNCHANGED <<alive, guard>> /\ (Move(s, asks) \/ Move(s, "idle"))
      BY <1>2 DEF ClaimChecks, Reserve, AwaitRemovals, fileVars, asks
    <2> QED  BY <1>1, <2>1, MoveOutside
  <1>3. CASE ReserveAsks(s)
    <2>1. UNCHANGED <<alive, guard>> /\ Move(s, "try")
      BY <1>3 DEF ReserveAsks, fileVars
    <2> QED  BY <1>1, <2>1, MoveOutside
  <1>4. CASE ReserveReads(s)
    <2>1. UNCHANGED <<alive, guard>> /\ at[s] \in Inside /\ (Move(s, "leave") \/ Move(s, "judge"))
      BY <1>4 DEF ReserveReads, Inside
    <2> QED  BY <1>1, <2>1, MoveInside
  <1>5. CASE Judge(s)
    <2>1. UNCHANGED <<alive, guard>> /\ at[s] \in Inside /\ (Move(s, "leave") \/ Move(s, "section"))
      BY <1>5 DEF Judge, Inside
    <2> QED  BY <1>1, <2>1, MoveInside
  <1>6. CASE ReserveEnds(s)
    <2>1. UNCHANGED alive /\ at[s] \in Inside /\ Move(s, "idle") /\ ReleaseGuard(s)
      BY <1>6 DEF ReserveEnds, Inside
    <2> QED  BY <1>1, <2>1, MoveOut
  <1> QED  BY <1>2, <1>3, <1>4, <1>5, <1>6 DEF ReserveStep

LEMMA StartSteps ==
    ASSUME GuardInv, NEW s \in Session, StartStep(s)
    PROVE  GuardInv'
  <1>1. /\ s \in Thread
        /\ {"idle", "try"} \subseteq Place \ (Inside \cup {"unlink"})
        /\ {"section", "judge", "leave"} \subseteq Place \ {"unlink"}
    BY ThreadFacts DEF Place, Inside
  <1>2. CASE CleanReads(s)
    <2>1. UNCHANGED <<alive, guard>> /\ at[s] \in Inside /\ (Move(s, "leave") \/ Move(s, "judge"))
      BY <1>2 DEF CleanReads, Inside, fileVars
    <2> QED  BY <1>1, <2>1, MoveInside
  <1>3. CASE ReleaseClaim(s) \/ PromoteLock(s)
    <2>1. UNCHANGED <<alive, guard>> /\ at[s] \in Inside /\ Move(s, "leave")
      BY <1>3 DEF ReleaseClaim, PromoteLock, Inside
    <2> QED  BY <1>1, <2>1, MoveInside
  <1>4. CASE CleanEnds(s) \/ ReleaseEnds(s)
    <2>1. UNCHANGED alive /\ at[s] \in Inside /\ Move(s, "idle") /\ ReleaseGuard(s)
      BY <1>4 DEF CleanEnds, ReleaseEnds, Inside
    <2> QED  BY <1>1, <2>1, MoveOut
  <1>5. CASE ReclaimEnds(s) \/ PromoteEnds(s)
    <2>1. /\ UNCHANGED alive /\ at[s] \in Inside /\ ReleaseGuard(s)
          /\ \/ Move(s, "idle") \/ Move(s, "try")
             \/ at' = StartsRemoval(s, [at EXCEPT ![s] = "idle"])
      BY <1>5 DEF ReclaimEnds, PromoteEnds, Inside
    <2> QED  BY <1>1, <2>1, MoveOut, LeaveAndStartRemoval
  <1> QED  BY <1>2, <1>3, <1>4, <1>5 DEF StartStep

\* The events of a session's life outside guarded sections.
SessionEvent(s) ==
    \/ Preflight(s) \/ Attach(s) \/ CreateDescriptor(s)
    \/ ActivationSucceeds(s) \/ ActivationFails(s)
    \/ StartRejected(s) \/ StartEvent(s) \/ GivesUp(s)
    \/ AdapterEnds(s) \/ TerminateEvent(s) \/ FinalizationEnds(s)

LEMMA SessionEvents ==
    ASSUME GuardInv, NEW s \in Session, SessionEvent(s)
    PROVE  GuardInv'
  <1> DEFINE asks == IF chain[Home[s]] = <<>> THEN "try" ELSE "reserve"
  <1>1. s \in Thread /\ {asks, "idle", "await", "try"} \subseteq Place \ (Inside \cup {"unlink"})
    BY ThreadFacts DEF Place, Inside
  <1> HIDE DEF asks
  <1>2. CASE Preflight(s) \/ Attach(s) \/ CreateDescriptor(s)
    <2>1. /\ UNCHANGED <<alive, guard>>
          /\ UNCHANGED at \/ Move(s, asks) \/ Move(s, "try") \/ Move(s, "await")
      BY <1>2 DEF Preflight, Attach, CreateDescriptor, Reserve, AwaitRemovals, fileVars, asks
    <2> QED  BY <1>1, <2>1, MoveOutside, StayInPlace
  <1>3. CASE ActivationSucceeds(s) \/ ActivationFails(s) \/ GivesUp(s)
    <2>1. /\ UNCHANGED <<alive, guard>>
          /\ UNCHANGED at \/ Move(s, "try") \/ Move(s, "idle")
      BY <1>3 DEF ActivationSucceeds, ActivationFails, GivesUp, fileVars
    <2> QED  BY <1>1, <2>1, MoveOutside, StayInPlace
  <1>4. CASE StartRejected(s) \/ StartEvent(s)
    <2>1. /\ UNCHANGED <<alive, guard>>
          /\ Move(s, "await") \/ at' = StartsRemoval(s, at)
      BY <1>4 DEF StartRejected, StartEvent, AwaitRemovals, fileVars
    <2> QED  BY <1>1, <2>1, MoveOutside, StartRemoval
  <1>5. CASE AdapterEnds(s) \/ TerminateEvent(s) \/ FinalizationEnds(s)
    <2>1. /\ UNCHANGED <<alive, guard>>
          /\ UNCHANGED at \/ at' = StartsRemoval(s, at)
      BY <1>5 DEF AdapterEnds, TerminateEvent, FinalizationEnds, QueueFinalization, fileVars
    <2> QED  BY <1>1, <2>1, StayInPlace, StartRemoval
  <1> QED  BY <1>2, <1>3, <1>4, <1>5 DEF SessionEvent

\* A window that does not hold the guard dies.
LEMMA WindowDeath ==
    ASSUME GuardInv, ~DiesInside, NEW w \in Window, WindowDies(w)
    PROVE  GuardInv'
  <1>1. /\ alive' = alive \ {w} /\ guard' = guard
        /\ guard = None \/ WindowOf(guard) # w
        /\ at' = [t \in Thread |-> IF WindowOf(t) = w THEN "idle" ELSE at[t]]
    BY DEF WindowDies, fileVars
  <1>2. ThreadInPlace' /\ \A t \in Thread : at'[t] \in {at[t], "idle"}
    BY <1>1 DEF GuardInv, ThreadInPlace, Place
  <1>3. GuardIsHonoured'
    BY <1>1 DEF GuardInv, GuardIsHonoured, WindowOf
  <1> QED  BY <1>1, <1>2, <1>3 DEF GuardInv, NobodyUnlinks, GuardIsExclusive, Inside

LEMMA NextGuard == ~DiesInside /\ GuardInv /\ [Next]_vars => GuardInv'
  <1> SUFFICES ASSUME ~DiesInside, GuardInv, [Next]_vars PROVE GuardInv'
    OBVIOUS
  <1>1. ASSUME NEW t \in Thread, GuardStep(t) PROVE GuardInv'
    BY <1>1, GuardSteps
  <1>2. ASSUME NEW s \in Session, ReserveStep(s) \/ StartStep(s) \/ SessionEvent(s)
        PROVE  GuardInv'
    BY <1>2, ReserveSteps, StartSteps, SessionEvents
  <1>3. ASSUME NEW w \in Window, RemovalStep(w) \/ RemovalGivesUp(w) \/ WindowDies(w)
        PROVE  GuardInv'
    BY <1>3, RemovalSteps, WindowDeath
  <1>4. CASE PendingExpires
    BY <1>4, StayInPlace DEF PendingExpires
  <1>5. CASE UNCHANGED vars
    BY <1>5, StayInPlace DEF vars, fileVars
  <1> QED  BY <1>1, <1>2, <1>3, <1>4, <1>5 DEF Next, Step, SessionEvent

\* The guarded sections of acquirePidClaimGuard exclude each other, for any
\* number of windows and sessions and whatever they do, unless a window dies in
\* one: the recovery of such a guard is what the exclusion fails by.
THEOREM GuardExclusion == ~DiesInside => (Spec => []GuardIsExclusive)
  <1>1. Init /\ ~DiesInside => GuardInv
    BY InitGuard
  <1>2. ~DiesInside /\ GuardInv /\ [Next]_vars => GuardInv'
    BY NextGuard
  <1>3. GuardInv => GuardIsExclusive
    BY DEF GuardInv
  <1> SUFFICES ASSUME ~DiesInside PROVE Spec => []GuardIsExclusive
    OBVIOUS
  <1>4. Init => GuardInv
    BY <1>1
  <1>5. GuardInv /\ [Next]_vars => GuardInv'
    BY <1>2
  <1> QED  BY <1>3, <1>4, <1>5, PTL DEF Spec

-----------------------------------------------------------------------------
(* Types *)

\* A removal that is under way is of the window's chain, whose sessions are the
\* window's and have been abandoned.
ChainFits ==
    \A w \in Window :
        /\ at[w] \in {"idle", "try", "guard", "unlink", "section", "leave"}
        /\ at[w] # "idle" => chain[w] # <<>>
        /\ \A i \in 1..Len(chain[w]) :
              /\ Home[chain[w][i].session] = w
              /\ abandoned[chain[w][i].session] # "no"

TypeInv == TypeOK /\ ChainFits

LEMMA LockTypes ==
    /\ NoLock.owner = None /\ NoLock.phase = "none" /\ NoLock \notin Lock
    /\ \A s \in Session : PendingLock(s) \in Lock /\ ActiveLock(s) \in Lock
    /\ \A l \in Lock : [l EXCEPT !.expired = TRUE] \in Lock
  BY PidLockAssumption DEF NoLock, Lock, PendingLock, ActiveLock

LEMMA InitType == Init => TypeInv
  <1> SUFFICES ASSUME Init PROVE TypeInv
    OBVIOUS
  <1>1. \A w \in Window : chain[w] \in Seq(Removal) /\ Len(chain[w]) = 0 /\ at[w] = "idle"
    BY ThreadFacts DEF Init
  <1>2. TypeOK
    BY <1>1, PidLockAssumption DEF Init, TypeOK, Flow, Place
  <1>3. ChainFits
    BY <1>1 DEF ChainFits
  <1> QED  BY <1>2, <1>3 DEF TypeInv

LEMMA AppendFacts ==
    ASSUME NEW T, NEW q \in Seq(T), NEW x \in T
    PROVE  LET r == Append(q, x) IN
           /\ r \in Seq(T) /\ Len(r) = Len(q) + 1 /\ r # <<>> /\ r[Len(q) + 1] = x
           /\ \A i \in 1..Len(q) : r[i] = q[i]
  OBVIOUS

LEMMA TailFacts ==
    ASSUME NEW T, NEW q \in Seq(T), q # <<>>
    PROVE  /\ Tail(q) \in Seq(T) /\ Len(Tail(q)) = Len(q) - 1 /\ Len(q) \in Nat /\ Len(q) >= 1
           /\ Head(q) = q[1]
           /\ \A i \in 1..Len(Tail(q)) : i + 1 \in 1..Len(q) /\ Tail(q)[i] = q[i + 1]
           /\ Len(q) # 1 => Tail(q) # <<>>
  <1>1. /\ Tail(q) \in Seq(T) /\ Len(Tail(q)) = Len(q) - 1 /\ Len(q) \in Nat /\ Len(q) >= 1
        /\ Head(q) = q[1]
        /\ \A i \in 1..Len(Tail(q)) : Tail(q)[i] = q[i + 1]
    OBVIOUS
  <1>2. \A i \in 1..Len(Tail(q)) : i + 1 \in 1..Len(q)
    BY <1>1
  <1>3. ASSUME Tail(q) = <<>> PROVE Len(q) = 1
    <2>1. Len(<<>>) = 0
      OBVIOUS
    <2>2. Len(q) - 1 = 0
      BY ONLY <1>1, <1>3, <2>1, Zenon
    <2>3. Len(q) \in Nat
      BY <1>1
    <2> QED  BY ONLY <2>2, <2>3, SMT
  <1> QED  BY <1>1, <1>2, <1>3

\* The threads of the windows stay where they are, and so do their chains.
ChainStays ==
    /\ UNCHANGED chain /\ \A w \in Window : at'[w] = at[w]
    /\ \A s \in Session : abandoned[s] # "no" => abandoned'[s] # "no"

LEMMA ChainSessions ==
    ASSUME TypeOK
    PROVE  \A w \in Window : /\ chain[w] \in Seq(Removal)
                              /\ \A i \in 1..Len(chain[w]) : chain[w][i].session \in Session
  <1>1. chain \in [Window -> Seq(Removal)]
    BY DEF TypeOK
  <1>2. ASSUME NEW q \in Seq(Removal), NEW i \in 1..Len(q) PROVE q[i].session \in Session
    <2>1. q[i] \in Removal
      OBVIOUS
    <2> QED  BY <2>1 DEF Removal
  <1> QED  BY <1>1, <1>2

LEMMA SameChain == ASSUME TypeInv, ChainStays PROVE ChainFits'
  <1>1. \A w \in Window : \A i \in 1..Len(chain[w]) : chain[w][i].session \in Session
    BY ChainSessions DEF TypeInv
  <1> QED  BY <1>1 DEF TypeInv, ChainFits, ChainStays

\* A removal is queued, and the window's thread starts if there was none.
LEMMA QueueFits ==
    ASSUME TypeInv, NEW s \in Session, NEW queued \in BOOLEAN, QueueRemoval(s, queued),
           NEW places \in [Thread -> Place], \A w \in Window : places[w] = at[w],
           at' = StartsRemoval(s, places)
    PROVE  /\ ChainFits' /\ chain' \in [Window -> Seq(Removal)]
           /\ abandoned' \in [Session -> {"no", "asked", "done", "failed"}]
           /\ abandoned'[s] = "asked" /\ \A k \in Session \ {s} : abandoned'[k] = abandoned[k]
  <1> DEFINE h == Home[s]
             x == [session |-> s, queued |-> queued]
  <1>1. h \in Window /\ h \in Thread /\ chain[h] \in Seq(Removal) /\ x \in Removal
    BY ThreadFacts DEF TypeInv, TypeOK, Removal
  <1>2. /\ chain' \in [Window -> Seq(Removal)] /\ chain'[h] = Append(chain[h], x)
        /\ \A w \in Window \ {h} : chain'[w] = chain[w]
    BY <1>1, AppendFacts DEF QueueRemoval, TypeInv, TypeOK
  <1>3. /\ abandoned' \in [Session -> {"no", "asked", "done", "failed"}]
        /\ abandoned'[s] = "asked" /\ \A k \in Session \ {s} : abandoned'[k] = abandoned[k]
    BY DEF QueueRemoval, TypeInv, TypeOK
  <1>4. /\ at'[h] = (IF chain[h] = <<>> THEN "try" ELSE at[h])
        /\ \A w \in Window \ {h} : at'[w] = at[w]
    BY <1>1, ThreadFacts DEF StartsRemoval
  <1>5. /\ Len(chain'[h]) = Len(chain[h]) + 1 /\ chain'[h] # <<>>
        /\ chain'[h][Len(chain[h]) + 1].session = s /\ Len(chain[h]) \in Nat
        /\ \A i \in 1..Len(chain[h]) : chain'[h][i] = chain[h][i]
    BY <1>1, <1>2, AppendFacts, SMTT(30)
  <1>6. \A w \in Window : \A i \in 1..Len(chain[w]) : chain[w][i].session \in Session
    BY ChainSessions DEF TypeInv
  <1>7. \A w \in Window : \A i \in 1..Len(chain'[w]) :
           \/ i \in 1..Len(chain[w]) /\ chain'[w][i] = chain[w][i]
           \/ w = h /\ chain'[w][i].session = s
    <2> HIDE DEF h, x
    <2>1. ASSUME NEW w \in Window, w # h, NEW i \in 1..Len(chain'[w])
          PROVE  i \in 1..Len(chain[w]) /\ chain'[w][i] = chain[w][i]
      BY ONLY <1>2, <2>1, Zenon
    <2>2. ASSUME NEW i \in 1..Len(chain'[h])
          PROVE  \/ i \in 1..Len(chain[h]) /\ chain'[h][i] = chain[h][i]
                 \/ chain'[h][i].session = s
      <3>1. i \in 1..Len(chain[h]) \/ i = Len(chain[h]) + 1
        BY ONLY <1>5, <2>2
      <3>2. \/ i \in 1..Len(chain[h]) /\ chain'[h][i] = chain[h][i]
            \/ chain'[h][i].session = s
        BY ONLY <1>5, <3>1, Zenon
      <3> QED  BY ONLY <3>2
    <2> QED  BY ONLY <2>1, <2>2, Zenon
  <1>8. ASSUME NEW w \in Window, NEW i \in 1..Len(chain'[w])
        PROVE  Home[chain'[w][i].session] = w /\ abandoned'[chain'[w][i].session] # "no"
    <2>1. CASE i \in 1..Len(chain[w]) /\ chain'[w][i] = chain[w][i]
      BY <1>3, <1>6, <2>1 DEF TypeInv, ChainFits
    <2>2. CASE w = h /\ chain'[w][i].session = s
      BY <1>3, <2>2
    <2> QED  BY <1>7, <2>1, <2>2
  <1>9. ASSUME NEW w \in Window
        PROVE  /\ at'[w] \in {"idle", "try", "guard", "unlink", "section", "leave"}
               /\ at'[w] # "idle" => chain'[w] # <<>>
    BY <1>2, <1>4, <1>5, SMTT(30) DEF TypeInv, ChainFits
  <1>10. ChainFits'
    BY <1>8, <1>9 DEF ChainFits
  <1> QED  BY <1>2, <1>3, <1>10

LEMMA OneChanged ==
    ASSUME NEW D, NEW R, NEW f \in [D -> R], NEW d \in D, NEW x \in R,
           NEW g, g = [f EXCEPT ![d] = x]
    PROVE  g \in [D -> R] /\ g[d] = x /\ \A e \in D \ {d} : g[e] = f[e]
  OBVIOUS

\* Who sleeps is a session, so that the type of older is kept by every step.
LEMMA OlderType == TypeOK /\ SleepIsShort => older' \in SUBSET Session
  BY DEF TypeOK, SleepIsShort, Asleep

LEMMA GuardTypes ==
    ASSUME TypeInv, older' \in SUBSET Session, NEW t \in Thread, GuardStep(t)
    PROVE  TypeInv'
  <1> USE DEF GuardUnused, sessionVars
  <1>1. /\ UNCHANGED <<alive, lock, claims, chain, finalizing, sessionVars, abandoned>>
        /\ guard' \in {guard, t, None}
        /\ Move(t, "section") \/ Move(t, "unlink") \/ Move(t, "guard") \/ Move(t, "try")
        /\ at[t] # "idle"
    BY DEF GuardStep, AcquireGuard, SeeStaleGuard, SeeHeldGuard, UnlinkGuard, Polls
  <1>2. at' \in [Thread -> Place]
    BY <1>1 DEF TypeInv, TypeOK, Move, Place
  <1>3. TypeOK'
    BY <1>1, <1>2 DEF TypeInv, TypeOK
  <1>4. \A u \in Thread \ {t} : at'[u] = at[u]
    BY <1>1 DEF TypeInv, TypeOK, Move
  <1>5. at'[t] \in {"section", "unlink", "guard", "try"}
    BY <1>1 DEF TypeInv, TypeOK, Move
  <1>6. ChainFits'
    BY <1>1, <1>4, <1>5, ThreadFacts DEF TypeInv, ChainFits
  <1> QED  BY <1>3, <1>6 DEF TypeInv

LEMMA RemovalTypes ==
    ASSUME TypeInv, older' \in SUBSET Session, NEW w \in Window,
           RemovalStep(w) \/ RemovalGivesUp(w)
    PROVE  TypeInv'
  <1> DEFINE q == chain[w]
             s == Head(chain[w]).session
  <1>1. /\ w \in Thread /\ at[w] # "idle" /\ q \in Seq(Removal) /\ q # <<>>
    BY ThreadFacts DEF TypeInv, TypeOK, ChainFits, RemovalStep, RemovePidLockIf, FinishRemoval,
                       RemovalGivesUp
  <1>2. s \in Session /\ abandoned[s] # "no" /\ Len(q) \in Nat /\ Len(q) >= 1
    BY <1>1, TailFacts, ChainSessions DEF TypeInv, ChainFits
  <1>3. CASE RemovePidLockIf(w)
    <2>1. /\ at' = [at EXCEPT ![w] = "leave"] /\ lock' \in {lock, NoLock}
          /\ abandoned' = [abandoned EXCEPT ![s] = "done"]
          /\ UNCHANGED <<alive, guard, claims, chain, finalizing, sessionVars>>
      BY <1>3 DEF RemovePidLockIf, Move
    <2>2. TypeOK'
      BY <1>1, <1>2, <2>1 DEF TypeInv, TypeOK, sessionVars, Place
    <2>3. /\ at'[w] = "leave" /\ \A v \in Window \ {w} : at'[v] = at[v]
          /\ \A k \in Session : abandoned[k] # "no" => abandoned'[k] # "no"
      BY <1>1, <1>2, <2>1, ThreadFacts DEF TypeInv, TypeOK
    <2>4. \A v \in Window : \A i \in 1..Len(chain[v]) : chain[v][i].session \in Session
      BY ChainSessions DEF TypeInv
    <2>5. ChainFits'
      BY <1>1, <2>1, <2>3, <2>4 DEF TypeInv, ChainFits
    <2> QED  BY <2>2, <2>5 DEF TypeInv
  <1>4. CASE FinishRemoval(w) \/ RemovalGivesUp(w)
    <2>1. /\ RemovalSettles(w) /\ guard' \in {guard, None}
          /\ abandoned' \in {abandoned, [abandoned EXCEPT ![s] = "failed"]}
      BY <1>4 DEF FinishRemoval, RemovalGivesUp, ReleaseGuard
    <2>2. /\ chain' = [chain EXCEPT ![w] = Tail(@)]
          /\ behind' = [k \in Session |-> IF Home[k] = w /\ behind[k] > 0 THEN behind[k] - 1
                                                                       ELSE behind[k]]
          /\ at' = [at EXCEPT ![w] = IF Len(q) = 1 THEN "idle" ELSE "try"]
          /\ UNCHANGED <<alive, lock, claims, finalizing, flow, saw, previous, granted, adapter,
                         terminated>>
      BY <2>1 DEF RemovalSettles, Move
    <2>3. /\ Tail(q) \in Seq(Removal)
          /\ Len(q) # 1 => Tail(q) # <<>>
          /\ \A i \in 1..Len(Tail(q)) : i + 1 \in 1..Len(q) /\ Tail(q)[i] = q[i + 1]
      BY <1>1, TailFacts
    <2>4. /\ chain' \in [Window -> Seq(Removal)] /\ chain'[w] = Tail(q)
          /\ \A v \in Window \ {w} : chain'[v] = chain[v]
      <3>1. chain \in [Window -> Seq(Removal)]
        BY DEF TypeInv, TypeOK
      <3>2. chain' = [chain EXCEPT ![w] = Tail(q)]
        BY ONLY <2>2
      <3>3. Tail(q) \in Seq(Removal) /\ w \in Window
        BY <2>3
      <3> QED  BY ONLY <3>1, <3>2, <3>3, OneChanged
    <2>5. behind' \in [Session -> Nat]
      BY <2>2 DEF TypeInv, TypeOK
    <2>6. at' \in [Thread -> Place] /\ at'[w] \in {"idle", "try"} /\ (at'[w] # "idle" => Len(q) # 1)
          /\ \A v \in Window \ {w} : at'[v] = at[v]
      BY <1>1, <2>2, ThreadFacts DEF TypeInv, TypeOK, Place
    <2>7. /\ abandoned' \in [Session -> {"no", "asked", "done", "failed"}]
          /\ \A k \in Session : abandoned[k] # "no" => abandoned'[k] # "no"
      BY <1>2, <2>1 DEF TypeInv, TypeOK
    <2>8. TypeOK'
      BY <2>1, <2>2, <2>4, <2>5, <2>6, <2>7 DEF TypeInv, TypeOK
    <2>9. \A v \in Window : \A i \in 1..Len(chain[v]) :
             /\ chain[v][i].session \in Session
             /\ Home[chain[v][i].session] = v /\ abandoned'[chain[v][i].session] # "no"
      BY <2>7, ChainSessions DEF TypeInv, ChainFits
    <2>10. \A v \in Window : \A i \in 1..Len(chain'[v]) :
              Home[chain'[v][i].session] = v /\ abandoned'[chain'[v][i].session] # "no"
      <3>1. \A i \in 1..Len(Tail(q)) : i + 1 \in 1..Len(chain[w]) /\ Tail(q)[i] = chain[w][i + 1]
        BY <2>3
      <3> HIDE DEF q
      <3>2. \A i \in 1..Len(chain'[w]) :
               Home[chain'[w][i].session] = w /\ abandoned'[chain'[w][i].session] # "no"
        BY <2>4, <2>9, <3>1, SMTT(30)
      <3>3. \A v \in Window \ {w} : \A i \in 1..Len(chain'[v]) :
               Home[chain'[v][i].session] = v /\ abandoned'[chain'[v][i].session] # "no"
        BY <2>4, <2>9
      <3> QED  BY <3>2, <3>3
    <2>11. \A v \in Window : /\ at'[v] \in {"idle", "try", "guard", "unlink", "section", "leave"}
                             /\ at'[v] # "idle" => chain'[v] # <<>>
      <3>1. /\ at'[w] \in {"idle", "try"} /\ (at'[w] # "idle" => chain'[w] # <<>>)
            /\ \A v \in Window \ {w} : at'[v] = at[v] /\ chain'[v] = chain[v]
        BY <2>3, <2>4, <2>6
      <3>2. \A v \in Window : /\ at[v] \in {"idle", "try", "guard", "unlink", "section", "leave"}
                              /\ at[v] # "idle" => chain[v] # <<>>
        BY DEF TypeInv, ChainFits
      <3> QED  BY ONLY <3>1, <3>2
    <2> QED  BY <2>8, <2>10, <2>11 DEF TypeInv, ChainFits
  <1> QED  BY <1>3, <1>4 DEF RemovalStep

\* The threads of the windows, and what a session's step may do to them.
LEMMA SessionMoved ==
    ASSUME TypeInv, NEW s \in Session, NEW place \in Place, Move(s, place)
    PROVE  /\ at' \in [Thread -> Place] /\ at'[s] = place
           /\ \A w \in Window : at'[w] = at[w]
           /\ \A t \in Thread \ {s} : at'[t] = at[t]
  BY ThreadFacts, PidLockAssumption DEF TypeInv, TypeOK, Move

\* A step of a session that moves it, and leaves the chains alone.
LEMMA MoveTypes ==
    ASSUME TypeInv, NEW s \in Session, NEW place \in Place, Move(s, place),
           UNCHANGED <<chain, abandoned>>
    PROVE  /\ at' \in [Thread -> Place] /\ ChainFits'
           /\ chain' \in [Window -> Seq(Removal)]
           /\ abandoned' \in [Session -> {"no", "asked", "done", "failed"}]
  <1>1. /\ at' \in [Thread -> Place] /\ \A w \in Window : at'[w] = at[w]
    BY SessionMoved
  <1>2. ChainFits'
    BY <1>1, SameChain DEF ChainStays
  <1> QED  BY <1>1, <1>2 DEF TypeInv, TypeOK

\* What a session may do to its window's claims.
LEMMA ClaimsType ==
    ASSUME TypeInv, NEW s \in Session,
           \/ UNCHANGED claims \/ Claim(s) \/ Disclaim(s)
           \/ claims' = [claims EXCEPT ![Home[s]] = None]
    PROVE  claims' \in [Window -> Session \cup {None}]
  <1>1. claims \in [Window -> Session \cup {None}] /\ Home[s] \in Window
    BY ThreadFacts DEF TypeInv, TypeOK
  <1>2. \A x \in Session \cup {None} :
           [claims EXCEPT ![Home[s]] = x] \in [Window -> Session \cup {None}]
    BY ONLY <1>1
  <1>3. claims' = claims \/ \E x \in Session \cup {None} : claims' = [claims EXCEPT ![Home[s]] = x]
    <2>1. CASE Disclaim(s)
      <3>1. claims' = [claims EXCEPT ![Home[s]] = IF claims[Home[s]] = s THEN None ELSE claims[Home[s]]]
        BY <2>1 DEF Disclaim
      <3>2. (IF claims[Home[s]] = s THEN None ELSE claims[Home[s]]) \in Session \cup {None}
        BY <1>1
      <3> QED  BY ONLY <3>1, <3>2
    <2> QED  BY <2>1 DEF Claim
  <1> QED  BY <1>1, <1>2, <1>3

LEMMA ReserveTypes ==
    ASSUME TypeInv, older' \in SUBSET Session, NEW s \in Session, ReserveStep(s)
    PROVE  TypeInv'
  <1> DEFINE asks == IF chain[Home[s]] = <<>> THEN "try" ELSE "reserve"
  <1>1. /\ {asks, "idle", "leave", "judge", "try", "section"} \subseteq Place
        /\ Home[s] \in Window /\ Refused(s) \in Flow /\ Len(chain[Home[s]]) \in Nat
    <2>1. Home[s] \in Window /\ chain[Home[s]] \in Seq(Removal)
      BY ThreadFacts DEF TypeInv, TypeOK
    <2> QED  BY <2>1 DEF Refused, Flow, Place
  <1> HIDE DEF asks
  <1>2. CASE ClaimChecks(s)
    <2>1. /\ UNCHANGED <<alive, lock, guard, claims, chain, finalizing, saw, previous, granted,
                         adapter, terminated, abandoned>>
          /\ \/ UNCHANGED flow /\ behind' = [behind EXCEPT ![s] = Len(chain[Home[s]])]
             \/ flow' = [flow EXCEPT ![s] = Refused(s)] /\ UNCHANGED behind
          /\ Move(s, asks) \/ Move(s, "idle")
      BY <1>2 DEF ClaimChecks, Reserve, AwaitRemovals, Advance, fileVars, asks
    <2>2. at' \in [Thread -> Place] /\ ChainFits'
      BY <1>1, <2>1, MoveTypes
    <2>3. flow' \in [Session -> Flow]
      BY <1>1, <2>1 DEF TypeInv, TypeOK
    <2>4. behind' \in [Session -> Nat]
      BY <1>1, <2>1 DEF TypeInv, TypeOK
    <2>5. TypeOK'
      BY <2>1, <2>2, <2>3, <2>4 DEF TypeInv, TypeOK
    <2> QED  BY <2>2, <2>5 DEF TypeInv
  <1>3. CASE ReserveAsks(s)
    <2>1. /\ UNCHANGED <<alive, fileVars, claims, chain, finalizing, sessionVars, abandoned>>
          /\ Move(s, "try")
      BY <1>3 DEF ReserveAsks
    <2>2. at' \in [Thread -> Place] /\ ChainFits'
      BY <1>1, <2>1, MoveTypes
    <2>3. TypeOK'
      BY <2>1, <2>2 DEF TypeInv, TypeOK, fileVars, sessionVars
    <2> QED  BY <2>2, <2>3 DEF TypeInv
  <1>4. CASE ReserveReads(s)
    <2>1. /\ lock' \in {lock, PendingLock(s)}
          /\ granted' \in {granted, [granted EXCEPT ![s] = TRUE]}
          /\ previous' \in {previous, [previous EXCEPT ![s] = lock]}
          /\ saw' \in {saw, [saw EXCEPT ![s] = lock]}
          /\ Move(s, "leave") \/ Move(s, "judge")
          /\ UNCHANGED <<alive, guard, claims, chain, finalizing, flow, behind, adapter,
                         terminated, abandoned>>
      BY <1>4 DEF ReserveReads
    <2>2. at' \in [Thread -> Place] /\ ChainFits'
      BY <1>1, <2>1, MoveTypes
    <2>3. PendingLock(s) \in Lock
      BY LockTypes
    <2>4. lock \in Lock \cup {NoLock} /\ lock' \in Lock \cup {NoLock}
      BY <2>1, <2>3 DEF TypeInv, TypeOK
    <2>5. granted' \in [Session -> BOOLEAN]
      BY <2>1 DEF TypeInv, TypeOK
    <2>6. previous' \in [Session -> Lock \cup {NoLock}]
      BY <2>1, <2>4, ZenonT(40) DEF TypeInv, TypeOK
    <2>7. saw' \in [Session -> Lock \cup {NoLock}]
      BY <2>1, <2>4, ZenonT(40) DEF TypeInv, TypeOK
    <2>8. TypeOK'
      BY <2>1, <2>2, <2>4, <2>5, <2>6, <2>7 DEF TypeInv, TypeOK
    <2> QED  BY <2>2, <2>8 DEF TypeInv
  <1>5. CASE Judge(s)
    <2>1. /\ lock' \in {lock, NoLock}
          /\ granted' \in {granted, [granted EXCEPT ![s] = FALSE]}
          /\ saw' = [saw EXCEPT ![s] = NoLock]
          /\ Move(s, "leave") \/ Move(s, "section")
          /\ UNCHANGED <<alive, guard, claims, chain, finalizing, flow, behind, previous,
                         adapter, terminated, abandoned>>
      BY <1>5 DEF Judge
    <2>2. at' \in [Thread -> Place] /\ ChainFits'
      BY <1>1, <2>1, MoveTypes
    <2>3. TypeOK'
      BY <2>1, <2>2 DEF TypeInv, TypeOK
    <2> QED  BY <2>2, <2>3 DEF TypeInv
  <1>6. CASE ReserveEnds(s)
    <2>1. /\ flow' \in {[flow EXCEPT ![s] = Refused(s)], [flow EXCEPT ![s] = "reserved"],
                        [flow EXCEPT ![s] = "claimed"]}
          /\ UNCHANGED claims \/ Claim(s)
          /\ granted' = [granted EXCEPT ![s] = FALSE] /\ guard' \in {guard, None}
          /\ Move(s, "idle")
          /\ UNCHANGED <<alive, lock, chain, finalizing, behind, saw, previous, adapter,
                         terminated, abandoned>>
      BY <1>6 DEF ReserveEnds, ReleaseGuard, Settled, Advance
    <2>2. at' \in [Thread -> Place] /\ ChainFits'
      BY <1>1, <2>1, MoveTypes
    <2>3. "reserved" \in Flow /\ "claimed" \in Flow
      BY DEF Flow
    <2>4. flow' \in [Session -> Flow]
      BY <1>1, <2>1, <2>3 DEF TypeInv, TypeOK
    <2>5. claims' \in [Window -> Session \cup {None}]
      BY <2>1, ClaimsType
    <2>6. granted' \in [Session -> BOOLEAN]
      BY <2>1 DEF TypeInv, TypeOK
    <2>7. TypeOK'
      BY <2>1, <2>2, <2>4, <2>5, <2>6 DEF TypeInv, TypeOK
    <2> QED  BY <2>2, <2>7 DEF TypeInv
  <1> QED  BY <1>2, <1>3, <1>4, <1>5, <1>6 DEF ReserveStep

\* What StartsRemoval(s, ...) may start from: the threads as they are, or with
\* session s gone from its guarded section.
LEMMA StartPlaces ==
    ASSUME at \in [Thread -> Place], NEW s \in Session
    PROVE  LET gone == [at EXCEPT ![s] = "idle"] IN
           /\ gone \in [Thread -> Place] /\ gone[s] = "idle"
           /\ \A w \in Window : gone[w] = at[w]
           /\ \A t \in Thread \ {s} : gone[t] = at[t]
  BY ThreadFacts, PidLockAssumption DEF Place

\* Where the threads and the chains are after a step of a session.
MovesFit ==
    /\ at' \in [Thread -> Place] /\ ChainFits' /\ chain' \in [Window -> Seq(Removal)]
    /\ abandoned' \in [Session -> {"no", "asked", "done", "failed"}]

LEMMA StayTypes == ASSUME TypeInv, UNCHANGED <<at, chain, abandoned>> PROVE MovesFit
  <1>1. ChainFits'
    BY SameChain DEF ChainStays
  <1> QED  BY <1>1 DEF TypeInv, TypeOK, MovesFit

LEMMA QueueTypes ==
    ASSUME TypeInv, NEW s \in Session, NEW queued \in BOOLEAN, QueueRemoval(s, queued),
           \/ at' = StartsRemoval(s, at)
           \/ at' = StartsRemoval(s, [at EXCEPT ![s] = "idle"])
    PROVE  MovesFit
  <1>1. at \in [Thread -> Place]
    BY DEF TypeInv, TypeOK
  <1>2. PICK places \in [Thread -> Place] :
           at' = StartsRemoval(s, places) /\ \A w \in Window : places[w] = at[w]
    BY <1>1, StartPlaces
  <1>3. at' \in [Thread -> Place]
    BY <1>2, RemovalStarted
  <1> QED  BY <1>2, <1>3, QueueFits DEF MovesFit

LEMMA FinalizationTypes ==
    ASSUME TypeInv, NEW s \in Session, QueueFinalization(s)
    PROVE  /\ MovesFit /\ finalizing' \in SUBSET Session
           /\ claims' \in [Window -> Session \cup {None}]
  <1>1. finalizing' \in SUBSET Session
    BY DEF QueueFinalization, TypeInv, TypeOK
  <1>2. CASE s \in finalizing
    <2>1. UNCHANGED <<at, claims, chain, abandoned>>
      BY <1>2 DEF QueueFinalization, NothingAbandoned
    <2> QED  BY <1>1, <2>1, StayTypes, ClaimsType
  <1>3. CASE s \notin finalizing
    <2>1. Disclaim(s) /\ QueueRemoval(s, TRUE) /\ at' = StartsRemoval(s, at)
      BY <1>3 DEF QueueFinalization, AbandonPidOwnership
    <2> QED  BY <1>1, <2>1, QueueTypes, ClaimsType
  <1> QED  BY <1>2, <1>3

LEMMA StartTypes ==
    ASSUME TypeInv, older' \in SUBSET Session, NEW s \in Session, StartStep(s)
    PROVE  TypeInv'
  <1>1. /\ {"leave", "judge", "idle", "try"} \subseteq Place
        /\ {"checked", "rejected", "stopping", "promoting", "active"} \subseteq Flow
    BY DEF Place, Flow
  <1>2. CASE CleanReads(s)
    <2>1. /\ saw' = [saw EXCEPT ![s] = lock]
          /\ Move(s, "leave") \/ Move(s, "judge")
          /\ UNCHANGED <<alive, lock, guard, claims, chain, finalizing, flow, behind, previous,
                         granted, adapter, terminated, abandoned>>
      BY <1>2 DEF CleanReads, fileVars
    <2>2. at' \in [Thread -> Place] /\ ChainFits'
      BY <1>1, <2>1, MoveTypes
    <2>3. lock \in Lock \cup {NoLock}
      BY DEF TypeInv, TypeOK
    <2>4. saw' \in [Session -> Lock \cup {NoLock}]
      BY <2>1, <2>3 DEF TypeInv, TypeOK
    <2>5. TypeOK'
      BY <2>1, <2>2, <2>4 DEF TypeInv, TypeOK
    <2> QED  BY <2>2, <2>5 DEF TypeInv
  <1>3. CASE CleanEnds(s) \/ ReleaseEnds(s)
    <2>1. /\ flow' \in {[flow EXCEPT ![s] = "checked"], [flow EXCEPT ![s] = "rejected"]}
          /\ guard' \in {guard, None} /\ Move(s, "idle")
          /\ UNCHANGED <<alive, lock, claims, chain, finalizing, behind, saw, previous, granted,
                         adapter, terminated, abandoned>>
      BY <1>3 DEF CleanEnds, ReleaseEnds, ReleaseGuard, Advance
    <2>2. at' \in [Thread -> Place] /\ ChainFits'
      BY <1>1, <2>1, MoveTypes
    <2>3. flow' \in [Session -> Flow]
      BY <1>1, <2>1 DEF TypeInv, TypeOK
    <2>4. TypeOK'
      BY <2>1, <2>2, <2>3 DEF TypeInv, TypeOK
    <2> QED  BY <2>2, <2>4 DEF TypeInv
  <1>4. CASE ReleaseClaim(s)
    <2>1. /\ lock' \in {lock, previous[s]} /\ previous' = [previous EXCEPT ![s] = NoLock]
          /\ Disclaim(s) /\ Move(s, "leave")
          /\ UNCHANGED <<alive, guard, chain, finalizing, flow, behind, saw, granted, adapter,
                         terminated, abandoned>>
      BY <1>4 DEF ReleaseClaim
    <2>2. at' \in [Thread -> Place] /\ ChainFits'
      BY <1>1, <2>1, MoveTypes
    <2>3. previous' \in [Session -> Lock \cup {NoLock}] /\ previous[s] \in Lock \cup {NoLock}
      BY <2>1 DEF TypeInv, TypeOK
    <2>4. claims' \in [Window -> Session \cup {None}]
      BY <2>1, ClaimsType
    <2>5. lock' \in Lock \cup {NoLock}
      BY <2>1, <2>3 DEF TypeInv, TypeOK
    <2>6. TypeOK'
      BY <2>1, <2>2, <2>3, <2>4, <2>5 DEF TypeInv, TypeOK
    <2> QED  BY <2>2, <2>6 DEF TypeInv
  <1>5. CASE PromoteLock(s)
    <2>1. /\ granted' = [granted EXCEPT ![s] = MayPromote(s)]
          /\ lock' \in {lock, ActiveLock(s)} /\ Move(s, "leave")
          /\ UNCHANGED <<alive, guard, claims, chain, finalizing, flow, behind, saw, previous,
                         adapter, terminated, abandoned>>
      BY <1>5 DEF PromoteLock
    <2>2. at' \in [Thread -> Place] /\ ChainFits'
      BY <1>1, <2>1, MoveTypes
    <2>3. MayPromote(s) \in BOOLEAN
      BY DEF MayPromote
    <2>4. granted' \in [Session -> BOOLEAN]
      BY <2>1, <2>3 DEF TypeInv, TypeOK
    <2>5. lock' \in Lock \cup {NoLock}
      BY <2>1, LockTypes DEF TypeInv, TypeOK
    <2>6. TypeOK'
      BY <2>1, <2>2, <2>4, <2>5 DEF TypeInv, TypeOK
    <2> QED  BY <2>2, <2>6 DEF TypeInv
  <1>6. CASE ReclaimEnds(s) \/ PromoteEnds(s)
    <2>1. /\ flow' \in {[flow EXCEPT ![s] = "stopping"], [flow EXCEPT ![s] = "promoting"],
                        [flow EXCEPT ![s] = "active"]}
          /\ guard' \in {guard, None} /\ granted' = [granted EXCEPT ![s] = FALSE]
          /\ UNCHANGED <<alive, lock, finalizing, behind, saw, previous, adapter, terminated>>
      BY <1>6 DEF ReclaimEnds, PromoteEnds, ReleaseGuard, Settled, Advance
    <2>2. \/ UNCHANGED claims \/ Claim(s) \/ Disclaim(s)
          \/ claims' = [claims EXCEPT ![Home[s]] = None]
      BY <1>6 DEF ReclaimEnds, PromoteEnds, NothingAbandoned, AbandonPidOwnership
    <2>3. \/ (Move(s, "idle") \/ Move(s, "try")) /\ UNCHANGED <<chain, abandoned>>
          \/ /\ at' = StartsRemoval(s, [at EXCEPT ![s] = "idle"])
             /\ QueueRemoval(s, FALSE)
      BY <1>6 DEF ReclaimEnds, PromoteEnds, NothingAbandoned, AbandonPidOwnership
    <2>4. MovesFit
      BY <1>1, <2>3, MoveTypes, QueueTypes DEF MovesFit
    <2>5. flow' \in [Session -> Flow]
      BY <1>1, <2>1 DEF TypeInv, TypeOK
    <2>6. claims' \in [Window -> Session \cup {None}]
      BY <2>2, ClaimsType
    <2>7. granted' \in [Session -> BOOLEAN]
      BY <2>1 DEF TypeInv, TypeOK
    <2>8. TypeOK'
      BY <2>1, <2>4, <2>5, <2>6, <2>7 DEF TypeInv, TypeOK, MovesFit
    <2> QED  BY <2>4, <2>8 DEF TypeInv, MovesFit
  <1> QED  BY <1>2, <1>3, <1>4, <1>5, <1>6 DEF StartStep

LEMMA EventTypes ==
    ASSUME TypeInv, older' \in SUBSET Session, NEW s \in Session, SessionEvent(s)
    PROVE  TypeInv'
  <1> DEFINE asks == IF chain[Home[s]] = <<>> THEN "try" ELSE "reserve"
  <1>1. /\ {asks, "idle", "try", "await"} \subseteq Place
        /\ Len(chain[Home[s]]) \in Nat
        /\ {"checked", "over", "cleaning", "reserving", "claiming", "ready", "releasing", "stopping",
            "reclaiming", "unlocked", "rejected"} \subseteq Flow
    <2>1. Home[s] \in Window /\ chain[Home[s]] \in Seq(Removal)
      BY ThreadFacts DEF TypeInv, TypeOK
    <2> QED  BY <2>1 DEF Flow, Place
  <1> HIDE DEF asks
  <1>2. CASE Preflight(s) \/ Attach(s) \/ CreateDescriptor(s) \/ GivesUp(s)
    <2>1. /\ UNCHANGED <<alive, lock, guard, claims, chain, finalizing, saw, previous, granted,
                         adapter, terminated, abandoned>>
          /\ \/ UNCHANGED at \/ Move(s, "idle") \/ Move(s, "try") \/ Move(s, "await")
             \/ Move(s, asks)
          /\ UNCHANGED behind \/ behind' = [behind EXCEPT ![s] = Len(chain[Home[s]])]
      BY <1>2 DEF Preflight, Attach, CreateDescriptor, GivesUp, Reserve, AwaitRemovals, fileVars,
                  asks
    <2>2. \E f \in Flow : flow' = [flow EXCEPT ![s] = f]
      BY <1>1, <1>2 DEF Preflight, Attach, CreateDescriptor, GivesUp, Advance
    <2>3. MovesFit
      BY <1>1, <2>1, MoveTypes, StayTypes DEF MovesFit
    <2>4. flow' \in [Session -> Flow]
      BY <2>2 DEF TypeInv, TypeOK
    <2>5. behind' \in [Session -> Nat]
      BY <1>1, <2>1 DEF TypeInv, TypeOK
    <2>6. TypeOK'
      BY <2>1, <2>3, <2>4, <2>5 DEF TypeInv, TypeOK, MovesFit
    <2> QED  BY <2>3, <2>6 DEF TypeInv, MovesFit
  <1>3. CASE ActivationSucceeds(s) \/ ActivationFails(s)
    <2>1. /\ UNCHANGED <<alive, lock, guard, claims, chain, finalizing, behind, saw, granted,
                         adapter, terminated, abandoned>>
          /\ UNCHANGED at \/ Move(s, "try")
          /\ UNCHANGED previous \/ previous' = [previous EXCEPT ![s] = NoLock]
          /\ flow' \in {[flow EXCEPT ![s] = "ready"], [flow EXCEPT ![s] = "releasing"]}
      BY <1>3 DEF ActivationSucceeds, ActivationFails, fileVars, Advance
    <2>2. MovesFit
      BY <1>1, <2>1, MoveTypes, StayTypes DEF MovesFit
    <2>3. flow' \in [Session -> Flow]
      BY <1>1, <2>1, ZenonT(40) DEF TypeInv, TypeOK
    <2>4. previous' \in [Session -> Lock \cup {NoLock}]
      BY <2>1 DEF TypeInv, TypeOK
    <2>5. TypeOK'
      BY <2>1, <2>2, <2>3, <2>4 DEF TypeInv, TypeOK, MovesFit
    <2> QED  BY <2>2, <2>5 DEF TypeInv, MovesFit
  <1>4. CASE StartRejected(s) \/ StartEvent(s)
    <2>1. /\ UNCHANGED <<alive, lock, guard, finalizing, saw, previous, granted, adapter,
                         terminated>>
          /\ flow' \in {[flow EXCEPT ![s] = "over"], [flow EXCEPT ![s] = "stopping"],
                        [flow EXCEPT ![s] = "reclaiming"]}
          /\ UNCHANGED behind \/ behind' = [behind EXCEPT ![s] = Len(chain[Home[s]])]
          /\ UNCHANGED claims \/ Disclaim(s)
          /\ \/ QueueRemoval(s, FALSE) /\ at' = StartsRemoval(s, at)
             \/ UNCHANGED <<chain, abandoned>> /\ Move(s, "await")
      BY <1>4 DEF StartRejected, StartEvent, AbandonPidOwnership, NothingAbandoned, AwaitRemovals,
                  fileVars, Advance
    <2>2. MovesFit
      BY <1>1, <2>1, MoveTypes, QueueTypes DEF MovesFit
    <2>3. flow' \in [Session -> Flow]
      BY <1>1, <2>1, ZenonT(40) DEF TypeInv, TypeOK
    <2>4. behind' \in [Session -> Nat]
      BY <1>1, <2>1, ZenonT(40) DEF TypeInv, TypeOK
    <2>5. claims' \in [Window -> Session \cup {None}]
      BY <2>1, ClaimsType
    <2>6. TypeOK'
      BY <2>1, <2>2, <2>3, <2>4, <2>5 DEF TypeInv, TypeOK, MovesFit
    <2> QED  BY <2>2, <2>6 DEF TypeInv, MovesFit
  <1>5. CASE AdapterEnds(s) \/ TerminateEvent(s)
    <2>1. /\ UNCHANGED <<alive, lock, guard, flow, behind, saw, previous, granted>>
          /\ QueueFinalization(s)
          /\ UNCHANGED adapter \/ \E o \in {"failed", "ended"} : adapter' = [adapter EXCEPT ![s] = o]
          /\ UNCHANGED terminated \/ terminated' = terminated \cup {s}
      BY <1>5 DEF AdapterEnds, TerminateEvent, fileVars
    <2>2. /\ MovesFit /\ finalizing' \in SUBSET Session
          /\ claims' \in [Window -> Session \cup {None}]
      BY <2>1, FinalizationTypes
    <2>3. adapter' \in [Session -> {"starting", "failed", "ended"}]
      BY <2>1 DEF TypeInv, TypeOK
    <2>4. terminated' \in SUBSET Session
      BY <2>1 DEF TypeInv, TypeOK
    <2>5. TypeOK'
      BY <2>1, <2>2, <2>3, <2>4 DEF TypeInv, TypeOK, MovesFit
    <2> QED  BY <2>2, <2>5 DEF TypeInv, MovesFit
  <1>6. CASE FinalizationEnds(s)
    <2>1. /\ UNCHANGED <<alive, lock, guard, claims, chain, flow, behind, saw, previous, granted,
                         adapter, terminated, at, abandoned>>
          /\ finalizing' = finalizing \ {s}
      BY <1>6 DEF FinalizationEnds, fileVars, sessionVars
    <2>2. MovesFit
      BY <2>1, StayTypes
    <2>3. TypeOK'
      BY <2>1 DEF TypeInv, TypeOK
    <2> QED  BY <2>2, <2>3 DEF TypeInv, MovesFit
  <1> QED  BY <1>2, <1>3, <1>4, <1>5, <1>6 DEF SessionEvent

\* The sessions of a window that dies are over; the others keep their removals.
LEMMA DeathTypes ==
    ASSUME TypeInv, older' \in SUBSET Session, NEW w \in Window, WindowDies(w)
    PROVE  TypeInv'
  <1>1. /\ alive' \in SUBSET Window /\ UNCHANGED <<lock, guard>>
        /\ finalizing' \in SUBSET Session /\ terminated' \in SUBSET Session
    BY DEF WindowDies, TypeInv, TypeOK, fileVars
  <1>2. claims' \in [Window -> Session \cup {None}]
    BY DEF WindowDies, TypeInv, TypeOK
  <1>3. /\ chain' \in [Window -> Seq(Removal)] /\ chain'[w] = <<>>
        /\ \A v \in Window \ {w} : chain'[v] = chain[v]
    <2>1. chain \in [Window -> Seq(Removal)] /\ chain' = [chain EXCEPT ![w] = <<>>]
      BY DEF WindowDies, TypeInv, TypeOK
    <2>2. <<>> \in Seq(Removal)
      OBVIOUS
    <2> QED  BY ONLY <2>1, <2>2, w \in Window, OneChanged
  <1>4. flow' \in [Session -> Flow]
    BY DEF WindowDies, TypeInv, TypeOK, Flow
  <1>5. at' \in [Thread -> Place] /\ \A v \in Window : at'[v] = IF v = w THEN "idle" ELSE at[v]
    BY ThreadFacts DEF WindowDies, TypeInv, TypeOK, Place
  <1>6. behind' \in [Session -> Nat]
    BY DEF WindowDies, TypeInv, TypeOK
  <1>7. saw' \in [Session -> Lock \cup {NoLock}]
    BY DEF WindowDies, TypeInv, TypeOK
  <1>8. previous' \in [Session -> Lock \cup {NoLock}]
    BY DEF WindowDies, TypeInv, TypeOK
  <1>9. granted' \in [Session -> BOOLEAN]
    BY DEF WindowDies, TypeInv, TypeOK
  <1>10. adapter' \in [Session -> {"starting", "failed", "ended"}]
    BY DEF WindowDies, TypeInv, TypeOK
  <1>11. /\ abandoned' \in [Session -> {"no", "asked", "done", "failed"}]
         /\ \A s \in Session : Home[s] # w => abandoned'[s] = abandoned[s]
    BY DEF WindowDies, TypeInv, TypeOK
  <1>12. TypeOK'
    BY <1>1, <1>2, <1>3, <1>4, <1>5, <1>6, <1>7, <1>8, <1>9, <1>10, <1>11 DEF TypeInv, TypeOK
  <1>13. \A v \in Window : \A i \in 1..Len(chain[v]) :
            /\ chain[v][i].session \in Session /\ Home[chain[v][i].session] = v
            /\ abandoned[chain[v][i].session] # "no"
    BY ChainSessions DEF TypeInv, ChainFits
  <1>14. /\ \A v \in Window : at[v] \in {"idle", "try", "guard", "unlink", "section", "leave"}
         /\ \A v \in Window : at[v] # "idle" => chain[v] # <<>>
    BY DEF TypeInv, ChainFits
  <1>15. \A v \in Window : at'[v] # "idle" => chain'[v] # <<>>
    BY <1>3, <1>5, <1>14
  <1>16. \A v \in Window : at'[v] \in {"idle", "try", "guard", "unlink", "section", "leave"}
    BY <1>5, <1>14
  <1>17. \A v \in Window : \A i \in 1..Len(chain'[v]) :
            Home[chain'[v][i].session] = v /\ abandoned'[chain'[v][i].session] # "no"
    <2>1. Len(chain'[w]) = 0
      BY <1>3
    <2>2. ASSUME NEW v \in Window \ {w}, NEW i \in 1..Len(chain[v])
          PROVE  Home[chain[v][i].session] = v /\ abandoned'[chain[v][i].session] # "no"
      BY <1>11, <1>13
    <2>3. \A v \in Window \ {w} : chain'[v] = chain[v]
      BY <1>3
    <2>4. 1..Len(chain'[w]) = {}
      BY <2>1
    <2> QED  BY ONLY <2>2, <2>3, <2>4
  <1>18. ChainFits'
    BY <1>15, <1>16, <1>17 DEF ChainFits
  <1> QED  BY <1>12, <1>18 DEF TypeInv

LEMMA NextTypes == TypeInv /\ [Next]_vars => TypeInv'
  <1> SUFFICES ASSUME TypeInv, [Next]_vars PROVE TypeInv'
    OBVIOUS
  <1>1. CASE UNCHANGED vars
    <2>1. ChainFits'
      BY <1>1 DEF TypeInv, ChainFits, vars
    <2>2. TypeOK'
      BY <1>1 DEF TypeInv, TypeOK, vars, fileVars, sessionVars
    <2> QED  BY <2>1, <2>2 DEF TypeInv
  <1>2. CASE Next
    <2>1. Step /\ older' \in SUBSET Session
      BY <1>2, OlderType DEF Next, TypeInv
    <2>2. ASSUME NEW t \in Thread, GuardStep(t) PROVE TypeInv'
      BY <2>1, <2>2, GuardTypes
    <2>3. ASSUME NEW s \in Session, ReserveStep(s) \/ StartStep(s) \/ SessionEvent(s)
          PROVE  TypeInv'
      BY <2>1, <2>3, ReserveTypes, StartTypes, EventTypes
    <2>4. ASSUME NEW w \in Window, RemovalStep(w) \/ RemovalGivesUp(w) \/ WindowDies(w)
          PROVE  TypeInv'
      BY <2>1, <2>4, RemovalTypes, DeathTypes
    <2>5. CASE PendingExpires
      <3>1. /\ lock' = [lock EXCEPT !.expired = TRUE] /\ lock \in Lock
            /\ UNCHANGED <<alive, guard, claims, chain, finalizing, sessionVars, at, abandoned>>
        BY <2>5, LockTypes DEF PendingExpires, TypeInv, TypeOK
      <3>2. lock' \in Lock
        BY <3>1, LockTypes
      <3>3. MovesFit
        BY <3>1, StayTypes
      <3>4. TypeOK'
        BY <2>1, <3>1, <3>2, <3>3 DEF TypeInv, TypeOK, MovesFit, sessionVars
      <3> QED  BY <3>3, <3>4 DEF TypeInv, MovesFit
    <2> QED  BY <2>1, <2>2, <2>3, <2>4, <2>5 DEF Step, SessionEvent
  <1> QED  BY <1>1, <1>2

\* The files, the memories and the activities of the windows have their types:
\* whatever windows die and wherever they die, a removal that is under way is of
\* its window's own chain.
THEOREM TypeCorrect == Spec => []TypeOK
  <1>1. Init => TypeInv
    BY InitType
  <1>2. TypeInv /\ [Next]_vars => TypeInv'
    BY NextTypes
  <1>3. TypeInv => TypeOK
    BY DEF TypeInv
  <1> QED  BY <1>1, <1>2, <1>3, PTL DEF Spec

-----------------------------------------------------------------------------
(* Sessions, their claims and their locks *)

\* Before the factory's claim has been granted.
Early == {"new", "cleaning", "checked", "reserving", "reserved", "claiming"}

\* A claim that has passed the check in memory, and does not look there again.
Checked(t) == flow[t] \in {"claiming", "reclaiming"} /\ at[t] \notin {"idle", "await"}

\* Session s has claimed the target, or its factory is about to enter that.
Owns(s) ==
    /\ abandoned[s] = "no"
    /\ Claiming(s) \/ (flow[s] = "claiming" /\ at[s] = "leave" /\ granted[s])

Holds(s) == lock.owner = s /\ lock.named /\ ~lock.expired

PlaceFits(s) ==
    /\ at[s] # "idle" => flow[s] \in Reserving \cup {"cleaning", "releasing", "promoting"}
    /\ at[s] \in Waiting => flow[s] \in Reserving
    /\ at[s] = "judge" => flow[s] \in Reserving \cup {"cleaning"}
    /\ flow[s] # "over" => Home[s] \in alive
    /\ previous[s] # NoLock => previous[s].owner = s

LockFits(s) ==
    /\ at[s] = "judge" => saw[s] = lock
    /\ at[s] = "leave" /\ granted[s] /\ flow[s] \in Reserving => lock = PendingLock(s)
    /\ at[s] = "leave" /\ granted[s] /\ flow[s] = "promoting" => lock = ActiveLock(s)
    /\ lock.owner = s /\ lock.named /\ flow[s] \in Early
         => flow[s] = "claiming" /\ at[s] = "leave" /\ granted[s]

ActiveFits(s) == flow[s] = "active" /\ abandoned[s] = "no" => lock = ActiveLock(s)

ClaimFits(s) == Claiming(s) => claims[Home[s]] = s

SessionFits(s) == PlaceFits(s) /\ LockFits(s) /\ ActiveFits(s) /\ ClaimFits(s)

\* A claim of the same window that has passed the check in memory is kept out by
\* the lock, which is live: active, or, as long as the claim may still sleep,
\* not older than its sleep.
KeptOut ==
    \A s, t \in Session :
        Owns(s) /\ Checked(t) /\ Home[t] = Home[s] /\ t # s =>
          \/ at[t] = "leave" /\ ~granted[t]
          \/ /\ at[t] # "leave" /\ Holds(s)
             /\ at[t] \in {"section", "judge"} \/ lock.phase = "active" \/ t \in older

SessionInv == (\A s \in Session : SessionFits(s)) /\ KeptOut

LockInv == TypeInv /\ GuardInv /\ SessionInv

\* A step that leaves all sessions but x alone.
Others(x) ==
    \A k \in Session \ {x} :
        /\ flow'[k] = flow[k] /\ at'[k] = at[k] /\ granted'[k] = granted[k]
        /\ saw'[k] = saw[k] /\ previous'[k] = previous[k]
        /\ abandoned'[k] = "no" <=> abandoned[k] = "no"

ClaimsKept(x) == \A k \in Session \ {x} : Claiming(k) => claims'[Home[k]] = k

\* Session s passes the check in memory, goes on towards the lock, leaves with
\* a refusal or does not move.
Passes(s) ==
    \/ ~Checked(s)'
    \/ \A k \in Session \ {s} : Home[k] = Home[s] => ~Owns(k)
    \/ UNCHANGED <<flow[s], at[s], granted[s]>>
    \/ /\ Checked(s) /\ at[s] \in {"reserve", "try", "guard"}
       /\ at'[s] \in {"reserve", "try", "guard", "section"}
    \/ Checked(s) /\ at[s] \in {"section", "judge"} /\ at'[s] = "judge"
    \/ Checked(s) /\ at[s] = "judge" /\ at'[s] = "leave" /\ ~granted'[s]

LEMMA OthersKeep ==
    ASSUME LockInv, NEW x \in Thread, Others(x), UNCHANGED <<alive, lock>>, ClaimsKept(x),
           NEW k \in Session \ {x}
    PROVE  SessionFits(k)'
  <1>1. /\ flow'[k] = flow[k] /\ at'[k] = at[k] /\ granted'[k] = granted[k]
        /\ saw'[k] = saw[k] /\ previous'[k] = previous[k]
        /\ abandoned'[k] = "no" <=> abandoned[k] = "no"
        /\ SessionFits(k)
    BY DEF Others, LockInv, SessionInv
  <1>2. PlaceFits(k)'
    BY <1>1 DEF SessionFits, PlaceFits
  <1>3. LockFits(k)'
    BY <1>1 DEF SessionFits, LockFits, PendingLock, ActiveLock
  <1>4. ActiveFits(k)'
    BY <1>1 DEF SessionFits, ActiveFits, ActiveLock
  <1>5. ClaimFits(k)'
    BY <1>1 DEF SessionFits, ClaimFits, Claiming, ClaimsKept
  <1> QED  BY <1>2, <1>3, <1>4, <1>5 DEF SessionFits

\* Whoever sleeps for a lock that was there before goes on doing so.
LEMMA SleepGoesOn ==
    ASSUME SleepIsShort, lock' = lock, NEW t \in Session, t \in older,
           at'[t] \in {"await", "reserve", "guard", "try", "unlink"}
    PROVE  t \in older'
  BY DEF SleepIsShort, Asleep

LEMMA KeptOutStays ==
    ASSUME LockInv, SleepIsShort, NEW x \in Thread, Others(x), UNCHANGED lock,
           x \in Session => (Owns(x)' => Owns(x)) /\ Passes(x)
    PROVE  KeptOut'
  <1> SUFFICES ASSUME NEW s \in Session, NEW t \in Session,
                      Owns(s)', Checked(t)', Home[t] = Home[s], t # s
               PROVE  \/ at'[t] = "leave" /\ ~granted'[t]
                      \/ /\ at'[t] # "leave" /\ Holds(s)
                         /\ at'[t] \in {"section", "judge"} \/ lock.phase = "active" \/ t \in older'
    BY DEF KeptOut, Holds
  <1>1. Owns(s)
    <2>1. CASE s = x
      BY <2>1
    <2>2. CASE s # x
      BY <2>2 DEF Others, Owns, Claiming
    <2> QED  BY <2>1, <2>2
  <1>2. ASSUME Checked(t)
        PROVE  \/ at[t] = "leave" /\ ~granted[t]
               \/ /\ at[t] # "leave" /\ Holds(s)
                  /\ at[t] \in {"section", "judge"} \/ lock.phase = "active" \/ t \in older
    BY <1>1, <1>2 DEF LockInv, SessionInv, KeptOut
  <1>3. t \in Thread /\ at[t] \in Place
    BY ThreadFacts DEF LockInv, TypeInv, TypeOK
  <1>4. CASE t # x \/ UNCHANGED <<flow[t], at[t], granted[t]>>
    <2>1. flow'[t] = flow[t] /\ at'[t] = at[t] /\ granted'[t] = granted[t]
      BY <1>4 DEF Others
    <2>2. Checked(t)
      BY <2>1 DEF Checked
    <2>3. at[t] \in {"reserve", "guard", "try", "unlink", "section", "judge", "leave"}
      BY <1>3, <2>2 DEF Checked, Place
    <2> QED  BY <1>2, <2>1, <2>2, <2>3, SleepGoesOn
  <1>5. CASE /\ Checked(t) /\ at[t] \in {"reserve", "try", "guard"}
             /\ at'[t] \in {"reserve", "try", "guard", "section"}
    BY <1>2, <1>5, SleepGoesOn
  <1>6. CASE \/ Checked(t) /\ at[t] \in {"section", "judge"} /\ at'[t] = "judge"
             \/ Checked(t) /\ at[t] = "judge" /\ at'[t] = "leave" /\ ~granted'[t]
    BY <1>2, <1>6
  <1>7. CASE t = x /\ \A k \in Session \ {x} : Home[k] = Home[x] => ~Owns(k)
    BY <1>1, <1>7
  <1> QED  BY <1>4, <1>5, <1>6, <1>7 DEF Passes

\* A step that leaves the lock alone, and moves one session at most.
LEMMA QuietStep ==
    ASSUME LockInv, SleepIsShort, NEW x \in Thread, Others(x), UNCHANGED <<alive, lock>>,
           ClaimsKept(x), x \in Session => SessionFits(x)' /\ (Owns(x)' => Owns(x)) /\ Passes(x)
    PROVE  SessionInv'
  <1>1. KeptOut'
    BY KeptOutStays
  <1>2. \A k \in Session \ {x} : SessionFits(k)'
    BY OthersKeep
  <1> QED  BY <1>1, <1>2 DEF SessionInv

\* What happens to the claims of the other sessions.
LEMMA ClaimsAlone == ASSUME LockInv, UNCHANGED claims, NEW x PROVE ClaimsKept(x)
  BY DEF LockInv, SessionInv, SessionFits, ClaimFits, ClaimsKept

LEMMA ClaimsDropped ==
    ASSUME LockInv, NEW s \in Session, Disclaim(s)
    PROVE  ClaimsKept(s) /\ claims'[Home[s]] # s
  <1>1. /\ claims \in [Window -> Session \cup {None}] /\ Home[s] \in Window /\ s # None
        /\ claims' = [claims EXCEPT ![Home[s]] = IF claims[Home[s]] = s THEN None ELSE claims[Home[s]]]
    BY ThreadFacts, PidLockAssumption DEF LockInv, TypeInv, TypeOK, Disclaim
  <1>2. /\ \A w \in Window : claims[w] # s => claims'[w] = claims[w]
        /\ claims'[Home[s]] # s
    BY ONLY <1>1
  <1>3. \A k \in Session : Home[k] \in Window /\ (Claiming(k) => claims[Home[k]] = k)
    BY ThreadFacts DEF LockInv, SessionInv, SessionFits, ClaimFits
  <1> QED  BY <1>2, <1>3 DEF ClaimsKept

\* A session takes the target, or gives it up with nobody else claiming it.
LEMMA ClaimsTaken ==
    ASSUME LockInv, NEW s \in Session, Checked(s), at[s] = "leave", granted[s],
           Claim(s) \/ claims' = [claims EXCEPT ![Home[s]] = None]
    PROVE  ClaimsKept(s) /\ (Claim(s) => claims'[Home[s]] = s)
  <1>1. \A k \in Session \ {s} : Home[k] = Home[s] => ~Claiming(k)
    <2>1. \A k \in Session \ {s} : Home[k] = Home[s] => ~Owns(k)
      BY DEF LockInv, SessionInv, KeptOut
    <2> QED  BY <2>1 DEF Owns, Claiming
  <1>2. claims \in [Window -> Session \cup {None}] /\ Home[s] \in Window
    BY ThreadFacts DEF LockInv, TypeInv, TypeOK
  <1>3. /\ \A w \in Window \ {Home[s]} : claims'[w] = claims[w]
        /\ Claim(s) => claims'[Home[s]] = s
    BY <1>2 DEF Claim
  <1>4. \A k \in Session : Home[k] \in Window /\ (Claiming(k) => claims[Home[k]] = k)
    BY ThreadFacts DEF LockInv, SessionInv, SessionFits, ClaimFits
  <1> QED  BY <1>1, <1>3, <1>4 DEF ClaimsKept

\* A step that moves thread t, and changes nothing else of the sessions.
LEMMA OnlyMoves ==
    ASSUME LockInv, NEW t \in Thread, NEW place, Move(t, place),
           UNCHANGED <<flow, granted, saw, previous, abandoned>>
    PROVE  Others(t) /\ at'[t] = place
  <1>1. at \in [Thread -> Place]
    BY DEF LockInv, TypeInv, TypeOK
  <1> QED  BY <1>1, ThreadFacts DEF Move, Others

LEMMA GuardSessions ==
    ASSUME LockInv, SleepIsShort, NEW t \in Thread, GuardStep(t)
    PROVE  SessionInv'
  <1>1. ~GuardIsStale /\ at[t] # "unlink"
    BY DEF LockInv, GuardInv, GuardIsHonoured, NobodyUnlinks, GuardIsStale
  <1>2. /\ at[t] \in {"try", "guard"} /\ (Move(t, "section") \/ Move(t, "guard"))
        /\ UNCHANGED <<alive, lock, claims, flow, granted, saw, previous, abandoned>>
    BY <1>1 DEF GuardStep, AcquireGuard, SeeStaleGuard, SeeHeldGuard, UnlinkGuard, Polls,
                GuardUnused, sessionVars
  <1>3. Others(t) /\ at'[t] \in {"section", "guard"}
    BY <1>2, OnlyMoves
  <1>4. ASSUME t \in Session PROVE SessionFits(t)' /\ (Owns(t)' => Owns(t)) /\ Passes(t)
    <2>1. SessionFits(t)
      BY <1>4 DEF LockInv, SessionInv
    <2>2. PlaceFits(t)'
      BY <1>2, <1>3, <2>1 DEF SessionFits, PlaceFits, Waiting
    <2>3. LockFits(t)'
      BY <1>2, <1>3, <2>1 DEF SessionFits, LockFits
    <2>4. ActiveFits(t)' /\ ClaimFits(t)'
      BY <1>2, <2>1 DEF SessionFits, ActiveFits, ClaimFits, Claiming, ActiveLock
    <2>5. (Owns(t)' => Owns(t)) /\ Passes(t)
      BY <1>2, <1>3 DEF Owns, Claiming, Passes, Checked
    <2> QED  BY <2>2, <2>3, <2>4, <2>5 DEF SessionFits
  <1> QED  BY <1>2, <1>3, <1>4, ClaimsAlone, QuietStep

\* The session whose ownership a removal that is under way removes.
LEMMA HeadAbandoned ==
    ASSUME LockInv, NEW w \in Window, at[w] # "idle"
    PROVE  LET s == Head(chain[w]).session IN
           /\ s \in Session /\ Home[s] = w /\ abandoned[s] # "no"
           /\ \A x \in {"done", "failed"} : \A k \in Session :
                 [abandoned EXCEPT ![s] = x][k] = "no" <=> abandoned[k] = "no"
  <1> DEFINE s == Head(chain[w]).session
  <1>1. chain[w] # <<>> /\ chain[w] \in Seq(Removal)
    BY DEF LockInv, TypeInv, TypeOK, ChainFits
  <1>2. Head(chain[w]) = chain[w][1] /\ 1 \in 1..Len(chain[w])
    BY <1>1, TailFacts
  <1>3. s \in Session /\ Home[s] = w /\ abandoned[s] # "no"
    BY <1>2, ChainSessions DEF LockInv, TypeInv, ChainFits
  <1>4. abandoned \in [Session -> {"no", "asked", "done", "failed"}]
    BY DEF LockInv, TypeInv, TypeOK
  <1> HIDE DEF s
  <1> QED  BY <1>3, <1>4 DEF s

\* A removal that settles, and the sessions behind it.
LEMMA SettledSessions ==
    ASSUME LockInv, SleepIsShort, NEW w \in Window, FinishRemoval(w) \/ RemovalGivesUp(w)
    PROVE  SessionInv'
  <1>1. /\ UNCHANGED <<alive, lock, claims, flow, granted, saw, previous>>
        /\ Move(w, IF Len(chain[w]) = 1 THEN "idle" ELSE "try")
        /\ at[w] # "idle"
    BY DEF FinishRemoval, RemovalGivesUp, RemovalSettles
  <1>2. w \in Thread /\ w \notin Session /\ at \in [Thread -> Place]
    BY ThreadFacts, PidLockAssumption DEF LockInv, TypeInv, TypeOK
  <1> DEFINE next == IF Len(chain[w]) = 1 THEN "idle" ELSE "try"
  <1>3. at' = [at EXCEPT ![w] = next]
    BY <1>1 DEF Move
  <1> HIDE DEF next
  <1>4. \A k \in Session : at'[k] = at[k]
    BY <1>2, <1>3, ThreadFacts
  <1>5. \A k \in Session : abandoned'[k] = "no" <=> abandoned[k] = "no"
    <2> DEFINE s == Head(chain[w]).session
    <2>1. \/ abandoned' = abandoned
          \/ abandoned' = [abandoned EXCEPT ![s] = "failed"]
      BY DEF FinishRemoval, RemovalGivesUp
    <2>2. \A k \in Session : [abandoned EXCEPT ![s] = "failed"][k] = "no" <=> abandoned[k] = "no"
      BY <1>1, HeadAbandoned
    <2> HIDE DEF s
    <2> QED  BY ONLY <2>1, <2>2
  <1>6. Others(w)
    BY <1>1, <1>4, <1>5 DEF Others
  <1> QED  BY <1>1, <1>2, <1>6, ClaimsAlone, QuietStep

\* Session s goes from stage to stage and from place to place, the lock stays.
Goes(s, stage, place) ==
    /\ Others(s) /\ UNCHANGED <<alive, lock>>
    /\ flow'[s] = stage /\ at'[s] = place

LEMMA GoesOn ==
    ASSUME LockInv, NEW s \in Session, NEW place, Move(s, place),
           UNCHANGED <<alive, lock, flow, granted, saw, previous, abandoned>>
    PROVE  Goes(s, flow[s], place)
  <1>1. s \in Thread
    BY ThreadFacts
  <1> QED  BY <1>1, OnlyMoves DEF Goes

LEMMA GoesFar ==
    ASSUME LockInv, NEW s \in Session, NEW place, NEW stage, Move(s, place), Advance(s, stage),
           UNCHANGED <<alive, lock, granted, saw, previous, abandoned>>
    PROVE  Goes(s, stage, place)
  <1>1. /\ at \in [Thread -> Place] /\ flow \in [Session -> Flow] /\ s \in Thread
        /\ \A k \in Session : k \in Thread
    BY ThreadFacts DEF LockInv, TypeInv, TypeOK
  <1> QED  BY <1>1 DEF Move, Advance, Others, Goes

\* A step of session s that leaves the lock alone, by what it does to s.
LEMMA SessionGoes ==
    ASSUME LockInv, SleepIsShort, NEW s \in Session, NEW stage, NEW place,
           Goes(s, stage, place), ClaimsKept(s),
           PlaceFits(s)', LockFits(s)', ActiveFits(s)', ClaimFits(s)',
           Owns(s)' => Owns(s), Passes(s)
    PROVE  SessionInv'
  <1>1. s \in Thread
    BY ThreadFacts
  <1> QED  BY <1>1, QuietStep DEF Goes, SessionFits

LEMMA ClaimCheckSessions ==
    ASSUME LockInv, SleepIsShort, NEW s \in Session, ClaimChecks(s)
    PROVE  SessionInv'
  <1>1. /\ at[s] = "await" /\ MayRun(s) /\ SessionFits(s) /\ flow[s] \in Reserving
        /\ UNCHANGED <<alive, lock, claims, granted, saw, previous, abandoned>>
    BY DEF ClaimChecks, LockInv, SessionInv, SessionFits, PlaceFits, Waiting, fileVars
  <1>2. ClaimsKept(s)
    BY <1>1, ClaimsAlone
  <1>3. CASE claims[Home[s]] \in {None, s}
    <2>1. PICK place \in {"try", "reserve"} : Move(s, place) /\ UNCHANGED flow
      BY <1>3 DEF ClaimChecks, Reserve, AwaitRemovals
    <2>2. Goes(s, flow[s], place)
      BY <1>1, <2>1, GoesOn
    <2>3. PlaceFits(s)' /\ LockFits(s)'
      BY <1>1, <2>2 DEF Goes, SessionFits, PlaceFits, LockFits, Waiting
    <2>4. ActiveFits(s)' /\ ClaimFits(s)'
      BY <1>1, <2>2 DEF Goes, SessionFits, ActiveFits, ClaimFits, Claiming, Reserving
    <2>5. Owns(s)' => Owns(s)
      BY <1>1, <2>2 DEF Goes, Owns, Claiming
    <2>6. ASSUME NEW k \in Session \ {s}, Home[k] = Home[s], Owns(k) PROVE FALSE
      <3>1. ~Claiming(k)
        BY <1>3, <2>6, PidLockAssumption DEF LockInv, SessionInv, SessionFits, ClaimFits
      <3>2. at[k] = "leave"
        BY <2>6, <3>1 DEF Owns
      <3> QED  BY <1>1, <2>6, <3>2, ThreadFacts DEF MayRun, MidTurn, Inside
    <2>7. Passes(s)
      BY <2>6 DEF Passes
    <2> QED  BY <1>2, <2>2, <2>3, <2>4, <2>5, <2>7, SessionGoes
  <1>4. CASE claims[Home[s]] \notin {None, s}
    <2>1. Goes(s, Refused(s), "idle")
      BY <1>1, <1>4, GoesFar DEF ClaimChecks
    <2>2. Refused(s) \in {"stopping", "rejected", "over"} /\ (Refused(s) = "over" \/ flow[s] # "over")
      BY <1>1 DEF Refused, Reserving
    <2>3. PlaceFits(s)' /\ LockFits(s)'
      BY <1>1, <2>1, <2>2 DEF Goes, SessionFits, PlaceFits, LockFits, Waiting, Early
    <2>4. ActiveFits(s)' /\ ClaimFits(s)'
      BY <2>1, <2>2 DEF Goes, ActiveFits, ClaimFits, Claiming
    <2>5. (Owns(s)' => Owns(s)) /\ Passes(s)
      BY <2>1, <2>2 DEF Goes, Owns, Claiming, Passes, Checked
    <2> QED  BY <1>2, <2>1, <2>3, <2>4, <2>5, SessionGoes
  <1> QED  BY <1>3, <1>4

LEMMA ReserveAskSessions ==
    ASSUME LockInv, SleepIsShort, NEW s \in Session, ReserveAsks(s)
    PROVE  SessionInv'
  <1>1. /\ at[s] = "reserve" /\ SessionFits(s) /\ flow[s] \in Reserving /\ Move(s, "try")
        /\ UNCHANGED <<alive, lock, claims, flow, granted, saw, previous, abandoned>>
    BY DEF ReserveAsks, LockInv, SessionInv, SessionFits, PlaceFits, Waiting, fileVars, sessionVars
  <1>2. ClaimsKept(s) /\ Goes(s, flow[s], "try")
    BY <1>1, ClaimsAlone, GoesOn
  <1>3. PlaceFits(s)' /\ LockFits(s)'
    BY <1>1, <1>2 DEF Goes, SessionFits, PlaceFits, LockFits, Waiting
  <1>4. ActiveFits(s)' /\ ClaimFits(s)'
    BY <1>1, <1>2 DEF Goes, SessionFits, ActiveFits, ClaimFits, Claiming, Reserving
  <1>5. (Owns(s)' => Owns(s)) /\ Passes(s)
    BY <1>1, <1>2 DEF Goes, Owns, Claiming, Passes, Checked
  <1> QED  BY <1>2, <1>3, <1>4, <1>5, SessionGoes

\* Somebody else's lock is there: it will be judged as it was read.
LEMMA ReadSessions ==
    ASSUME LockInv, SleepIsShort, NEW s \in Session, Move(s, "judge"),
           at[s] = "section", flow[s] \in Reserving \cup {"cleaning"},
           UNCHANGED <<alive, lock, claims, flow, granted, previous, abandoned>>,
           saw' = [saw EXCEPT ![s] = lock]
    PROVE  SessionInv'
  <1>1. Goes(s, flow[s], "judge") /\ saw'[s] = lock /\ SessionFits(s) /\ ClaimsKept(s)
    <2>1. /\ at \in [Thread -> Place] /\ s \in Thread /\ \A k \in Session : k \in Thread
          /\ saw \in [Session -> Lock \cup {NoLock}]
      BY ThreadFacts DEF LockInv, TypeInv, TypeOK
    <2>2. /\ at'[s] = "judge" /\ saw'[s] = lock
          /\ \A k \in Session \ {s} : at'[k] = at[k] /\ saw'[k] = saw[k]
      BY <2>1 DEF Move
    <2> QED  BY <2>2, ClaimsAlone DEF Goes, Others, LockInv, SessionInv
  <1>2. PlaceFits(s)' /\ LockFits(s)'
    BY <1>1 DEF Goes, SessionFits, PlaceFits, LockFits, Waiting
  <1>3. ActiveFits(s)' /\ ClaimFits(s)'
    BY <1>1 DEF Goes, SessionFits, ActiveFits, ClaimFits, Claiming
  <1>4. (Owns(s)' => Owns(s)) /\ Passes(s)
    BY <1>1 DEF Goes, Owns, Claiming, Passes, Checked
  <1> QED  BY <1>1, <1>2, <1>3, <1>4, SessionGoes

\* The start of a removal moves a window's thread only.
LEMMA SessionsStay ==
    ASSUME LockInv, NEW s \in Session
    PROVE  /\ at' = StartsRemoval(s, at) => \A k \in Session : at'[k] = at[k]
           /\ at' = StartsRemoval(s, [at EXCEPT ![s] = "idle"])
                => \A k \in Session : at'[k] = IF k = s THEN "idle" ELSE at[k]
           /\ \A place : Move(s, place) => \A k \in Session : at'[k] = IF k = s THEN place ELSE at[k]
  <1>1. at \in [Thread -> Place] /\ \A k \in Session : k \in Thread /\ k # Home[s]
    BY ThreadFacts, PidLockAssumption DEF LockInv, TypeInv, TypeOK
  <1>2. at' = StartsRemoval(s, at) => \A k \in Session : at'[k] = at[k]
    BY <1>1 DEF StartsRemoval
  <1>3. ASSUME at' = StartsRemoval(s, [at EXCEPT ![s] = "idle"]), NEW k \in Session
        PROVE  at'[k] = IF k = s THEN "idle" ELSE at[k]
    <2> DEFINE gone == [at EXCEPT ![s] = "idle"]
    <2>1. /\ gone \in [Thread -> Place] /\ gone[s] = "idle"
          /\ \A t \in Thread \ {s} : gone[t] = at[t]
      BY <1>1, StartPlaces
    <2>2. at' = [gone EXCEPT ![Home[s]] = IF chain[Home[s]] = <<>> THEN "try" ELSE gone[Home[s]]]
      BY <1>3 DEF StartsRemoval
    <2> HIDE DEF gone
    <2> QED  BY <1>1, <2>1, <2>2
  <1>4. \A place : Move(s, place) => \A k \in Session : at'[k] = IF k = s THEN place ELSE at[k]
    BY <1>1 DEF Move
  <1> QED  BY <1>2, <1>3, <1>4

LEMMA GoesAnyway ==
    ASSUME LockInv, NEW s \in Session, NEW stage, NEW place,
           flow' = [flow EXCEPT ![s] = stage],
           \A k \in Session : at'[k] = IF k = s THEN place ELSE at[k],
           granted' \in {granted, [granted EXCEPT ![s] = FALSE]},
           abandoned' \in {abandoned, [abandoned EXCEPT ![s] = "asked"]},
           previous' \in {previous, [previous EXCEPT ![s] = NoLock]},
           UNCHANGED <<alive, lock, saw>>
    PROVE  /\ Goes(s, stage, place)
           /\ granted' = [granted EXCEPT ![s] = FALSE] => ~granted'[s]
           /\ abandoned' = [abandoned EXCEPT ![s] = "asked"] => abandoned'[s] = "asked"
           /\ previous'[s] \in {previous[s], NoLock}
           /\ abandoned'[s] = "no" => abandoned[s] = "no"
  <1>1. flow'[s] = stage /\ \A k \in Session \ {s} : flow'[k] = flow[k]
    BY DEF LockInv, TypeInv, TypeOK
  <1>2. /\ \A k \in Session \ {s} : granted'[k] = granted[k]
        /\ granted' = [granted EXCEPT ![s] = FALSE] => ~granted'[s]
    BY DEF LockInv, TypeInv, TypeOK
  <1>3. /\ \A k \in Session \ {s} : abandoned'[k] = abandoned[k]
        /\ abandoned' = [abandoned EXCEPT ![s] = "asked"] => abandoned'[s] = "asked"
        /\ abandoned'[s] = "no" => abandoned[s] = "no"
    BY DEF LockInv, TypeInv, TypeOK
  <1>4. /\ \A k \in Session \ {s} : previous'[k] = previous[k]
        /\ previous'[s] \in {previous[s], NoLock}
    BY DEF LockInv, TypeInv, TypeOK
  <1>5. Others(s)
    BY <1>1, <1>2, <1>3, <1>4 DEF Others
  <1> QED  BY <1>1, <1>2, <1>3, <1>4, <1>5 DEF Goes

\* A session that does not get to the target, or gives it up, when it is idle
\* afterwards or about to wait.
LEMMA OutOfIt ==
    ASSUME LockInv, SleepIsShort, NEW s \in Session, NEW stage, NEW place,
           Goes(s, stage, place), ClaimsKept(s), previous'[s] \in {previous[s], NoLock},
           stage \notin {"claimed", "ready", "reclaiming", "promoting", "active", "new"},
           stage \in Early => flow[s] \in Early \ {"claiming"} \/ flow[s] = "reserving",
           flow[s] # "over" \/ stage = "over",
           \/ place = "idle"
           \/ place = "await" /\ stage = "claiming"
           \/ place \in {"try", "reserve"} /\ stage = "reserving"
           \/ place = "try" /\ stage \in {"cleaning", "releasing"}
    PROVE  SessionInv'
  <1>1. SessionFits(s)
    BY DEF LockInv, SessionInv
  <1>2. PlaceFits(s)'
    BY <1>1 DEF Goes, SessionFits, PlaceFits, Waiting, Reserving
  <1>3. LockFits(s)'
    BY <1>1 DEF Goes, SessionFits, LockFits, Early
  <1>4. ActiveFits(s)' /\ ClaimFits(s)'
    BY DEF Goes, ActiveFits, ClaimFits, Claiming
  <1>5. (Owns(s)' => Owns(s)) /\ Passes(s)
    BY DEF Goes, Owns, Claiming, Passes, Checked
  <1> QED  BY <1>2, <1>3, <1>4, <1>5, SessionGoes

LEMMA ReserveEndSessions ==
    ASSUME LockInv, SleepIsShort, NEW s \in Session, ReserveEnds(s)
    PROVE  SessionInv'
  <1>1. /\ at[s] = "leave" /\ flow[s] \in {"reserving", "claiming"} /\ SessionFits(s)
        /\ Move(s, "idle") /\ granted' = [granted EXCEPT ![s] = FALSE]
        /\ UNCHANGED <<alive, lock, saw, previous, abandoned>>
    BY DEF ReserveEnds, LockInv, SessionInv, Settled
  <1>2. \A k \in Session : at'[k] = IF k = s THEN "idle" ELSE at[k]
    BY <1>1, SessionsStay
  <1>3. CASE ~granted[s] \/ flow[s] = "reserving"
    <2>1. PICK stage \in {"rejected", "over", "reserved"} :
             /\ flow' = [flow EXCEPT ![s] = stage] /\ UNCHANGED claims
             /\ stage = "reserved" => flow[s] = "reserving"
      BY <1>1, <1>3 DEF ReserveEnds, Advance, Refused
    <2>2. Goes(s, stage, "idle") /\ ClaimsKept(s) /\ previous'[s] = previous[s]
      BY <1>1, <1>2, <2>1, GoesAnyway, ClaimsAlone
    <2> QED  BY <1>1, <2>1, <2>2, OutOfIt DEF Early
  <1>4. CASE granted[s] /\ flow[s] = "claiming"
    <2>1. flow' = [flow EXCEPT ![s] = "claimed"] /\ Claim(s)
      BY <1>1, <1>4 DEF ReserveEnds, Advance
    <2>2. Goes(s, "claimed", "idle") /\ ~granted'[s]
      BY <1>1, <1>2, <2>1, GoesAnyway
    <2>3. ClaimsKept(s) /\ claims'[Home[s]] = s
      BY <1>1, <1>4, <2>1, ClaimsTaken DEF Checked
    <2>4. PlaceFits(s)' /\ LockFits(s)'
      BY <1>1, <2>2 DEF Goes, SessionFits, PlaceFits, LockFits, Waiting, Early
    <2>5. ActiveFits(s)' /\ ClaimFits(s)'
      BY <2>2, <2>3 DEF Goes, ActiveFits, ClaimFits
    <2>6. (Owns(s)' => Owns(s)) /\ Passes(s)
      BY <1>1, <1>4, <2>2 DEF Goes, Owns, Claiming, Passes, Checked
    <2> QED  BY <2>2, <2>3, <2>4, <2>5, <2>6, SessionGoes
  <1> QED  BY <1>1, <1>3, <1>4

LEMMA CleanReadSessions ==
    ASSUME LockInv, SleepIsShort, NEW s \in Session, CleanReads(s)
    PROVE  SessionInv'
  <1>1. /\ at[s] = "section" /\ flow[s] = "cleaning" /\ SessionFits(s)
        /\ saw' = [saw EXCEPT ![s] = lock]
        /\ UNCHANGED <<alive, lock, claims, flow, granted, previous, abandoned>>
    BY DEF CleanReads, LockInv, SessionInv, fileVars
  <1>2. CASE Move(s, "judge")
    BY <1>1, <1>2, ReadSessions
  <1>3. CASE Move(s, "leave")
    <2>1. /\ \A k \in Session : at'[k] = IF k = s THEN "leave" ELSE at[k]
          /\ \A k \in Session \ {s} : saw'[k] = saw[k]
      BY <1>1, <1>3, SessionsStay, ZenonT(40) DEF LockInv, TypeInv, TypeOK
    <2>2. Goes(s, "cleaning", "leave") /\ ClaimsKept(s)
      BY <1>1, <2>1, ClaimsAlone DEF Goes, Others
    <2>3. PlaceFits(s)' /\ LockFits(s)'
      BY <1>1, <2>2 DEF Goes, SessionFits, PlaceFits, LockFits, Waiting, Early, Reserving
    <2>4. ActiveFits(s)' /\ ClaimFits(s)'
      BY <2>2 DEF Goes, ActiveFits, ClaimFits, Claiming
    <2>5. (Owns(s)' => Owns(s)) /\ Passes(s)
      BY <2>2 DEF Goes, Owns, Claiming, Passes, Checked
    <2> QED  BY <2>2, <2>3, <2>4, <2>5, SessionGoes
  <1> QED  BY <1>2, <1>3 DEF CleanReads

LEMMA CleanEndSessions ==
    ASSUME LockInv, SleepIsShort, NEW s \in Session, CleanEnds(s) \/ ReleaseEnds(s)
    PROVE  SessionInv'
  <1>1. PICK stage \in {"checked", "rejected"} :
           /\ flow' = [flow EXCEPT ![s] = stage] /\ Move(s, "idle")
           /\ flow[s] \in {"cleaning", "releasing"} /\ (stage = "checked" => flow[s] = "cleaning")
           /\ UNCHANGED <<alive, lock, claims, granted, saw, previous, abandoned>>
    BY DEF CleanEnds, ReleaseEnds, Advance
  <1>2. \A k \in Session : at'[k] = IF k = s THEN "idle" ELSE at[k]
    BY <1>1, SessionsStay
  <1>3. Goes(s, stage, "idle") /\ ClaimsKept(s) /\ previous'[s] = previous[s]
    BY <1>1, <1>2, GoesAnyway, ClaimsAlone
  <1> QED  BY <1>1, <1>3, OutOfIt DEF Early

\* The start event's handler leaves a guarded section with the lock it has
\* written, with a refusal, or to give up what it has.
LEMMA StartEndSessions ==
    ASSUME LockInv, SleepIsShort, NEW s \in Session, ReclaimEnds(s) \/ PromoteEnds(s)
    PROVE  SessionInv'
  <1>1. /\ at[s] = "leave" /\ flow[s] \in {"reclaiming", "promoting"} /\ SessionFits(s)
        /\ granted' = [granted EXCEPT ![s] = FALSE] /\ UNCHANGED <<alive, lock, saw, previous>>
    BY DEF ReclaimEnds, PromoteEnds, LockInv, SessionInv, Settled
  <1>2. CASE flow' = [flow EXCEPT ![s] = "stopping"]
    <2>1. /\ at' = StartsRemoval(s, [at EXCEPT ![s] = "idle"]) \/ Move(s, "idle")
          /\ abandoned' \in {abandoned, [abandoned EXCEPT ![s] = "asked"]}
      BY <1>1, <1>2 DEF ReclaimEnds, PromoteEnds, AbandonPidOwnership, QueueRemoval,
                        NothingAbandoned, Advance, LockInv, TypeInv, TypeOK
    <2>2. \A k \in Session : at'[k] = IF k = s THEN "idle" ELSE at[k]
      BY <2>1, SessionsStay
    <2>3. Goes(s, "stopping", "idle") /\ previous'[s] = previous[s]
      BY <1>1, <1>2, <2>1, <2>2, GoesAnyway
    <2>4. \/ UNCHANGED claims \/ Disclaim(s)
          \/ Checked(s) /\ granted[s] /\ claims' = [claims EXCEPT ![Home[s]] = None]
      BY <1>1, <1>2 DEF ReclaimEnds, PromoteEnds, AbandonPidOwnership, NothingAbandoned, Advance,
                        LockInv, TypeInv, TypeOK, Checked
    <2>5. ClaimsKept(s)
      BY <1>1, <2>4, ClaimsAlone, ClaimsDropped, ClaimsTaken
    <2> QED  BY <1>1, <2>3, <2>5, OutOfIt DEF Early
  <1>3. CASE ReclaimEnds(s) /\ flow' = [flow EXCEPT ![s] = "promoting"]
    <2>1. /\ granted[s] /\ Move(s, "try") /\ Claim(s) /\ UNCHANGED abandoned
          /\ flow[s] = "reclaiming"
      BY <1>3 DEF ReclaimEnds, Advance, LockInv, TypeInv, TypeOK
    <2>2. \A k \in Session : at'[k] = IF k = s THEN "try" ELSE at[k]
      BY <2>1, SessionsStay
    <2>3. Goes(s, "promoting", "try") /\ previous'[s] = previous[s]
      BY <1>1, <1>3, <2>1, <2>2, GoesAnyway
    <2>4. ClaimsKept(s) /\ claims'[Home[s]] = s
      BY <1>1, <2>1, ClaimsTaken DEF Checked
    <2>5. PlaceFits(s)' /\ LockFits(s)'
      BY <1>1, <2>3 DEF Goes, SessionFits, PlaceFits, LockFits, Waiting, Early
    <2>6. ActiveFits(s)' /\ ClaimFits(s)'
      BY <2>3, <2>4 DEF Goes, ActiveFits, ClaimFits
    <2>7. (Owns(s)' => Owns(s)) /\ Passes(s)
      BY <2>1, <2>3 DEF Goes, Owns, Claiming, Passes, Checked
    <2> QED  BY <2>3, <2>4, <2>5, <2>6, <2>7, SessionGoes
  <1>4. CASE PromoteEnds(s) /\ flow' = [flow EXCEPT ![s] = "active"]
    <2>1. /\ granted[s] /\ Move(s, "idle") /\ UNCHANGED <<claims, abandoned>>
          /\ flow[s] = "promoting"
      BY <1>4 DEF PromoteEnds, Advance, NothingAbandoned, LockInv, TypeInv, TypeOK
    <2>2. \A k \in Session : at'[k] = IF k = s THEN "idle" ELSE at[k]
      BY <2>1, SessionsStay
    <2>3. Goes(s, "active", "idle") /\ ClaimsKept(s) /\ previous'[s] = previous[s]
      BY <1>1, <1>4, <2>1, <2>2, GoesAnyway, ClaimsAlone
    <2>4. PlaceFits(s)' /\ LockFits(s)'
      BY <1>1, <2>3 DEF Goes, SessionFits, PlaceFits, LockFits, Waiting, Early
    <2>5. ActiveFits(s)'
      BY <1>1, <2>1, <2>3 DEF Goes, SessionFits, LockFits, ActiveFits, ActiveLock
    <2>6. ClaimFits(s)'
      BY <1>1, <2>1, <2>3 DEF Goes, SessionFits, ClaimFits, Claiming
    <2>7. (Owns(s)' => Owns(s)) /\ Passes(s)
      BY <2>1, <2>3 DEF Goes, Owns, Claiming, Passes, Checked
    <2> QED  BY <2>3, <2>4, <2>5, <2>6, <2>7, SessionGoes
  <1> QED  BY <1>2, <1>3, <1>4 DEF ReclaimEnds, PromoteEnds, Advance

\* A session between its stages has no thread in a guarded section.
LEMMA Resting ==
    ASSUME LockInv, NEW s \in Session,
           flow[s] \notin Reserving \cup {"cleaning", "releasing", "promoting"}
    PROVE  at[s] = "idle"
  BY DEF LockInv, SessionInv, SessionFits, PlaceFits

LEMMA OutSessions ==
    ASSUME LockInv, SleepIsShort, NEW s \in Session,
           \/ Preflight(s) \/ Attach(s) \/ CreateDescriptor(s) \/ ActivationFails(s)
           \/ StartRejected(s) \/ GivesUp(s)
    PROVE  SessionInv'
  <1>1. PICK stage \in {"checked", "over", "cleaning", "reserving", "claiming", "releasing",
                        "unlocked", "rejected"} :
           /\ flow' = [flow EXCEPT ![s] = stage]
           /\ stage \in {"checked", "cleaning"} => flow[s] = "new" /\ Preflight(s)
           /\ stage = "reserving" => flow[s] = "checked" /\ Attach(s)
           /\ stage = "claiming" => flow[s] \in {"reserved", "new"} /\ CreateDescriptor(s)
           /\ stage = "releasing" => ActivationFails(s)
           /\ stage \in {"unlocked", "rejected"} => GivesUp(s)
    BY DEF Preflight, Attach, CreateDescriptor, ActivationFails, StartRejected, GivesUp, Advance
  <1>2. UNCHANGED <<alive, lock, granted, saw, previous>>
    BY DEF Preflight, Attach, CreateDescriptor, ActivationFails, StartRejected, GivesUp, fileVars
  <1>3. abandoned' \in {abandoned, [abandoned EXCEPT ![s] = "asked"]}
    BY DEF Preflight, Attach, CreateDescriptor, ActivationFails, StartRejected, GivesUp,
           AbandonPidOwnership, QueueRemoval
  <1>4. UNCHANGED claims \/ Disclaim(s)
    BY DEF Preflight, Attach, CreateDescriptor, ActivationFails, StartRejected, GivesUp,
           AbandonPidOwnership
  <1>5. flow[s] # "over"
    BY DEF LockInv, SessionInv, SessionFits, PlaceFits, Reserving, Preflight, Attach,
           CreateDescriptor, ActivationFails, StartRejected, GivesUp
  <1>6. \E place : /\ \A k \in Session : at'[k] = IF k = s THEN place ELSE at[k]
                   /\ \/ place = "idle"
                      \/ place = "await" /\ stage = "claiming"
                      \/ place \in {"try", "reserve"} /\ stage = "reserving"
                      \/ place = "try" /\ stage \in {"cleaning", "releasing"}
    <2>1. CASE Preflight(s)
      <3>1. at[s] = "idle"
        BY <2>1, Resting DEF Preflight, Reserving
      <3>2. UNCHANGED at \/ (Move(s, "try") /\ Advance(s, "cleaning"))
        BY <2>1 DEF Preflight
      <3>3. Advance(s, "cleaning") => stage = "cleaning"
        BY <1>1 DEF Advance, LockInv, TypeInv, TypeOK
      <3>4. CASE UNCHANGED at
        BY <3>1, <3>4
      <3>5. CASE Move(s, "try") /\ stage = "cleaning"
        BY <3>5, SessionsStay
      <3> QED  BY <3>2, <3>3, <3>4, <3>5
    <2>2. CASE Attach(s)
      <3>1. (Move(s, "try") \/ Move(s, "reserve")) /\ Advance(s, "reserving")
        BY <2>2 DEF Attach, Reserve, AwaitRemovals
      <3>2. stage = "reserving"
        BY <1>1, <3>1 DEF Advance, LockInv, TypeInv, TypeOK
      <3> QED  BY <3>1, <3>2, SessionsStay
    <2>3. CASE CreateDescriptor(s)
      <3>1. Move(s, "await") /\ Advance(s, "claiming")
        BY <2>3 DEF CreateDescriptor, AwaitRemovals
      <3>2. stage = "claiming"
        BY <1>1, <3>1 DEF Advance, LockInv, TypeInv, TypeOK
      <3> QED  BY <3>1, <3>2, SessionsStay
    <2>4. CASE ActivationFails(s)
      <3>1. Move(s, "try") /\ Advance(s, "releasing")
        BY <2>4 DEF ActivationFails
      <3>2. stage = "releasing"
        BY <1>1, <3>1 DEF Advance, LockInv, TypeInv, TypeOK
      <3> QED  BY <3>1, <3>2, SessionsStay
    <2>5. CASE StartRejected(s)
      <3>1. at[s] = "idle" /\ at' = StartsRemoval(s, at)
        BY <2>5, Resting DEF StartRejected, Reserving
      <3> QED  BY <3>1, SessionsStay
    <2>6. CASE GivesUp(s)
      <3>1. Move(s, "idle")
        BY <2>6 DEF GivesUp
      <3> QED  BY <3>1, SessionsStay
    <2> QED  BY <2>1, <2>2, <2>3, <2>4, <2>5, <2>6
  <1>7. PICK place : /\ \A k \in Session : at'[k] = IF k = s THEN place ELSE at[k]
                     /\ \/ place = "idle"
                        \/ place = "await" /\ stage = "claiming"
                        \/ place \in {"try", "reserve"} /\ stage = "reserving"
                        \/ place = "try" /\ stage \in {"cleaning", "releasing"}
    BY <1>6
  <1>8. Goes(s, stage, place) /\ previous'[s] = previous[s] /\ ClaimsKept(s)
    BY <1>1, <1>2, <1>3, <1>4, <1>7, GoesAnyway, ClaimsAlone, ClaimsDropped
  <1>9. stage \in Early => flow[s] \in Early \ {"claiming"} \/ flow[s] = "reserving"
    BY <1>1 DEF Early
  <1> QED  BY <1>1, <1>5, <1>7, <1>8, <1>9, OutOfIt

LEMMA ReadySessions ==
    ASSUME LockInv, SleepIsShort, NEW s \in Session, ActivationSucceeds(s)
    PROVE  SessionInv'
  <1>1. /\ flow[s] = "claimed" /\ at[s] = "idle" /\ SessionFits(s)
        /\ flow' = [flow EXCEPT ![s] = "ready"] /\ previous' = [previous EXCEPT ![s] = NoLock]
        /\ UNCHANGED <<alive, lock, claims, granted, saw, at, abandoned>>
    BY Resting DEF ActivationSucceeds, LockInv, SessionInv, fileVars, Advance, Reserving
  <1>2. Goes(s, "ready", "idle") /\ ClaimsKept(s) /\ previous'[s] \in {previous[s], NoLock}
    BY <1>1, GoesAnyway, ClaimsAlone
  <1>3. PlaceFits(s)' /\ LockFits(s)'
    BY <1>1, <1>2 DEF Goes, SessionFits, PlaceFits, LockFits, Waiting, Early
  <1>4. ActiveFits(s)' /\ ClaimFits(s)'
    BY <1>1, <1>2 DEF Goes, SessionFits, ActiveFits, ClaimFits, Claiming
  <1>5. (Owns(s)' => Owns(s)) /\ Passes(s)
    BY <1>1, <1>2 DEF Goes, Owns, Claiming, Passes, Checked
  <1> QED  BY <1>2, <1>3, <1>4, <1>5, SessionGoes

LEMMA StartEventSessions ==
    ASSUME LockInv, SleepIsShort, NEW s \in Session, StartEvent(s)
    PROVE  SessionInv'
  <1>1. /\ flow[s] = "ready" /\ at[s] = "idle" /\ SessionFits(s)
        /\ UNCHANGED <<alive, lock, granted, saw, previous>>
    BY Resting DEF StartEvent, LockInv, SessionInv, fileVars, Reserving
  <1>2. CASE adapter[s] = "failed"
    <2>1. /\ flow' = [flow EXCEPT ![s] = "stopping"] /\ Disclaim(s) /\ at' = StartsRemoval(s, at)
          /\ abandoned' = [abandoned EXCEPT ![s] = "asked"]
      BY <1>2 DEF StartEvent, AbandonPidOwnership, QueueRemoval, Advance
    <2>2. \A k \in Session : at'[k] = IF k = s THEN "idle" ELSE at[k]
      BY <1>1, <2>1, SessionsStay
    <2>3. Goes(s, "stopping", "idle") /\ previous'[s] = previous[s] /\ ClaimsKept(s)
      BY <1>1, <2>1, <2>2, GoesAnyway, ClaimsDropped
    <2> QED  BY <1>1, <2>3, OutOfIt DEF Early
  <1>3. CASE adapter[s] # "failed"
    <2>1. /\ flow' = [flow EXCEPT ![s] = "reclaiming"] /\ Move(s, "await")
          /\ UNCHANGED <<claims, abandoned>>
      BY <1>3 DEF StartEvent, NothingAbandoned, AwaitRemovals, Advance
    <2>2. \A k \in Session : at'[k] = IF k = s THEN "await" ELSE at[k]
      BY <2>1, SessionsStay
    <2>3. Goes(s, "reclaiming", "await") /\ previous'[s] = previous[s] /\ ClaimsKept(s)
      BY <1>1, <2>1, <2>2, GoesAnyway, ClaimsAlone
    <2>4. PlaceFits(s)' /\ LockFits(s)'
      BY <1>1, <2>3 DEF Goes, SessionFits, PlaceFits, LockFits, Waiting, Early, Reserving
    <2>5. ActiveFits(s)' /\ ClaimFits(s)'
      BY <1>1, <2>1, <2>3 DEF Goes, SessionFits, ActiveFits, ClaimFits, Claiming
    <2>6. (Owns(s)' => Owns(s)) /\ Passes(s)
      BY <1>1, <2>1, <2>3 DEF Goes, Owns, Claiming, Passes, Checked
    <2> QED  BY <2>3, <2>4, <2>5, <2>6, SessionGoes
  <1> QED  BY <1>2, <1>3

\* The end of a session's adapter, of the session itself or of its finalization:
\* the session stays where it is, and may give its ownership up.
LEMMA FinalSessions ==
    ASSUME LockInv, SleepIsShort, NEW s \in Session,
           AdapterEnds(s) \/ TerminateEvent(s) \/ FinalizationEnds(s)
    PROVE  SessionInv'
  <1>1. UNCHANGED <<alive, lock, flow, granted, saw, previous>> /\ SessionFits(s)
    BY DEF AdapterEnds, TerminateEvent, FinalizationEnds, fileVars, sessionVars, LockInv, SessionInv
  <1>2. \/ UNCHANGED <<claims, abandoned, at>>
        \/ /\ Disclaim(s) /\ abandoned' = [abandoned EXCEPT ![s] = "asked"]
           /\ at' = StartsRemoval(s, at)
    BY DEF AdapterEnds, TerminateEvent, FinalizationEnds, QueueFinalization, NothingAbandoned,
           AbandonPidOwnership, QueueRemoval
  <1>3. \A k \in Session : at'[k] = IF k = s THEN at[s] ELSE at[k]
    BY <1>2, SessionsStay
  <1>4. flow' = [flow EXCEPT ![s] = flow[s]]
    BY <1>1 DEF LockInv, TypeInv, TypeOK
  <1>5. /\ Goes(s, flow[s], at[s]) /\ ClaimsKept(s) /\ previous'[s] = previous[s]
        /\ abandoned'[s] = "no" => UNCHANGED <<claims, abandoned>>
    <2>1. abandoned' \in {abandoned, [abandoned EXCEPT ![s] = "asked"]}
      BY <1>2
    <2>2. /\ Goes(s, flow[s], at[s]) /\ previous'[s] = previous[s]
          /\ abandoned' = [abandoned EXCEPT ![s] = "asked"] => abandoned'[s] = "asked"
      BY <1>1, <1>3, <1>4, <2>1, GoesAnyway, ZenonT(40)
    <2> QED  BY <1>2, <2>2, ClaimsAlone, ClaimsDropped
  <1>6. PlaceFits(s)' /\ LockFits(s)'
    BY <1>1, <1>5 DEF Goes, SessionFits, PlaceFits, LockFits, PendingLock, ActiveLock
  <1>7. ActiveFits(s)' /\ ClaimFits(s)'
    BY <1>1, <1>5 DEF Goes, SessionFits, ActiveFits, ClaimFits, Claiming, ActiveLock
  <1>8. (Owns(s)' => Owns(s)) /\ Passes(s)
    BY <1>1, <1>5 DEF Goes, Owns, Claiming, Passes
  <1> QED  BY <1>5, <1>6, <1>7, <1>8, SessionGoes

LEMMA EventSessions ==
    ASSUME LockInv, SleepIsShort, NEW s \in Session, SessionEvent(s)
    PROVE  SessionInv'
  BY OutSessions, ReadySessions, StartEventSessions, FinalSessions DEF SessionEvent

\* A thread in its guarded section writes the lock: its own or none.
LEMMA WriteStep ==
    ASSUME LockInv, SleepIsShort, NEW x \in Thread, at[x] \in Inside, Others(x), UNCHANGED alive,
           ClaimsKept(x), lock' \in Lock \cup {NoLock},
           \A k \in Session \ {x} : lock'.owner # k \/ lock' = lock,
           \A k \in Session \ {x} : Owns(k) /\ Holds(k) => lock' = lock,
           x \in Session =>
              /\ SessionFits(x)'
              /\ Owns(x)' => \/ Owns(x) /\ (lock' = lock \/ ~Holds(x))
                             \/ Holds(x)' /\ lock' # lock
              /\ Checked(x)' => /\ Checked(x) /\ at[x] # "leave"
                                /\ \A k \in Session \ {x} : ~(Owns(k) /\ Holds(k))
    PROVE  SessionInv'
  <1>1. \A k \in Session \ {x} : at[k] \notin Inside /\ at[k] # "unlink" /\ k \in Thread
    BY ThreadFacts DEF LockInv, GuardInv, GuardIsExclusive, NobodyUnlinks
  <1>2. \A k \in Session \ {x} :
           /\ flow'[k] = flow[k] /\ at'[k] = at[k] /\ granted'[k] = granted[k]
           /\ saw'[k] = saw[k] /\ previous'[k] = previous[k]
           /\ abandoned'[k] = "no" <=> abandoned[k] = "no"
           /\ SessionFits(k)
    BY DEF Others, LockInv, SessionInv
  <1>3. ASSUME NEW k \in Session \ {x} PROVE SessionFits(k)'
    <2>1. PlaceFits(k)'
      BY <1>2 DEF SessionFits, PlaceFits
    <2>2. LockFits(k)'
      BY <1>1, <1>2 DEF SessionFits, LockFits, Inside
    <2>3. ActiveFits(k)'
      <3>1. ASSUME flow[k] = "active", abandoned[k] = "no" PROVE lock' = ActiveLock(k)
        <4>1. lock = ActiveLock(k) /\ Owns(k)
          BY <1>2, <3>1 DEF SessionFits, ActiveFits, Owns, Claiming
        <4>2. Holds(k)
          BY <4>1 DEF Holds, ActiveLock
        <4> QED  BY <4>1, <4>2
      <3> QED  BY <1>2, <3>1 DEF ActiveFits, ActiveLock
    <2>4. ClaimFits(k)'
      BY <1>2 DEF SessionFits, ClaimFits, Claiming, ClaimsKept
    <2> QED  BY <2>1, <2>2, <2>3, <2>4 DEF SessionFits
  <1>4. ASSUME NEW s \in Session, NEW t \in Session, Owns(s)', Checked(t)', Home[t] = Home[s], t # s
        PROVE  \/ at'[t] = "leave" /\ ~granted'[t]
               \/ /\ at'[t] # "leave" /\ Holds(s)'
                  /\ at'[t] \in {"section", "judge"} \/ lock'.phase = "active" \/ t \in older'
    <2>1. s # x => Owns(s)
      BY <1>2, <1>4 DEF Owns, Claiming
    <2>2. CASE t = x
      <3>1. Checked(x) /\ at[x] # "leave" /\ Owns(s) /\ ~Holds(s)
        BY <1>4, <2>1, <2>2
      <3> QED  BY <1>4, <2>2, <3>1 DEF LockInv, SessionInv, KeptOut
    <2>3. CASE t # x
      <3>1. Checked(t) /\ at'[t] = at[t] /\ at[t] \in {"reserve", "guard", "try"}
        <4>1. at[t] \in Place
          BY ThreadFacts DEF LockInv, TypeInv, TypeOK
        <4> QED  BY <1>1, <1>2, <1>4, <2>3, <4>1 DEF Checked, Place, Inside
      <3>2. Owns(s) => Holds(s) /\ (lock.phase = "active" \/ t \in older)
        BY <1>4, <3>1 DEF LockInv, SessionInv, KeptOut
      <3>3. CASE Owns(s) /\ lock' = lock
        BY <3>1, <3>2, <3>3, SleepGoesOn DEF Holds
      <3>4. CASE ~(Owns(s) /\ lock' = lock)
        <4>1. s = x /\ Holds(x)' /\ lock' # lock
          BY <1>4, <2>1, <3>2, <3>4
        <4>2. lock' \in Lock
          BY <4>1, PidLockAssumption DEF Holds, NoLock
        <4>3. lock'.phase \in {"pending", "active"} /\ ~lock'.expired
          BY <4>1, <4>2 DEF Lock, Holds
        <4>4. t \in Asleep'
          BY <3>1 DEF Asleep
        <4>5. lock'.phase = "pending" => t \in older'
          BY <4>1, <4>3, <4>4 DEF SleepIsShort
        <4> QED  BY <3>1, <4>1, <4>3, <4>5
      <3> QED  BY <3>3, <3>4
    <2> QED  BY <2>2, <2>3
  <1>5. KeptOut'
    BY <1>4 DEF KeptOut
  <1> QED  BY <1>3, <1>5 DEF SessionInv

LEMMA RemovalSessions ==
    ASSUME LockInv, SleepIsShort, NEW w \in Window, RemovePidLockIf(w)
    PROVE  SessionInv'
  <1> DEFINE r == Head(chain[w]).session
  <1>1. /\ at[w] = "section" /\ Move(w, "leave") /\ lock' = (IF lock.owner = r THEN NoLock ELSE lock)
        /\ abandoned' = [abandoned EXCEPT ![r] = "done"]
        /\ UNCHANGED <<alive, claims, flow, saw, previous, granted>>
    BY DEF RemovePidLockIf, sessionVars
  <1>2. /\ w \in Thread /\ w \notin Session /\ at \in [Thread -> Place]
        /\ \A k \in Session : k \in Thread /\ k # None
    BY ThreadFacts, PidLockAssumption DEF LockInv, TypeInv, TypeOK
  <1>3. /\ r \in Session /\ abandoned[r] # "no"
        /\ \A k \in Session : abandoned'[k] = "no" <=> abandoned[k] = "no"
    BY <1>1, HeadAbandoned
  <1> HIDE DEF r
  <1>4. Others(w)
    BY <1>1, <1>2, <1>3 DEF Move, Others
  <1>5. \A k \in Session : Owns(k) /\ Holds(k) => lock' = lock
    BY <1>1, <1>3 DEF Owns, Holds
  <1>6. \A k \in Session : lock'.owner # k \/ lock' = lock
    BY <1>1, <1>2 DEF NoLock
  <1>7. lock' \in Lock \cup {NoLock}
    BY <1>1 DEF LockInv, TypeInv, TypeOK
  <1> QED  BY <1>1, <1>2, <1>4, <1>5, <1>6, <1>7, ClaimsAlone, WriteStep DEF Inside

\* The pointwise effect of a step that moves session s and changes what it keeps.
LEMMA WritesAlone ==
    ASSUME LockInv, NEW s \in Session, NEW place, NEW g, NEW l, Move(s, place),
           granted' \in {granted, [granted EXCEPT ![s] = g]},
           previous' \in {previous, [previous EXCEPT ![s] = l]},
           saw' \in {saw, [saw EXCEPT ![s] = NoLock]},
           UNCHANGED <<flow, abandoned>>
    PROVE  /\ Others(s) /\ at'[s] = place /\ s \in Thread
           /\ granted' = [granted EXCEPT ![s] = g] => granted'[s] = g
           /\ granted' = granted => granted'[s] = granted[s]
           /\ previous' = [previous EXCEPT ![s] = l] => previous'[s] = l
           /\ previous'[s] \in {previous[s], l}
  <1>1. at'[s] = place /\ \A k \in Session \ {s} : at'[k] = at[k]
    BY SessionsStay
  <1>2. /\ \A k \in Session \ {s} : granted'[k] = granted[k]
        /\ granted' = [granted EXCEPT ![s] = g] => granted'[s] = g
    BY DEF LockInv, TypeInv, TypeOK
  <1>3. /\ \A k \in Session \ {s} : previous'[k] = previous[k]
        /\ previous' = [previous EXCEPT ![s] = l] => previous'[s] = l
        /\ previous'[s] \in {previous[s], l}
    BY DEF LockInv, TypeInv, TypeOK
  <1>4. \A k \in Session \ {s} : saw'[k] = saw[k]
    BY DEF LockInv, TypeInv, TypeOK
  <1> QED  BY <1>1, <1>2, <1>3, <1>4, ThreadFacts DEF Others

LEMMA ReserveReadSessions ==
    ASSUME LockInv, SleepIsShort, NEW s \in Session, ReserveReads(s)
    PROVE  SessionInv'
  <1>1. /\ at[s] = "section" /\ flow[s] \in Reserving /\ SessionFits(s)
        /\ UNCHANGED <<alive, claims, flow, abandoned>> /\ ClaimsKept(s)
    BY ClaimsAlone DEF ReserveReads, LockInv, SessionInv
  <1>2. CASE ~(SameOwner(s) \/ lock = NoLock)
    BY <1>1, <1>2, ReadSessions DEF ReserveReads
  <1>3. CASE SameOwner(s) \/ lock = NoLock
    <2>1. /\ lock' = PendingLock(s) /\ Move(s, "leave")
          /\ granted' = [granted EXCEPT ![s] = TRUE]
          /\ previous' \in {previous, [previous EXCEPT ![s] = lock]} /\ UNCHANGED saw
      BY <1>3 DEF ReserveReads
    <2>2. Others(s) /\ at'[s] = "leave" /\ granted'[s] /\ previous'[s] \in {previous[s], lock}
          /\ s \in Thread
      BY <1>1, <2>1, WritesAlone
    <2>3. lock' \in Lock /\ lock'.owner = s /\ ~lock'.expired /\ lock'.phase = "pending"
          /\ (lock'.named <=> flow[s] # "reserving") /\ lock' = PendingLock(s)'
      BY <1>1, <2>1, LockTypes DEF PendingLock
    <2>4. \A k \in Session \ {s} : lock'.owner # k /\ lock.owner # k
      BY <1>3, <2>3, LockTypes, PidLockAssumption DEF SameOwner
    <2>5. PlaceFits(s)'
      BY <1>1, <1>3, <2>2 DEF SessionFits, PlaceFits, Waiting, SameOwner
    <2>6. LockFits(s)'
      BY <1>1, <2>2, <2>3 DEF LockFits, Reserving, Early
    <2>7. ActiveFits(s)' /\ ClaimFits(s)'
      BY <1>1 DEF SessionFits, ActiveFits, ClaimFits, Claiming, Reserving
    <2>8. Owns(s)' => \/ Owns(s) /\ (lock' = lock \/ ~Holds(s))
                      \/ Holds(s)' /\ lock' # lock
      <3>1. ASSUME Owns(s)' PROVE flow[s] \in {"claiming", "reclaiming"} /\ abandoned[s] = "no"
        BY <1>1, <3>1 DEF Owns, Claiming, Reserving
      <3>2. flow[s] = "claiming" => lock' # lock
        BY <1>1, <2>3 DEF SessionFits, LockFits, Early
      <3>3. flow[s] = "reclaiming" /\ abandoned[s] = "no" => Owns(s)
        BY DEF Owns, Claiming
      <3>4. flow[s] \in {"claiming", "reclaiming"} => Holds(s)'
        BY <2>3 DEF Holds
      <3> QED  BY <3>1, <3>2, <3>3, <3>4
    <2>9. Checked(s)' => Checked(s)
      BY <1>1, <2>2 DEF Checked
    <2> QED  BY <1>1, <2>2, <2>3, <2>4, <2>5, <2>6, <2>7, <2>8, <2>9, WriteStep
                DEF Inside, SessionFits, Holds
  <1> QED  BY <1>2, <1>3

\* A lock that is held by a session is live: no claim removes it.
LEMMA HeldIsLive ==
    ASSUME LockInv, NEW k \in Session, Owns(k), Holds(k), NEW w \in Window
    PROVE  IsPidLockLive(w, lock)
  <1>1. lock \in Lock /\ lock.owner = k /\ ~lock.expired
    BY PidLockAssumption DEF LockInv, TypeInv, TypeOK, NoLock, Holds
  <1>2. flow[k] # "over" /\ SessionFits(k)
    BY DEF Owns, Claiming, LockInv, SessionInv
  <1>3. Home[k] \in alive
    BY <1>2 DEF SessionFits, PlaceFits
  <1> QED  BY <1>1, <1>3 DEF IsPidLockLive, LiveOnDisk

LEMMA JudgeSessions ==
    ASSUME LockInv, SleepIsShort, NEW s \in Session, Judge(s)
    PROVE  SessionInv'
  <1>1. /\ at[s] = "judge" /\ flow[s] \in Reserving \cup {"cleaning"} /\ SessionFits(s)
        /\ saw[s] = lock /\ saw' = [saw EXCEPT ![s] = NoLock] /\ Home[s] \in Window
        /\ UNCHANGED <<alive, claims, flow, previous, abandoned>> /\ ClaimsKept(s)
    BY ClaimsAlone, ThreadFacts DEF Judge, LockInv, SessionInv, SessionFits, PlaceFits, LockFits
  <1>2. CASE IsPidLockLive(Home[s], saw[s])
    <2>1. /\ granted' = [granted EXCEPT ![s] = FALSE] /\ Move(s, "leave") /\ UNCHANGED lock
      BY <1>2 DEF Judge
    <2>2. Others(s) /\ at'[s] = "leave" /\ ~granted'[s]
      BY <1>1, <2>1, WritesAlone
    <2>3. Goes(s, flow[s], "leave")
      BY <1>1, <2>1, <2>2 DEF Goes
    <2>4. previous'[s] = previous[s]
      BY <1>1
    <2>5. PlaceFits(s)' /\ LockFits(s)'
      BY <1>1, <2>2, <2>3, <2>4 DEF Goes, SessionFits, PlaceFits, LockFits, Waiting
    <2>6. ActiveFits(s)' /\ ClaimFits(s)'
      BY <1>1, <2>3 DEF Goes, SessionFits, ActiveFits, ClaimFits, Claiming, Reserving
    <2>7. (Owns(s)' => Owns(s)) /\ Passes(s)
      BY <1>1, <2>2, <2>3 DEF Goes, Owns, Claiming, Passes, Checked
    <2> QED  BY <1>1, <2>3, <2>5, <2>6, <2>7, SessionGoes
  <1>3. CASE ~IsPidLockLive(Home[s], saw[s])
    <2>1. PICK place \in {"leave", "section"} :
             /\ lock' = NoLock /\ UNCHANGED granted /\ Move(s, place)
             /\ place = "leave" => flow[s] = "cleaning"
      BY <1>3 DEF Judge
    <2>2. Others(s) /\ at'[s] = place /\ s \in Thread
      BY <1>1, <2>1, WritesAlone
    <2>3. \A k \in Session : ~(Owns(k) /\ Holds(k))
      BY <1>1, <1>3, HeldIsLive
    <2>4. lock'.owner = None /\ \A k \in Session : k # None
      BY <2>1, LockTypes, PidLockAssumption
    <2>5. PlaceFits(s)'
      BY <1>1, <2>1, <2>2 DEF SessionFits, PlaceFits, Waiting
    <2>6. LockFits(s)'
      BY <1>1, <2>1, <2>2, <2>4 DEF LockFits, Reserving
    <2>7. ActiveFits(s)' /\ ClaimFits(s)'
      BY <1>1 DEF SessionFits, ActiveFits, ClaimFits, Claiming, Reserving
    <2>8. (Owns(s)' => Owns(s)) /\ (Checked(s)' => Checked(s))
      BY <1>1, <2>1, <2>2 DEF Owns, Claiming, Checked
    <2> QED  BY <1>1, <2>1, <2>2, <2>3, <2>4, <2>5, <2>6, <2>7, <2>8, WriteStep
                DEF Inside, SessionFits
  <1> QED  BY <1>2, <1>3

LEMMA ReleaseSessions ==
    ASSUME LockInv, SleepIsShort, NEW s \in Session, ReleaseClaim(s)
    PROVE  SessionInv'
  <1>1. /\ at[s] = "section" /\ flow[s] = "releasing" /\ SessionFits(s) /\ Move(s, "leave")
        /\ lock' = (IF lock.owner = s /\ lock.named THEN previous[s] ELSE lock)
        /\ previous' = [previous EXCEPT ![s] = NoLock] /\ Disclaim(s)
        /\ UNCHANGED <<alive, flow, saw, granted, abandoned>>
    BY DEF ReleaseClaim, LockInv, SessionInv
  <1>2. Others(s) /\ at'[s] = "leave" /\ previous'[s] = NoLock /\ ClaimsKept(s) /\ s \in Thread
    BY <1>1, WritesAlone, ClaimsDropped
  <1>3. /\ lock' \in Lock \cup {NoLock}
        /\ \A k \in Session \ {s} : lock'.owner # k \/ lock' = lock
    <2>1. previous[s] \in Lock \cup {NoLock} /\ lock \in Lock \cup {NoLock}
      BY DEF LockInv, TypeInv, TypeOK
    <2>2. previous[s] # NoLock => previous[s].owner = s
      BY <1>1 DEF SessionFits, PlaceFits
    <2> QED  BY <1>1, <2>1, <2>2, LockTypes, PidLockAssumption
  <1>4. \A k \in Session \ {s} : Owns(k) /\ Holds(k) => lock' = lock
    BY <1>1 DEF Holds
  <1>5. PlaceFits(s)' /\ LockFits(s)'
    BY <1>1, <1>2 DEF SessionFits, PlaceFits, LockFits, Waiting, Reserving, Early
  <1>6. ActiveFits(s)' /\ ClaimFits(s)' /\ ~Owns(s)' /\ ~Checked(s)'
    BY <1>1 DEF ActiveFits, ClaimFits, Claiming, Owns, Checked
  <1> QED  BY <1>1, <1>2, <1>3, <1>4, <1>5, <1>6, WriteStep DEF Inside, SessionFits

LEMMA PromoteSessions ==
    ASSUME LockInv, SleepIsShort, NEW s \in Session, PromoteLock(s)
    PROVE  SessionInv'
  <1>1. /\ at[s] = "section" /\ flow[s] = "promoting" /\ SessionFits(s) /\ Move(s, "leave")
        /\ granted' = [granted EXCEPT ![s] = MayPromote(s)]
        /\ lock' = IF MayPromote(s) THEN ActiveLock(s) ELSE lock
        /\ UNCHANGED <<alive, claims, flow, saw, previous, abandoned>> /\ ClaimsKept(s)
    BY ClaimsAlone DEF PromoteLock, LockInv, SessionInv
  <1>2. Others(s) /\ at'[s] = "leave" /\ granted'[s] = MayPromote(s) /\ s \in Thread
    BY <1>1, WritesAlone
  <1>3. lock' \in Lock \cup {NoLock}
    BY <1>1, LockTypes DEF LockInv, TypeInv, TypeOK
  <1>4. \A k \in Session \ {s} : /\ lock'.owner # k \/ lock' = lock
                                 /\ Owns(k) /\ Holds(k) => lock' = lock
    BY <1>1 DEF Holds, MayPromote, ActiveLock
  <1>5. PlaceFits(s)'
    BY <1>1, <1>2 DEF SessionFits, PlaceFits, Waiting
  <1>6. LockFits(s)'
    BY <1>1, <1>2 DEF LockFits, Reserving, Early, ActiveLock
  <1>7. ActiveFits(s)' /\ ClaimFits(s)' /\ ~Checked(s)'
    BY <1>1 DEF SessionFits, ActiveFits, ClaimFits, Claiming, Checked
  <1>8. Owns(s)' => Owns(s) /\ (lock' = lock \/ (Holds(s)' /\ lock' # lock))
    <2>1. Owns(s)' => Owns(s)
      BY <1>1 DEF Owns, Claiming
    <2>2. lock' # lock => Holds(s)'
      BY <1>1 DEF Holds, ActiveLock
    <2> QED  BY <2>1, <2>2
  <1> QED  BY <1>1, <1>2, <1>3, <1>4, <1>5, <1>6, <1>7, <1>8, WriteStep DEF Inside, SessionFits

\* A pending lock expires only when nobody has slept since before it was written.
LEMMA ExpirySessions ==
    ASSUME LockInv, PendingExpires
    PROVE  SessionInv'
  <1>1. /\ lock.phase = "pending" /\ lock' = [lock EXCEPT !.expired = TRUE] /\ lock \in Lock
        /\ older = {} /\ \A k \in Session : at[k] \notin {"section", "judge", "leave"}
        /\ UNCHANGED <<alive, claims, flow, saw, previous, granted, at, abandoned>>
    BY ThreadFacts, LockTypes DEF PendingExpires, LockInv, TypeInv, TypeOK, sessionVars, MidTurn,
                                  Inside
  <1>2. lock'.owner = lock.owner /\ (lock'.named <=> lock.named)
    BY <1>1 DEF Lock
  <1>3. ASSUME NEW s \in Session PROVE SessionFits(s)'
    <2>1. SessionFits(s)
      BY DEF LockInv, SessionInv
    <2>2. PlaceFits(s)' /\ ClaimFits(s)'
      BY <1>1, <2>1 DEF SessionFits, PlaceFits, ClaimFits, Claiming
    <2>3. LockFits(s)'
      BY <1>1, <1>2, <2>1 DEF SessionFits, LockFits
    <2>4. ActiveFits(s)'
      BY <1>1, <2>1 DEF SessionFits, ActiveFits, ActiveLock
    <2> QED  BY <2>2, <2>3, <2>4 DEF SessionFits
  <1>4. ASSUME NEW s \in Session, NEW t \in Session, Owns(s)', Checked(t)', Home[t] = Home[s], t # s
        PROVE  FALSE
    <2>1. Owns(s) /\ Checked(t)
      BY <1>1, <1>4 DEF Owns, Claiming, Checked
    <2> QED  BY <1>1, <1>4, <2>1 DEF LockInv, SessionInv, KeptOut
  <1> QED  BY <1>3, <1>4 DEF SessionInv, KeptOut

LEMMA DeathSessions ==
    ASSUME LockInv, SleepIsShort, NEW w \in Window, WindowDies(w)
    PROVE  SessionInv'
  <1>1. /\ alive' = alive \ {w} /\ lock' = lock
        /\ \A v \in Window \ {w} : claims'[v] = claims[v]
    BY DEF WindowDies, fileVars, LockInv, TypeInv, TypeOK
  <1>2. \A s \in Session : Home[s] = w => flow'[s] = "over" /\ at'[s] = "idle" /\ previous'[s] = NoLock
    BY ThreadFacts DEF WindowDies
  <1>3. \A s \in Session : Home[s] # w =>
           /\ flow'[s] = flow[s] /\ at'[s] = at[s] /\ (granted'[s] <=> granted[s])
           /\ saw'[s] = saw[s] /\ previous'[s] = previous[s] /\ abandoned'[s] = abandoned[s]
    BY ThreadFacts DEF WindowDies
  <1>4. ASSUME NEW s \in Session PROVE SessionFits(s)'
    <2>1. SessionFits(s) /\ Home[s] \in Window
      BY ThreadFacts DEF LockInv, SessionInv
    <2>2. CASE Home[s] = w
      BY <1>2, <2>2 DEF SessionFits, PlaceFits, LockFits, ActiveFits, ClaimFits, Claiming, Waiting,
                        Early
    <2>3. CASE Home[s] # w
      <3>1. PlaceFits(s)' /\ ClaimFits(s)'
        BY <1>1, <1>3, <2>1, <2>3 DEF SessionFits, PlaceFits, ClaimFits, Claiming
      <3>2. LockFits(s)' /\ ActiveFits(s)'
        BY <1>1, <1>3, <2>1, <2>3 DEF SessionFits, LockFits, ActiveFits, PendingLock, ActiveLock
      <3> QED  BY <3>1, <3>2 DEF SessionFits
    <2> QED  BY <2>2, <2>3
  <1>5. ASSUME NEW s \in Session, NEW t \in Session, Owns(s)', Checked(t)', Home[t] = Home[s], t # s
        PROVE  \/ at'[t] = "leave" /\ ~granted'[t]
               \/ /\ at'[t] # "leave" /\ Holds(s)'
                  /\ at'[t] \in {"section", "judge"} \/ lock'.phase = "active" \/ t \in older'
    <2>1. Home[s] # w
      BY <1>2, <1>5 DEF Owns, Claiming
    <2>2. Owns(s) /\ Checked(t)
      BY <1>3, <1>5, <2>1 DEF Owns, Claiming, Checked
    <2>3. at[t] \in Place
      BY ThreadFacts DEF LockInv, TypeInv, TypeOK
    <2>4. at[t] \in {"reserve", "guard", "try", "unlink", "section", "judge", "leave"}
      BY <2>2, <2>3 DEF Checked, Place
    <2> QED  BY <1>1, <1>3, <1>5, <2>1, <2>2, <2>4, SleepGoesOn
             DEF LockInv, SessionInv, KeptOut, Holds
  <1> QED  BY <1>4, <1>5 DEF SessionInv, KeptOut

LEMMA InitSessions == Init => SessionInv
  <1> SUFFICES ASSUME Init PROVE SessionInv
    OBVIOUS
  <1>1. \A s \in Session : /\ at[s] = "idle" /\ previous[s] = NoLock /\ flow[s] \in {"new", "over"}
                           /\ flow[s] # "over" => Home[s] \in alive
    BY ThreadFacts DEF Init
  <1>2. \A s \in Session : lock.owner = s => flow[s] = "over"
    BY PidLockAssumption DEF Init, NoLock
  <1> QED  BY <1>1, <1>2 DEF SessionInv, SessionFits, PlaceFits, LockFits, ActiveFits, ClaimFits,
                             Claiming, KeptOut, Owns, Early, Waiting

-----------------------------------------------------------------------------

LEMMA NextSessions == LockInv /\ Next => SessionInv'
  <1> SUFFICES ASSUME LockInv, Step, SleepIsShort PROVE SessionInv'
    BY DEF Next
  <1>1. ASSUME NEW t \in Thread, GuardStep(t) PROVE SessionInv'
    BY <1>1, GuardSessions
  <1>2. ASSUME NEW s \in Session, ReserveStep(s) PROVE SessionInv'
    BY <1>2, ClaimCheckSessions, ReserveAskSessions, ReserveReadSessions, JudgeSessions,
       ReserveEndSessions DEF ReserveStep
  <1>3. ASSUME NEW s \in Session, StartStep(s) PROVE SessionInv'
    BY <1>3, CleanReadSessions, CleanEndSessions, ReleaseSessions, StartEndSessions,
       PromoteSessions DEF StartStep
  <1>4. ASSUME NEW s \in Session, SessionEvent(s) PROVE SessionInv'
    BY <1>4, EventSessions
  <1>5. ASSUME NEW w \in Window, RemovalStep(w) \/ RemovalGivesUp(w) \/ WindowDies(w)
        PROVE  SessionInv'
    BY <1>5, RemovalSessions, SettledSessions, DeathSessions DEF RemovalStep
  <1> QED  BY <1>1, <1>2, <1>3, <1>4, <1>5, ExpirySessions DEF Step, SessionEvent

LEMMA NextLock == ~DiesInside /\ LockInv /\ [Next]_vars => LockInv'
  <1> SUFFICES ASSUME ~DiesInside, LockInv, [Next]_vars PROVE LockInv'
    OBVIOUS
  <1>1. TypeInv' /\ GuardInv'
    BY NextTypes, NextGuard DEF LockInv
  <1>2. CASE UNCHANGED vars
    <2>1. \A s \in Session : SessionFits(s)'
      BY <1>2 DEF LockInv, SessionInv, SessionFits, PlaceFits, LockFits, ActiveFits, ClaimFits,
                  Claiming, PendingLock, ActiveLock, vars, fileVars, sessionVars
    <2>2. KeptOut'
      BY <1>2 DEF LockInv, SessionInv, KeptOut, Owns, Claiming, Checked, Holds, vars, fileVars,
                  sessionVars
    <2> QED  BY <1>1, <2>1, <2>2 DEF LockInv, SessionInv
  <1>3. CASE Next
    BY <1>1, <1>3, NextSessions DEF LockInv
  <1> QED  BY <1>2, <1>3

LEMMA InvariantLock == ASSUME ~DiesInside PROVE Spec => []LockInv
  <1>1. Init => LockInv
    BY InitType, InitGuard, InitSessions DEF LockInv
  <1>2. LockInv /\ [Next]_vars => LockInv'
    BY NextLock
  <1> QED  BY <1>1, <1>2, PTL DEF Spec

\* Within a window, two sessions never own the target at once, for any number of
\* windows and sessions, unless a window dies in a guarded section: a claim that has
\* passed the check in memory and sleeps is kept out by the lock on disk, which does
\* not expire while it sleeps (SleepIsShort).
THEOREM ClaimExclusion == ~DiesInside => (Spec => []OneClaimPerWindow)
  <1>1. LockInv => OneClaimPerWindow
    <2> SUFFICES ASSUME LockInv, NEW s \in Session, NEW k \in Session,
                        Claiming(s), Claiming(k), Home[s] = Home[k]
                 PROVE  s = k
      BY DEF OneClaimPerWindow
    <2> QED  BY DEF LockInv, SessionInv, SessionFits, ClaimFits
  <1> SUFFICES ASSUME ~DiesInside PROVE Spec => []OneClaimPerWindow
    OBVIOUS
  <1>2. Spec => []LockInv
    BY InvariantLock
  <1> QED  BY <1>1, <1>2, PTL

\* The lock on disk is that of the session whose start has gone through, as long
\* as its ownership has not been given up.
THEOREM ActiveLocked == ~DiesInside => (Spec => []ActiveSessionHoldsLock)
  <1>1. LockInv => ActiveSessionHoldsLock
    BY DEF LockInv, SessionInv, SessionFits, ActiveFits, ActiveSessionHoldsLock
  <1> SUFFICES ASSUME ~DiesInside PROVE Spec => []ActiveSessionHoldsLock
    OBVIOUS
  <1>2. Spec => []LockInv
    BY InvariantLock
  <1> QED  BY <1>1, <1>2, PTL

\* Who writes the lock, and over which lock.
LiveLockChange ==
    lock # NoLock /\ lock' # lock /\ LiveOnDisk(lock)
      => \/ guard # None /\ WindowOf(guard) = Home[lock.owner]
         \/ lock' = [lock EXCEPT !.expired = TRUE]

LEMMA LockWriters ==
    ASSUME LockInv, Step, lock # NoLock, lock' # lock, LiveOnDisk(lock)
    PROVE  \/ guard # None /\ WindowOf(guard) = Home[lock.owner]
           \/ lock' = [lock EXCEPT !.expired = TRUE]
  <1>1. \A t \in Thread : at[t] \in {"section", "judge"} => guard = t /\ guard # None
    BY ThreadFacts DEF LockInv, GuardInv, GuardIsExclusive, Inside
  <1>2. ASSUME NEW w \in Window, RemovePidLockIf(w)
        PROVE  guard # None /\ WindowOf(guard) = Home[lock.owner]
    <2>1. at[w] = "section" /\ lock.owner = Head(chain[w]).session
      BY <1>2 DEF RemovePidLockIf
    <2>2. Home[lock.owner] = w
      BY <2>1, HeadAbandoned
    <2> QED  BY <1>1, <2>1, <2>2, ThreadFacts
  <1>3. ASSUME NEW s \in Session, at[s] = "section", lock.owner = s
        PROVE  guard # None /\ WindowOf(guard) = Home[lock.owner]
    BY <1>1, <1>3, ThreadFacts
  <1>4. ASSUME NEW s \in Session, ReserveReads(s) \/ ReleaseClaim(s) \/ PromoteLock(s)
        PROVE  at[s] = "section" /\ lock.owner = s
    BY <1>4 DEF ReserveReads, SameOwner, ReleaseClaim, PromoteLock, MayPromote
  <1>5. ASSUME NEW s \in Session, Judge(s) PROVE FALSE
    <2>1. saw[s] = lock /\ ~IsPidLockLive(Home[s], saw[s])
      BY <1>5 DEF Judge, LockInv, SessionInv, SessionFits, LockFits
    <2> QED  BY <2>1 DEF IsPidLockLive
  <1>6. ASSUME PendingExpires PROVE lock' = [lock EXCEPT !.expired = TRUE]
    BY <1>6 DEF PendingExpires
  <1>7. ASSUME NEW s \in Session,
               \/ ClaimChecks(s) \/ ReserveAsks(s) \/ ReserveEnds(s) \/ CleanReads(s) \/ CleanEnds(s)
               \/ ReleaseEnds(s) \/ ReclaimEnds(s) \/ PromoteEnds(s) \/ SessionEvent(s)
        PROVE  FALSE
    BY <1>7 DEF ClaimChecks, ReserveAsks, ReserveEnds, CleanReads, CleanEnds, ReleaseEnds,
                ReclaimEnds, PromoteEnds, SessionEvent, Preflight, Attach, CreateDescriptor,
                ActivationSucceeds, ActivationFails, StartRejected, StartEvent, GivesUp,
                AdapterEnds, TerminateEvent, FinalizationEnds, fileVars
  <1>8. ASSUME NEW t \in Thread, GuardStep(t) PROVE FALSE
    BY <1>8 DEF GuardStep, AcquireGuard, SeeStaleGuard, SeeHeldGuard, UnlinkGuard, GuardUnused
  <1>9. ASSUME NEW w \in Window, FinishRemoval(w) \/ RemovalGivesUp(w) \/ WindowDies(w) PROVE FALSE
    BY <1>9 DEF FinishRemoval, RemovalGivesUp, RemovalSettles, WindowDies, fileVars
  <1> QED  BY <1>2, <1>3, <1>4, <1>5, <1>6, <1>7, <1>8, <1>9
              DEF Step, ReserveStep, StartStep, RemovalStep, SessionEvent

\* A live lock is changed by threads of its own window only, or by its time.
THEOREM LiveLockSafe == ~DiesInside => (Spec => LiveLockChangedByItsWindow)
  <1> SUFFICES ASSUME ~DiesInside PROVE Spec => LiveLockChangedByItsWindow
    OBVIOUS
  <1>1. LockInv /\ [Next]_vars => [LiveLockChange]_vars
    <2>1. ASSUME LockInv, Next PROVE LiveLockChange
      BY <2>1, LockWriters DEF LiveLockChange, Next
    <2> QED  BY <2>1
  <1>2. Spec => []LockInv
    BY InvariantLock
  <1>3. Spec => [][Next]_vars
    BY PTL DEF Spec
  <1> QED  BY <1>1, <1>2, <1>3, PTL DEF LiveLockChangedByItsWindow, LiveLockChange
=============================================================================
