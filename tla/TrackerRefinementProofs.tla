---------------------- MODULE TrackerRefinementProofs ----------------------
(***************************************************************************)
(* PodsTracker implements TrackerAbstract under the mapping TrackedBar,    *)
(* FpBar: the fetch that returns is the step at which the abstract poll    *)
(* happens, and the step that applies its result is a stutter of the      *)
(* abstract entries.  The invariant needed is TInv: fingerprints are       *)
(* defined exactly on the tracked set, and the fetched identifier is       *)
(* tracked.                                                                *)
(***************************************************************************)
EXTENDS PodsTrackerProofs

\* Restricting a function to its whole domain gives the function back.
LEMMA RestrictWhole ==
    ASSUME NEW S, NEW T, NEW f \in [S -> T]
    PROVE  Restrict(f, S) = f
  BY DEF Restrict

\* A restriction to a subset of the domain is a function on that subset.
LEMMA RestrictType ==
    ASSUME NEW S, NEW T, NEW f \in [S -> T], NEW R \in SUBSET S
    PROVE  Restrict(f, R) \in [R -> T]
  BY DEF Restrict

\* Outside a returned fetch the abstract entries are the tracker's own.
LEMMA BarsWhenNotFetched ==
    ASSUME TInv, loop # "Fetched"
    PROVE  TrackedBar = tracked /\ FpBar = fp
  BY RestrictWhole DEF TInv, TypeOK, TrackedBar, FpBar

LEMMA InitRefines == Init => Abstract!Init
<1> SUFFICES ASSUME Init PROVE Abstract!Init
  OBVIOUS
<1>1. TrackedBar = {}
  BY DEF Init, TrackedBar
<1>2. FpBar = [p \in {} |-> Abstract!NoStatus]
  BY DEF Init, FpBar, TrackedBar, Restrict
<1>. QED
  BY <1>1, <1>2 DEF Abstract!Init

\* Each step of PodsTracker is a step of TrackerAbstract under the
\* mapping, or leaves the mapped entries unchanged.
LEMMA NextRefines == TInv /\ [Next]_vars => [Abstract!Next]_Abstract!vars
<1> SUFFICES ASSUME TInv, TInv', [Next]_vars PROVE [Abstract!Next]_Abstract!vars
  BY NextTInv
<1>. DEFINE tvars == <<loop, res, cur, snap, tracked, fp>>
<1>0. TypeOK /\ TypeOK' /\ FetchedIsPending
  BY DEF TInv
<1>1. CASE UNCHANGED tvars
  <2>1. UNCHANGED <<TrackedBar, FpBar>>
    BY <1>1 DEF TrackedBar, FpBar
  <2>. QED
    BY <2>1 DEF Abstract!Next, Abstract!Environment
<1>2. CASE TrackerCycle
  <2>1. TrackedBar = tracked /\ FpBar = fp
    BY <1>2, BarsWhenNotFetched DEF TrackerCycle
  <2>2. TrackedBar' = tracked' /\ FpBar' = fp'
    <3>1. loop' # "Fetched"
      BY <1>2 DEF TrackerCycle
    <3>. QED
      BY <3>1, <1>0, RestrictWhole DEF TypeOK, TrackedBar, FpBar
  <2>3. NoStatus = Abstract!NoStatus
    BY DEF NoStatus, Abstract!NoStatus
  <2>4. Abstract!Track
    BY <1>2, <2>1, <2>2, <2>3 DEF TrackerCycle, Abstract!Track, backendVars, orchVars
  <2>. QED
    BY <2>4 DEF Abstract!Next
<1>3. ASSUME NEW p \in Pods, TrackerFetchAnswer(p)
      PROVE  [Abstract!Next]_Abstract!vars
  <2>1. TrackedBar = tracked /\ FpBar = fp
    BY <1>3, BarsWhenNotFetched DEF TrackerFetchAnswer
  <2>2. p \in tracked
    BY <1>3, <1>0 DEF TrackerFetchAnswer, TypeOK
  <2>3. CASE p \in readable
    <3>1. TrackedBar' = tracked /\ FpBar' = [fp EXCEPT ![p] = cstate[p]]
      BY <1>3, <2>3 DEF TrackerFetchAnswer, TrackedBar, FpBar
    <3>2. Abstract!Poll(p)
      BY <1>3, <2>1, <2>2, <2>3, <3>1 DEF TrackerFetchAnswer, Abstract!Poll, backendVars, orchVars
    <3>. QED
      BY <3>2 DEF Abstract!Next
  <2>4. CASE p \notin readable
    <3>1. TrackedBar' = tracked \ {p} /\ FpBar' = Restrict(fp, tracked \ {p})
      BY <1>3, <2>4 DEF TrackerFetchAnswer, TrackedBar, FpBar
    <3>2. Abstract!Restrict(fp, tracked \ {p}) = Restrict(fp, tracked \ {p})
      BY DEF Abstract!Restrict, Restrict
    <3>3. Abstract!Drop(p)
      BY <1>3, <2>1, <2>2, <2>4, <3>1, <3>2 DEF TrackerFetchAnswer, Abstract!Drop, backendVars, orchVars
    <3>. QED
      BY <3>3 DEF Abstract!Next
  <2>. QED
    BY <2>3, <2>4
<1>4. ASSUME NEW p \in Pods, TrackerFetchFail(p)
      PROVE  [Abstract!Next]_Abstract!vars
  <2>1. TrackedBar = tracked /\ FpBar = fp
    BY <1>4, BarsWhenNotFetched DEF TrackerFetchFail
  <2>2. TrackedBar' = tracked /\ FpBar' = fp
    BY <1>4, <1>0, RestrictWhole DEF TrackerFetchFail, TypeOK, TrackedBar, FpBar
  <2>. QED
    BY <2>1, <2>2 DEF Abstract!Next, Abstract!Environment
<1>5. CASE TrackerNotifyChange
  <2>1. cur \in tracked
    BY <1>5, <1>0 DEF FetchedIsPending, TypeOK, TrackerNotifyChange
  <2>2. TrackedBar = tracked /\ FpBar = [fp EXCEPT ![cur] = snap]
    BY <1>5 DEF TrackerNotifyChange, TrackedBar, FpBar
  <2>3. TrackedBar' = tracked /\ FpBar' = [fp EXCEPT ![cur] = snap]
    <3>1. loop' # "Fetched" /\ tracked' = tracked /\ fp' = [fp EXCEPT ![cur] = snap]
      BY <1>5 DEF TrackerNotifyChange
    <3>. QED
      BY <3>1, <1>0, RestrictWhole DEF TypeOK, TrackedBar, FpBar
  <2>. QED
    BY <2>2, <2>3 DEF Abstract!Next, Abstract!Environment
<1>6. CASE TrackerNoChange
  <2>1. cur \in tracked
    BY <1>6, <1>0 DEF FetchedIsPending, TypeOK, TrackerNoChange
  <2>2. TrackedBar = tracked /\ FpBar = fp
    <3>1. CASE res = "Ok" /\ snap = fp[cur]
      BY <1>6, <2>1, <3>1, <1>0 DEF TrackerNoChange, TrackedBar, FpBar, TypeOK
    <3>2. CASE res = "Error"
      BY <1>6, <3>2, <1>0, RestrictWhole DEF TrackerNoChange, TrackedBar, FpBar, TypeOK
    <3>. QED
      BY <1>6, <3>1, <3>2 DEF TrackerNoChange
  <2>3. TrackedBar' = tracked /\ FpBar' = fp
    <3>1. loop' # "Fetched" /\ tracked' = tracked /\ fp' = fp
      BY <1>6 DEF TrackerNoChange
    <3>. QED
      BY <3>1, <1>0, RestrictWhole DEF TypeOK, TrackedBar, FpBar
  <2>. QED
    BY <2>2, <2>3 DEF Abstract!Next, Abstract!Environment
<1>7. CASE TrackerGone
  <2>1. TrackedBar = tracked \ {cur} /\ FpBar = Restrict(fp, tracked \ {cur})
    BY <1>7 DEF TrackerGone, TrackedBar, FpBar
  <2>2. TrackedBar' = tracked \ {cur} /\ FpBar' = Restrict(fp, tracked \ {cur})
    <3>1. loop' # "Fetched" /\ tracked' = tracked \ {cur}
          /\ fp' = Restrict(fp, tracked \ {cur})
      BY <1>7 DEF TrackerGone
    <3>2. fp' \in [tracked' -> Status]
      BY <1>0 DEF TypeOK
    <3>. QED
      BY <3>1, <3>2, RestrictWhole DEF TrackedBar, FpBar
  <2>. QED
    BY <2>1, <2>2 DEF Abstract!Next, Abstract!Environment
<1>8. CASE TrackerCycleEnd \/ TrackerStop
  <2>1. loop # "Fetched" /\ loop' # "Fetched" /\ UNCHANGED <<tracked, fp>>
    BY <1>8 DEF TrackerCycleEnd, TrackerStop
  <2>2. TrackedBar = tracked /\ FpBar = fp
    BY <2>1, BarsWhenNotFetched
  <2>3. TrackedBar' = tracked' /\ FpBar' = fp'
    BY <2>1, <1>0, RestrictWhole DEF TypeOK, TrackedBar, FpBar
  <2>. QED
    BY <2>1, <2>2, <2>3 DEF Abstract!Next, Abstract!Environment
<1>9. ASSUME NEW p \in Pods,
             \/ OrchAddPod(p) \/ OrchDeletePod(p) \/ OrchRemovePod(p)
             \/ BackendSettle(p) \/ BackendLose(p)
             \/ \E c \in Ctrs : BackendStart(p, c) \/ BackendExit(p, c)
             \/ CreatePod(p) \/ DeleteCall(p) \/ DeleteUpdateStatus(p)
      PROVE  UNCHANGED tvars
  BY <1>9 DEF OrchAddPod, OrchDeletePod, OrchRemovePod, BackendSettle,
     BackendLose, BackendStart, BackendExit, CreatePod, DeleteCall,
     DeleteUpdateStatus, trackerVars
<1>10. CASE NotifyPods \/ Cancel \/ UNCHANGED vars
  BY <1>10, <1>1 DEF NotifyPods, Cancel, vars, trackerVars
<1>. QED
  BY <1>1, <1>2, <1>3, <1>4, <1>5, <1>6, <1>7, <1>8, <1>9, <1>10
  DEF Next, TrackerStep

\* PodsTracker implements the tracker's abstract specification, for every
\* set of pods and containers: whatever the handlers, the orchestrator and
\* the backend do, a fingerprint is only a status a read returned and an
\* entry is only dropped on a NotFound read.
THEOREM Refinement == Spec => ImplementsTrackerAbstract
<1>1. Spec => []TInv
  BY InitTInv, NextTInv, PTL DEF Spec
<1>2. []TInv /\ [][Next]_vars => [][Abstract!Next]_Abstract!vars
  BY NextRefines, PTL
<1>. QED
  BY <1>1, <1>2, InitRefines, PTL DEF Spec, ImplementsTrackerAbstract, Abstract!Spec

=============================================================================
