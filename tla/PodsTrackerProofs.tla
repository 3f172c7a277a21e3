------------------------- MODULE PodsTrackerProofs -------------------------
(***************************************************************************)
(* Proofs about PodsTracker, for every set of pods and containers.         *)
(***************************************************************************)
EXTENDS PodsTracker, TLAPS

\* A pending CreatePod is for a pod the orchestrator has and is not
\* deleting: the orchestrator drops the request when it starts a delete.
CreateRequestsLive ==
    \A p \in creq : p \in pods /\ del[p] = "Idle"


\* The fetch that has returned is for an identifier still to poll, hence
\* tracked: the tracker's use of fp[cur] is defined.
FetchedIsPending == loop = "Fetched" => cur \in todo

TInv == TypeOK /\ FetchedIsPending

\* The inductive invariant behind NoOrphanGroup.  NoOrphanGroup alone is
\* not inductive: a retried CreatePod could add a group for a pod that is
\* being deleted unless every pending create is known to be live.
OrphanInv == NoOrphanGroup /\ CreateRequestsLive

-----------------------------------------------------------------------------
LEMMA NoPodType == NoPod \in Pods
  BY PodsAssumption DEF NoPod

LEMMA MarkDeletedType ==
    ASSUME NEW s \in Status
    PROVE  MarkDeleted(s) \in Status
  BY DEF MarkDeleted, Status, CState, BState

LEMMA BumpType ==
    ASSUME NEW n \in 0..CbCap
    PROVE  Bump(n) \in 0..CbCap
  BY DEF Bump, CbCap

\* The callback keeps the orchestrator's view and the callback counter typed.
LEMMA NotifyType ==
    ASSUME TypeOK, NEW p \in Pods, NEW s \in Status, Notify(p, s)
    PROVE  view' \in [Pods -> Status] /\ ncb' \in [Pods -> 0..CbCap]
  BY BumpType DEF Notify, TypeOK

LEMMA InitTInv == Init => TInv
<1> SUFFICES ASSUME Init PROVE TInv
  OBVIOUS
<1>1. NoStatus \in Status
  BY DEF NoStatus, Status, CState
<1>2. fp \in [tracked -> Status]
  BY <1>1 DEF Init
<1>3. cstate \in [Pods -> [Ctrs -> BState]] /\ view \in [Pods -> Status]
  BY <1>1 DEF Init, BState
<1>4. ncb \in [Pods -> 0..CbCap]
  BY DEF Init, CbCap
<1>5. cur \in Pods /\ res \in Results /\ snap \in Status
  BY <1>1, NoPodType DEF Init, Results
<1>6. QED
  BY <1>2, <1>3, <1>4, <1>5 DEF Init, TInv, TypeOK, FetchedIsPending

\* Type correctness is preserved by every step.
LEMMA NextTInv == TInv /\ [Next]_vars => TInv'
<1> SUFFICES ASSUME TInv, [Next]_vars PROVE TInv'
  OBVIOUS
<1>. USE DEF TInv, TypeOK, FetchedIsPending, backendVars, orchVars, trackerVars
<1>1. ASSUME NEW p \in Pods, OrchAddPod(p) PROVE TInv'
  BY <1>1 DEF OrchAddPod, Status, NoStatus, CState, BState
<1>2. ASSUME NEW p \in Pods, OrchDeletePod(p) PROVE TInv'
  BY <1>2 DEF OrchDeletePod
<1>3. ASSUME NEW p \in Pods, OrchRemovePod(p) PROVE TInv'
  BY <1>3 DEF OrchRemovePod, Status, NoStatus, CState, BState
<1>4. ASSUME NEW p \in Pods, BackendSettle(p) PROVE TInv'
  BY <1>4 DEF BackendSettle, BState
<1>5. ASSUME NEW p \in Pods, BackendLose(p) PROVE TInv'
  BY <1>5 DEF BackendLose
<1>6. ASSUME NEW p \in Pods, NEW c \in Ctrs, BackendStart(p, c) PROVE TInv'
  BY <1>6 DEF BackendStart, BState
<1>7. ASSUME NEW p \in Pods, NEW c \in Ctrs, BackendExit(p, c) PROVE TInv'
  BY <1>7 DEF BackendExit, BState
<1>8. ASSUME NEW p \in Pods, CreatePod(p) PROVE TInv'
  <2>1. cstate' \in [Pods -> [Ctrs -> BState]]
    BY <1>8 DEF CreatePod, BState
  <2>2. groups' \subseteq Pods /\ creq' \subseteq Pods
    BY <1>8 DEF CreatePod
  <2>3. QED
    BY <1>8, <2>1, <2>2 DEF CreatePod
<1>9. ASSUME NEW p \in Pods, DeleteCall(p) PROVE TInv'
  BY <1>9 DEF DeleteCall
<1>10. ASSUME NEW p \in Pods, DeleteUpdateStatus(p) PROVE TInv'
  <2>1. CASE started /\ p \in pods
    <3>1. view' \in [Pods -> Status] /\ ncb' \in [Pods -> 0..CbCap]
      BY <1>10, <2>1, NotifyType, MarkDeletedType DEF DeleteUpdateStatus
    <3>2. QED BY <1>10, <3>1 DEF DeleteUpdateStatus
  <2>2. CASE ~(started /\ p \in pods)
    BY <1>10, <2>2 DEF DeleteUpdateStatus
  <2>3. QED BY <2>1, <2>2
<1>11. CASE NotifyPods
  BY <1>11 DEF NotifyPods
<1>12. CASE Cancel
  BY <1>12 DEF Cancel
<1>13. CASE TrackerCycle
  <2>1. NoStatus \in Status
    BY DEF NoStatus, Status, CState
  <2>2. fp' \in [tracked' -> Status]
    BY <1>13, <2>1 DEF TrackerCycle
  <2>3. tracked' \subseteq Pods /\ todo' \subseteq tracked'
    BY <1>13 DEF TrackerCycle
  <2>4. ncb' \in [Pods -> 0..CbCap] /\ loop' = "Scan"
    BY <1>13 DEF TrackerCycle, CbCap
  <2>5. UNCHANGED <<backendVars, orchVars, started, cancelled, cur, res, snap>>
    BY <1>13 DEF TrackerCycle
  <2>6. QED
    BY <2>2, <2>3, <2>4, <2>5
<1>14. ASSUME NEW p \in Pods, TrackerFetchAnswer(p) PROVE TInv'
  BY <1>14 DEF TrackerFetchAnswer, Results, Status, CState
<1>15. ASSUME NEW p \in Pods, TrackerFetchFail(p) PROVE TInv'
  BY <1>15 DEF TrackerFetchFail, Results
<1>16. CASE TrackerNotifyChange
  <2>1. view' \in [Pods -> Status] /\ ncb' \in [Pods -> 0..CbCap]
    BY <1>16, NotifyType DEF TrackerNotifyChange
  <2>2. QED
    BY <1>16, <2>1, NoPodType DEF TrackerNotifyChange, ClearFetch, Results,
       Status, NoStatus, CState
<1>17. CASE TrackerNoChange
  BY <1>17, NoPodType DEF TrackerNoChange, ClearFetch, Results, Status,
     NoStatus, CState
<1>18. CASE TrackerGone
  <2>1. fp[cur] \in Status
    BY <1>18 DEF TrackerGone
  <2>2. view' \in [Pods -> Status] /\ ncb' \in [Pods -> 0..CbCap]
    BY <1>18, <2>1, NotifyType, MarkDeletedType DEF TrackerGone
  <2>3. fp' \in [tracked' -> Status]
    BY <1>18 DEF TrackerGone, Restrict
  <2>4. QED
    BY <1>18, <2>2, <2>3, NoPodType DEF TrackerGone, ClearFetch, Results,
       Status, NoStatus, CState
<1>19. CASE TrackerCycleEnd
  BY <1>19 DEF TrackerCycleEnd
<1>20. CASE TrackerStop
  BY <1>20 DEF TrackerStop
<1>21. CASE UNCHANGED vars
  BY <1>21 DEF vars, backendVars, orchVars, trackerVars
<1>22. QED
  BY <1>1, <1>2, <1>3, <1>4, <1>5, <1>6, <1>7, <1>8, <1>9, <1>10, <1>11,
     <1>12, <1>13, <1>14, <1>15, <1>16, <1>17, <1>18, <1>19, <1>20, <1>21
  DEF Next, TrackerStep

\* Every reachable state is well typed, whatever the sets of pods and
\* containers: in particular the tracker only reads fingerprints of
\* identifiers it tracks, and the callback counter stays within its cap.
THEOREM TypeCorrect == Spec => []TypeOK
<1>1. TInv => TypeOK
  BY DEF TInv
<1>2. QED
  BY InitTInv, NextTInv, <1>1, PTL DEF Spec

-----------------------------------------------------------------------------
LEMMA InitOrphanInv == Init => OrphanInv
  BY DEF Init, OrphanInv, NoOrphanGroup, CreateRequestsLive

\* Only the orchestrator, CreatePod, DeletePod and the backend's own
\* deletion touch groups, pods, pending creates and delete progress.
LEMMA NextOrphanInv == TInv /\ OrphanInv /\ [Next]_vars => OrphanInv'
<1> SUFFICES ASSUME TInv, OrphanInv, [Next]_vars PROVE OrphanInv'
  OBVIOUS
<1>. USE DEF OrphanInv, NoOrphanGroup, CreateRequestsLive
<1>. DEFINE Touched == <<groups, pods, creq, del>>
<1>1. ASSUME NEW p \in Pods, OrchAddPod(p) PROVE OrphanInv'
  \* p is not bound, so it has no group; the new request is live.
  BY <1>1 DEF OrchAddPod, backendVars
<1>2. ASSUME NEW p \in Pods, OrchDeletePod(p) PROVE OrphanInv'
  \* p's group may stay while its delete is requested; its create is dropped.
  BY <1>2 DEF OrchDeletePod, backendVars, TInv, TypeOK
<1>3. ASSUME NEW p \in Pods, OrchRemovePod(p) PROVE OrphanInv'
  \* A pod whose DeletePod returned has no group and no pending create.
  BY <1>3 DEF OrchRemovePod, backendVars, TInv, TypeOK
<1>4. ASSUME NEW p \in Pods, BackendLose(p) PROVE OrphanInv'
  BY <1>4 DEF BackendLose, orchVars
<1>5. ASSUME NEW p \in Pods, CreatePod(p) PROVE OrphanInv'
  \* A pending create is for a bound pod that is not being deleted.
  BY <1>5 DEF CreatePod
<1>6. ASSUME NEW p \in Pods, DeleteCall(p) PROVE OrphanInv'
  \* The group is gone before the delete moves past "Requested".
  BY <1>6 DEF DeleteCall, TInv, TypeOK
<1>7. ASSUME NEW p \in Pods, DeleteUpdateStatus(p) PROVE OrphanInv'
  BY <1>7 DEF DeleteUpdateStatus, backendVars, TInv, TypeOK
<1>8. ASSUME NEW p \in Pods,
             \/ BackendSettle(p)
             \/ \E c \in Ctrs : BackendStart(p, c) \/ BackendExit(p, c)
      PROVE  UNCHANGED Touched
  BY <1>8 DEF BackendSettle, BackendStart, BackendExit, orchVars
<1>9. ASSUME NotifyPods \/ Cancel \/ TrackerStep PROVE UNCHANGED Touched
  BY <1>9 DEF NotifyPods, Cancel, TrackerStep, TrackerCycle,
     TrackerFetchAnswer, TrackerFetchFail, TrackerNotifyChange,
     TrackerNoChange, TrackerGone, TrackerCycleEnd, TrackerStop,
     Notify, backendVars, orchVars
<1>10. ASSUME UNCHANGED Touched PROVE OrphanInv'
  BY <1>10
<1>11. CASE UNCHANGED vars
  BY <1>11 DEF vars, backendVars, orchVars
<1>12. QED
  BY <1>1, <1>2, <1>3, <1>4, <1>5, <1>6, <1>7, <1>8, <1>9, <1>10, <1>11
  DEF Next

\* No container group leaks, whatever the sets of pods and containers:
\* every group in the backend belongs to a pod the orchestrator still has
\* and whose DeletePod has not yet returned nil.
THEOREM NoOrphan == Spec => []NoOrphanGroup
<1>1. TInv /\ OrphanInv => NoOrphanGroup
  BY DEF OrphanInv
<1>2. QED
  BY InitTInv, NextTInv, InitOrphanInv, NextOrphanInv, <1>1, PTL DEF Spec

=============================================================================
