---------------------------- MODULE PodsTracker ----------------------------
(***************************************************************************)
(* The pod lifecycle of the ACI virtual-kubelet provider: the orchestrator *)
(* (virtual-kubelet's pod controller) adds and deletes pods, the provider  *)
(* handlers CreatePod, DeletePod and NotifyPods of pkg/provider/aci.go     *)
(* talk to the ACI backend, and the status tracker (spec section 4.2)      *)
(* polls the backend and reports status changes through the callback that *)
(* NotifyPods registered.                                                  *)
(*                                                                         *)
(* The backend is eventually consistent: a read (GetContainerGroupInfo)    *)
(* sees a created group only after it has settled, and keeps seeing a      *)
(* deleted group until the deletion has settled.  Container states move   *)
(* Waiting -> Running -> Terminated on the backend's own schedule.         *)
(***************************************************************************)
EXTENDS Functions

CONSTANTS
    Pods,       \* pod identifiers (namespace, name); the reconciliation key
    Ctrs        \* container names of a pod

ASSUME PodsAssumption == Pods # {} /\ Ctrs # {}

\* Backend container states, and the states the orchestrator can be told.
\* "None": no status reported yet; "Deleted": terminated with reason
\* NotFound, exit code 0 (statusReasonPodDeleted, aci.go line 63).
BState == {"Waiting", "Running", "Terminated"}
CState == BState \cup {"None", "Deleted"}
Status == [Ctrs -> CState]
NoStatus == [c \in Ctrs |-> "None"]

\* Outcome of one status fetch: found, not found, or any other error.
Results == {"Ok", "NotFound", "Error"}

\* The fetch registers are cleared once their result has been applied.
NoPod == CHOOSE p \in Pods : TRUE

VARIABLES
    \* ACI backend
    groups,     \* container groups that exist
    readable,   \* groups a read currently finds (lags create and delete)
    cstate,     \* cstate[p][c]: backend state of container c of group p
    \* orchestrator (virtual-kubelet pod controller)
    pods,       \* pods bound to this node
    view,       \* view[p]: the status the orchestrator holds for pod p
    creq,       \* pods whose CreatePod is still to be (re)tried
    del,        \* del[p]: progress of DeletePod for p
    \* provider and tracker
    started,    \* p.tracker != nil: NotifyPods has run
    cancelled,  \* the tracking context has been cancelled
    loop,       \* tracker loop position
    tracked,    \* identifiers with a TrackerEntry
    fp,         \* fp[p]: last-known status fingerprint of entry p
    todo,       \* identifiers still to poll in the current cycle
    cur,        \* identifier whose fetch has returned
    res,        \* result of that fetch
    snap,       \* status read by that fetch
    \* auxiliary, for properties only
    ncb         \* ncb[p]: callbacks delivered for p in the current cycle

backendVars == <<groups, readable, cstate>>
orchVars == <<pods, view, creq, del>>
trackerVars == <<started, cancelled, loop, tracked, fp, todo, cur, res, snap>>
vars == <<backendVars, orchVars, trackerVars, ncb>>

\* Saturating callback counter: two callbacks in one cycle is the most any
\* property distinguishes.
CbCap == 2
Bump(n) == IF n < CbCap THEN n + 1 ELSE n

TypeOK ==
    /\ groups \subseteq Pods
    /\ readable \subseteq Pods
    /\ cstate \in [Pods -> [Ctrs -> BState]]
    /\ pods \subseteq Pods
    /\ view \in [Pods -> Status]
    /\ creq \subseteq Pods
    /\ del \in [Pods -> {"Idle", "Requested", "Called", "Done"}]
    /\ started \in BOOLEAN
    /\ cancelled \in BOOLEAN
    /\ loop \in {"Sleep", "Scan", "Fetched", "Stopped"}
    /\ tracked \subseteq Pods
    /\ fp \in [tracked -> Status]
    /\ todo \subseteq tracked
    /\ cur \in Pods
    /\ res \in Results
    /\ snap \in Status
    /\ ncb \in [Pods -> 0..CbCap]

Init ==
    /\ groups = {}
    /\ readable = {}
    /\ cstate = [p \in Pods |-> [c \in Ctrs |-> "Waiting"]]
    /\ pods = {}
    /\ view = [p \in Pods |-> NoStatus]
    /\ creq = {}
    /\ del = [p \in Pods |-> "Idle"]
    /\ started = FALSE
    /\ cancelled = FALSE
    /\ loop = "Sleep"
    /\ tracked = {}
    /\ fp = [p \in {} |-> NoStatus]
    /\ todo = {}
    /\ cur = NoPod
    /\ res = "Ok"
    /\ snap = NoStatus
    /\ ncb = [p \in Pods |-> 0]

(***************************************************************************)
(* The orchestrator (environment): binds a pod to the node, asks for its   *)
(* deletion, and forgets it once DeletePod has returned nil.  It never     *)
(* issues a create and a delete for one identifier at once (spec 5).       *)
(***************************************************************************)
OrchAddPod(p) ==
    /\ p \notin pods
    /\ del[p] = "Idle"
    /\ pods' = pods \cup {p}
    /\ view' = [view EXCEPT ![p] = NoStatus]
    /\ creq' = creq \cup {p}
    /\ UNCHANGED <<backendVars, del, trackerVars, ncb>>

OrchDeletePod(p) ==
    /\ p \in pods
    /\ del[p] = "Idle"
    /\ del' = [del EXCEPT ![p] = "Requested"]
    /\ creq' = creq \ {p}
    /\ UNCHANGED <<backendVars, pods, view, trackerVars, ncb>>

OrchRemovePod(p) ==
    /\ del[p] = "Done"
    /\ pods' = pods \ {p}
    /\ view' = [view EXCEPT ![p] = NoStatus]
    /\ del' = [del EXCEPT ![p] = "Idle"]
    /\ UNCHANGED <<backendVars, creq, trackerVars, ncb>>

(***************************************************************************)
(* The ACI backend (environment).                                          *)
(***************************************************************************)
\* Once a deletion has settled nothing reads the group's containers until
\* a create resets them.
BackendSettle(p) ==
    /\ (p \in groups) # (p \in readable)
    /\ \/ /\ p \in groups
          /\ readable' = readable \cup {p}
          /\ UNCHANGED cstate
       \/ /\ p \notin groups
          /\ readable' = readable \ {p}
          /\ cstate' = [cstate EXCEPT ![p] = [c \in Ctrs |-> "Waiting"]]
    /\ UNCHANGED <<groups, orchVars, trackerVars, ncb>>

BackendStart(p, c) ==
    /\ p \in groups
    /\ cstate[p][c] = "Waiting"
    /\ cstate' = [cstate EXCEPT ![p][c] = "Running"]
    /\ UNCHANGED <<groups, readable, orchVars, trackerVars, ncb>>

BackendExit(p, c) ==
    /\ p \in groups
    /\ cstate[p][c] = "Running"
    /\ cstate' = [cstate EXCEPT ![p][c] = "Terminated"]
    /\ UNCHANGED <<groups, readable, orchVars, trackerVars, ncb>>

\* The group is deleted out of band (portal, CLI, another controller).
BackendLose(p) ==
    /\ p \in groups
    /\ groups' = groups \ {p}
    /\ UNCHANGED <<readable, cstate, orchVars, trackerVars, ncb>>

(***************************************************************************)
(* Provider handlers (aci.go).                                             *)
(***************************************************************************)

\* The status the DeletePod handler hands to UpdatePodStatus, and the one
\* the tracker synthesizes for a group gone missing: every container that
\* was running becomes terminated with reason NotFound; others are kept.
MarkDeleted(s) == [c \in Ctrs |-> IF s[c] = "Running" THEN "Deleted" ELSE s[c]]

\* The callback registered by NotifyPods: the orchestrator takes the status
\* of a pod it still has, and drops an update for a pod it no longer has.
Notify(p, s) ==
    /\ view' = IF p \in pods THEN [view EXCEPT ![p] = s] ELSE view
    /\ ncb' = [ncb EXCEPT ![p] = Bump(@)]

\* CreatePod: the translated container group is submitted with
\* CreateContainerGroup (a PUT: it replaces a group of that name).  On
\* success the group exists with every container waiting.  On an error the
\* orchestrator retries later; the call may still have created the group
\* (an error after the backend accepted the request).
CreatePod(p) ==
    /\ p \in creq
    /\ \/ /\ groups' = groups \cup {p}
          /\ cstate' = [cstate EXCEPT ![p] = [c \in Ctrs |-> "Waiting"]]
          /\ creq' = creq \ {p}
       \/ /\ groups' \in {groups, groups \cup {p}}
          /\ cstate' = [cstate EXCEPT ![p] = [c \in Ctrs |-> "Waiting"]]
          /\ creq' = creq
    /\ UNCHANGED <<readable, pods, view, del, trackerVars, ncb>>

\* Mutant: the error of DeleteContainerGroup is logged and dropped, and
\* DeletePod goes on as if the group were gone.
DeleteCallIgnoresError(p) ==
    /\ del[p] = "Requested"
    /\ groups' \in {groups \ {p}, groups}
    /\ del' = [del EXCEPT ![p] = "Called"]
    /\ UNCHANGED <<readable, cstate, pods, view, creq, trackerVars, ncb>>

\* deleteContainerGroup, first half: DeleteContainerGroup on the backend.
\* An error is returned to the orchestrator, which retries (no change).
DeleteCall(p) ==
    /\ del[p] = "Requested"
    /\ groups' = groups \ {p}
    /\ del' = [del EXCEPT ![p] = "Called"]
    /\ UNCHANGED <<readable, cstate, pods, view, creq, trackerVars, ncb>>

\* deleteContainerGroup, second half: if the tracker exists, UpdatePodStatus
\* reads the orchestrator's pod and reports its running containers as
\* terminated through the callback; a pod the orchestrator no longer has
\* gives NotFound, which is ignored.  DeletePod then returns nil.
DeleteUpdateStatus(p) ==
    /\ del[p] = "Called"
    /\ del' = [del EXCEPT ![p] = "Done"]
    /\ IF started /\ p \in pods
         THEN Notify(p, MarkDeleted(view[p]))
         ELSE UNCHANGED <<view, ncb>>
    /\ UNCHANGED <<backendVars, pods, creq, trackerVars>>

\* NotifyPods: creates the tracker and starts its loop.
NotifyPods ==
    /\ ~started
    /\ started' = TRUE
    /\ UNCHANGED <<backendVars, orchVars, cancelled, loop, tracked, fp,
                   todo, cur, res, snap, ncb>>

Cancel ==
    /\ ~cancelled
    /\ cancelled' = TRUE
    /\ UNCHANGED <<backendVars, orchVars, started, loop, tracked, fp,
                   todo, cur, res, snap, ncb>>

(***************************************************************************)
(* The tracker loop (spec 4.2): serialized, one identifier at a time.      *)
(***************************************************************************)

\* Cycle start: take the orchestrator's pods, create entries for new ones,
\* and schedule every tracked identifier for a poll.
TrackerCycle ==
    /\ started
    /\ loop = "Sleep"
    /\ ~cancelled
    /\ tracked' = tracked \cup pods
    /\ fp' = [q \in tracked \cup pods |-> IF q \in tracked THEN fp[q] ELSE NoStatus]
    /\ todo' = tracked \cup pods
    /\ loop' = "Scan"
    /\ ncb' = [q \in Pods |-> 0]
    /\ UNCHANGED <<backendVars, orchVars, started, cancelled, cur, res, snap>>

\* Mutant: a not-found answer is not told apart from other errors.
TrackerFetchNotFoundAsError(p) ==
    /\ loop = "Scan"
    /\ p \in todo
    /\ loop' = "Fetched"
    /\ cur' = p
    /\ res' = IF p \in readable THEN "Ok" ELSE "Error"
    /\ snap' = cstate[p]
    /\ UNCHANGED <<backendVars, orchVars, started, cancelled, tracked, fp, todo, ncb>>

\* FetchPodStatus -> GetPodStatus: GetContainerGroupInfo, then validation
\* and conversion to a pod status.  A group the read does not find is
\* NotFound.
TrackerFetchAnswer(p) ==
    /\ loop = "Scan"
    /\ p \in todo
    /\ loop' = "Fetched"
    /\ cur' = p
    /\ res' = IF p \in readable THEN "Ok" ELSE "NotFound"
    /\ snap' = cstate[p]
    /\ UNCHANGED <<backendVars, orchVars, started, cancelled, tracked, fp, todo, ncb>>

\* The same call failing: a transport error or a group that fails validation.
TrackerFetchFail(p) ==
    /\ loop = "Scan"
    /\ p \in todo
    /\ loop' = "Fetched"
    /\ cur' = p
    /\ res' = "Error"
    /\ UNCHANGED <<backendVars, orchVars, started, cancelled, tracked, fp, todo, snap, ncb>>

ClearFetch ==
    /\ cur' = NoPod
    /\ res' = "Ok"
    /\ snap' = NoStatus

\* Success with a changed status: report it and remember it.
TrackerNotifyChange ==
    /\ loop = "Fetched"
    /\ res = "Ok"
    /\ snap # fp[cur]
    /\ Notify(cur, snap)
    /\ fp' = [fp EXCEPT ![cur] = snap]
    /\ todo' = todo \ {cur}
    /\ loop' = "Scan"
    /\ ClearFetch
    /\ UNCHANGED <<backendVars, pods, creq, del, started, cancelled, tracked>>

\* Success with an unchanged status, or an error: nothing is reported, the
\* entry stays, and the identifier is polled again next cycle.
TrackerNoChange ==
    /\ loop = "Fetched"
    /\ \/ res = "Ok" /\ snap = fp[cur]
       \/ res = "Error"
    /\ todo' = todo \ {cur}
    /\ loop' = "Scan"
    /\ ClearFetch
    /\ UNCHANGED <<backendVars, orchVars, started, cancelled, tracked, fp, ncb>>

\* Mutant: the entry is dropped from the tracked set but its fingerprint
\* is left in the map.
TrackerGoneKeepsFp ==
    /\ loop = "Fetched"
    /\ res = "NotFound"
    /\ Notify(cur, MarkDeleted(fp[cur]))
    /\ tracked' = tracked \ {cur}
    /\ fp' = fp
    /\ todo' = todo \ {cur}
    /\ loop' = "Scan"
    /\ ClearFetch
    /\ UNCHANGED <<backendVars, pods, creq, del, started, cancelled>>

\* Mutant: every failed fetch, not only NotFound, is taken for a group gone.
TrackerGoneOnError ==
    /\ loop = "Fetched"
    /\ res # "Ok"
    /\ Notify(cur, MarkDeleted(fp[cur]))
    /\ tracked' = tracked \ {cur}
    /\ fp' = Restrict(fp, tracked \ {cur})
    /\ todo' = todo \ {cur}
    /\ loop' = "Scan"
    /\ ClearFetch
    /\ UNCHANGED <<backendVars, pods, creq, del, started, cancelled>>

\* Not found: the unit was deleted out of band.  Report every container
\* last seen running as terminated, once, and drop the entry.
TrackerGone ==
    /\ loop = "Fetched"
    /\ res = "NotFound"
    /\ Notify(cur, MarkDeleted(fp[cur]))
    /\ tracked' = tracked \ {cur}
    /\ fp' = Restrict(fp, tracked \ {cur})
    /\ todo' = todo \ {cur}
    /\ loop' = "Scan"
    /\ ClearFetch
    /\ UNCHANGED <<backendVars, pods, creq, del, started, cancelled>>

\* Cycle end: sleep for the poll interval.
TrackerCycleEnd ==
    /\ loop = "Scan"
    /\ todo = {}
    /\ loop' = "Sleep"
    /\ UNCHANGED <<backendVars, orchVars, started, cancelled, tracked, fp, todo, cur, res, snap, ncb>>

\* A cancelled context stops the loop between cycles.
TrackerStop ==
    /\ loop = "Sleep"
    /\ cancelled
    /\ loop' = "Stopped"
    /\ UNCHANGED <<backendVars, orchVars, started, cancelled, tracked, fp, todo, cur, res, snap, ncb>>

TrackerStep ==
    \/ TrackerCycle
    \/ \E p \in Pods : TrackerFetchAnswer(p) \/ TrackerFetchFail(p)
    \/ TrackerNotifyChange
    \/ TrackerNoChange
    \/ TrackerGone
    \/ TrackerCycleEnd
    \/ TrackerStop

Next ==
    \/ \E p \in Pods :
        \/ OrchAddPod(p) \/ OrchDeletePod(p) \/ OrchRemovePod(p)
        \/ BackendSettle(p) \/ BackendLose(p)
        \/ \E c \in Ctrs : BackendStart(p, c) \/ BackendExit(p, c)
        \/ CreatePod(p) \/ DeleteCall(p) \/ DeleteUpdateStatus(p)
    \/ NotifyPods
    \/ Cancel
    \/ TrackerStep

(***************************************************************************)
(* Fairness.  The tracker loop runs on a timer and each of its steps is    *)
(* weakly fair; a status fetch does not fail forever for one group (strong *)
(* fairness on its answer, which is enabled only while that group is       *)
(* polled); NotifyPods is called once at start-up; a DeletePod call that   *)
(* has deleted the group goes on to its status update; and the backend's   *)
(* reads eventually catch up with its writes.  The orchestrator and the    *)
(* backend's container transitions get no fairness.                        *)
(***************************************************************************)
Fairness ==
    /\ WF_vars(TrackerStep)
    /\ \A p \in Pods : SF_vars(TrackerFetchAnswer(p))
    /\ WF_vars(NotifyPods)
    /\ \A p \in Pods : WF_vars(DeleteUpdateStatus(p))
    /\ \A p \in Pods : WF_vars(BackendSettle(p))

Spec == Init /\ [][Next]_vars /\ Fairness

-----------------------------------------------------------------------------
(***************************************************************************)
(* Properties                                                              *)
(***************************************************************************)

NoneRunning(s) == \A c \in Ctrs : s[c] # "Running"

\* No leaked container group: every group in the backend belongs to a pod
\* the orchestrator still has and whose DeletePod has not yet returned nil.
\* This rests on deleteContainerGroup returning the backend's error (so the
\* orchestrator retries instead of forgetting the pod) and on a pending
\* CreatePod being abandoned once the pod is being deleted.
NoOrphanGroup ==
    \A p \in groups : p \in pods /\ del[p] \in {"Idle", "Requested"}

\* A group gone for good converges: if a pod stays bound to the node while
\* its container group stays absent from the backend, the orchestrator
\* eventually and for ever sees none of its containers running (the
\* tracker's NotFound path, spec 4.2 step 5).
GoneConverges ==
    \A p \in Pods :
        (<>[](p \in pods /\ p \notin groups) /\ []~cancelled)
            => <>[]NoneRunning(view[p])

\* The comment of deleteContainerGroup (aci.go line 410): once DeletePod
\* has deleted the group and reported it, termination is taken as
\* completed, so the orchestrator does not see a running container of the
\* pod again before it forgets the pod.
DeletedStaysTerminated ==
    \A p \in Pods : del[p] = "Done" => NoneRunning(view[p])

\* Spec 4.2 and 5: the callback is invoked at most once per identifier per
\* poll cycle, and the tracker is its sole caller (spec 6).
OneCallbackPerCycle ==
    \A p \in Pods : ncb[p] <= 1

-----------------------------------------------------------------------------
(***************************************************************************)
(* Refinement.  A poll takes effect when its read returns: once a fetch    *)
(* has answered, the abstract entry already holds what was read (or is     *)
(* already dropped), though the tracker applies it one step later.         *)
(***************************************************************************)
TrackedBar ==
    IF loop = "Fetched" /\ res = "NotFound" THEN tracked \ {cur} ELSE tracked

FpBar ==
    IF loop = "Fetched" /\ res = "Ok" THEN [fp EXCEPT ![cur] = snap]
    ELSE Restrict(fp, TrackedBar)

Abstract == INSTANCE TrackerAbstract WITH tracked <- TrackedBar, fp <- FpBar

\* Spec 4.2 and 5: the tracker keeps its entries as TrackerAbstract says,
\* whatever the handlers and the backend do in between: a fingerprint is
\* only ever a status a read returned for that pod, and an entry is dropped
\* only on a NotFound read.
ImplementsTrackerAbstract == Abstract!Spec

=============================================================================
