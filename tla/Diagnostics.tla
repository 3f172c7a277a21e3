---------------------------- MODULE Diagnostics ----------------------------
(***************************************************************************)
(* The log-analytics metadata of concurrent CreatePod calls (aci.go).      *)
(* The orchestrator runs several pod workers, so CreatePod runs            *)
(* concurrently for different pods.  getDiagnostics copies the provider's  *)
(* diagnostics struct by value, but the copy's LogAnalytics pointer, and   *)
(* its Metadata map, are the provider's: writing the pod's UID there      *)
(* writes one map shared by all calls.  The request is serialized (and the *)
(* map read) only when CreateContainerGroup sends it.                      *)
(*                                                                         *)
(* Go's map is not safe for concurrent writes: two overlapping writes are  *)
(* a data race, which the runtime may or may not detect; detected, it      *)
(* aborts the process.  A write is two steps here so that the overlap is   *)
(* visible, and each overlap may or may not crash.                         *)
(***************************************************************************)
EXTENDS Naturals

CONSTANTS
    Pods,       \* pods whose CreatePod calls run concurrently
    Insights,   \* diagnostics configured with LogType ContainerInsights
    NoUID       \* the map has no PodUUID entry


VARIABLES
    meta,     \* the shared Metadata map's PodUUID entry (the UID of a pod)
    pc,       \* each call: "start", "writing", "built", "sent"
    sent,     \* the PodUUID each sent request carried
    crashed   \* the runtime detected concurrent map writes

vars == <<meta, pc, sent, crashed>>

Init ==
    /\ meta = NoUID
    /\ pc = [p \in Pods |-> "start"]
    /\ sent = [p \in Pods |-> NoUID]
    /\ crashed = FALSE

Writing == {q \in Pods : pc[q] = "writing"}

\* getDiagnostics, the map assignment begins.  With another write in
\* progress the runtime may detect it.
WriteBegin(p) ==
    /\ ~crashed
    /\ pc[p] = "start"
    /\ Insights
    /\ pc' = [pc EXCEPT ![p] = "writing"]
    /\ crashed' \in IF Writing # {} THEN BOOLEAN ELSE {FALSE}
    /\ UNCHANGED <<meta, sent>>

\* The assignment completes: the shared entry holds this pod's UID.
WriteEnd(p) ==
    /\ ~crashed
    /\ pc[p] = "writing"
    /\ meta' = p
    /\ pc' = [pc EXCEPT ![p] = "built"]
    /\ UNCHANGED <<sent, crashed>>

\* Without ContainerInsights getDiagnostics returns the provider's
\* diagnostics untouched.
NoWrite(p) ==
    /\ ~crashed
    /\ pc[p] = "start"
    /\ ~Insights
    /\ pc' = [pc EXCEPT ![p] = "built"]
    /\ UNCHANGED <<meta, sent, crashed>>

\* CreateContainerGroup serializes the request, reading the map now.
Send(p) ==
    /\ ~crashed
    /\ pc[p] = "built"
    /\ sent' = [sent EXCEPT ![p] = meta]
    /\ pc' = [pc EXCEPT ![p] = "sent"]
    /\ UNCHANGED <<meta, crashed>>

Done == crashed \/ \A p \in Pods : pc[p] = "sent"

\* Once every call has returned, or the process has aborted, nothing moves.
Terminating == Done /\ UNCHANGED vars

Next ==
    \/ \E p \in Pods : WriteBegin(p) \/ WriteEnd(p) \/ NoWrite(p) \/ Send(p)
    \/ Terminating

Spec == Init /\ [][Next]_vars

\* Spec 9: the diagnostics configuration is shared and must be immutable,
\* built once and passed by reference; a pod's request carries its own
\* UID as the PodUUID metadata (getDiagnostics' purpose), and no
\* concurrent CreatePod calls abort the provider.
RequestCarriesOwnUID ==
    /\ ~crashed
    /\ \A p \in Pods : pc[p] = "sent" /\ Insights => sent[p] = p

=============================================================================
