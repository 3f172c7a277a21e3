-------------------------- MODULE TrackerAbstract --------------------------
(***************************************************************************)
(* What the reconciliation tracker promises about its own bookkeeping      *)
(* (spec 3 TrackerEntry, 4.2 and 5), with every poll one atomic step:     *)
(*  - an entry is created, with no status yet, for a pod the orchestrator  *)
(*    has;                                                                 *)
(*  - a fingerprint changes only to the container states a read of the     *)
(*    backend returned for that pod;                                       *)
(*  - an entry is dropped only when a read found no group for it.          *)
(* The orchestrator's pods and the backend's readable groups and           *)
(* container states are the environment: they change freely while the    *)
(* tracker's state stays put.                                              *)
(***************************************************************************)
EXTENDS Functions

CONSTANTS Pods, Ctrs

VARIABLES
    pods,       \* the orchestrator's pods
    readable,   \* groups a read of the backend finds
    cstate,     \* container states a read returns
    tracked,    \* identifiers with an entry
    fp          \* fp[p]: last-known status of entry p

vars == <<pods, readable, cstate, tracked, fp>>

NoStatus == [c \in Ctrs |-> "None"]

Init ==
    /\ tracked = {}
    /\ fp = [p \in {} |-> NoStatus]

\* A cycle's start: entries for the orchestrator's pods not yet tracked.
Track ==
    /\ tracked' = tracked \cup pods
    /\ fp' = [q \in tracked \cup pods |-> IF q \in tracked THEN fp[q] ELSE NoStatus]
    /\ UNCHANGED <<pods, readable, cstate>>

\* A read that finds the group: the entry's status is what it returned.
Poll(p) ==
    /\ p \in tracked
    /\ p \in readable
    /\ fp' = [fp EXCEPT ![p] = cstate[p]]
    /\ UNCHANGED <<pods, readable, cstate, tracked>>

\* A read that finds no group: the entry is dropped.
Drop(p) ==
    /\ p \in tracked
    /\ p \notin readable
    /\ tracked' = tracked \ {p}
    /\ fp' = Restrict(fp, tracked \ {p})
    /\ UNCHANGED <<pods, readable, cstate>>

\* Everything else the system does leaves the entries alone.
Environment == UNCHANGED <<tracked, fp>>

Next == Track \/ (\E p \in Pods : Poll(p) \/ Drop(p)) \/ Environment

Spec == Init /\ [][Next]_vars

=============================================================================
