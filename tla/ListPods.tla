----------------------------- MODULE ListPods ------------------------------
(***************************************************************************)
(* GetPods and ListActivePods (aci.go): list the resource group's          *)
(* container groups and keep the pods of this node.  The backend's groups  *)
(* change between calls (creates and deletes by this and other nodes); a   *)
(* call reads one listing and returns the names it keeps, or an error.     *)
(***************************************************************************)
EXTENDS FiniteSets

CONSTANTS
    Names,   \* container group names
    Nodes,   \* values of the NodeName tag
    Self     \* p.nodeName


\* A listed group: its name, its NodeName tag, and whether it passes
\* validation.ValidateContainerGroup (a group the backend is still
\* provisioning may lack required fields).
Group == [name : Names, node : Nodes, valid : BOOLEAN]

VARIABLES cgs, listed
vars == <<cgs, listed>>

NoCall == [ran |-> FALSE, ok |-> FALSE, pods |-> {}, at |-> {}]
ListErr == [ran |-> TRUE, ok |-> FALSE, pods |-> {}, at |-> {}]

Init ==
    /\ cgs = {}
    /\ listed = NoCall

(* The backend (environment). *)
BackendCreate(g) ==
    /\ \A h \in cgs : h.name # g.name
    /\ cgs' = cgs \cup {g}
    /\ UNCHANGED listed

BackendDelete(g) ==
    /\ g \in cgs
    /\ cgs' = cgs \ {g}
    /\ UNCHANGED listed

\* The loop's filter "Tags["NodeName"] != &p.nodeName" compares two
\* *string pointers: the tag's points into the map decoded from the
\* backend's answer, &p.nodeName at the provider's field.  They are never
\* the same address, whatever the strings hold.
NodeTagIsSelf(g) == FALSE

\* containerGroupToPod (outside aci.go) fails on a group with missing
\* fields; the failure is logged and the group skipped.
ToPodOk(g) == g.valid

\* GetPods: the listing, then for each group validation (whose result is
\* dropped: the following "if err != nil" tests the listing's error, nil
\* by then), the node filter, and the conversion.  ListActivePods returns
\* the identifiers of these pods.
GetPods ==
    /\ listed' = [ran |-> TRUE, ok |-> TRUE, at |-> cgs,
                  pods |-> {g.name : g \in {h \in cgs : NodeTagIsSelf(h) /\ ToPodOk(h)}}]
    /\ UNCHANGED cgs

\* GetContainerGroupListResult fails.
GetPodsFail ==
    /\ listed' = ListErr
    /\ UNCHANGED cgs

Next ==
    \/ \E g \in Group : BackendCreate(g) \/ BackendDelete(g)
    \/ GetPods
    \/ GetPodsFail

Spec == Init /\ [][Next]_vars

\* GetPods' comment: it "returns a list of all pods known to be running
\* within ACI" on this node: a successful call returns exactly the groups
\* of its listing that carry this node's name and are well formed (the
\* spec's listUnits; a group failing translation is skipped, spec 7).
ListsNodeGroups ==
    listed.ok =>
      listed.pods = {g.name : g \in {h \in listed.at : h.node = Self /\ h.valid}}

=============================================================================
