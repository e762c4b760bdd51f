--------------------------- MODULE MCControlPlane ---------------------------
(* Instances of ControlPlane: all sessions belong to one server, the one   *)
(* whose agent dials again and again.  Calls are interchangeable.          *)
EXTENDS ControlPlane, TLC

OneServer == [s \in Sessions |-> CHOOSE v \in Servers : TRUE]

Interchangeable == Permutations(Calls)

Made   == {c \in Calls : callPc[c] # "idle"}
Opened == {u \in Subs : subPc[u] # "idle"}

\* Bound: at most three connections, deletions, calls and subscriptions.  None
\* of them is under a fairness condition, so that what stays within the bound is
\* a behaviour of the specification.
AtMostThree ==
    Cardinality({s \in Sessions : conn[s] # "none"})
      + Cardinality({v \in Servers : del[v] # "no"})
      + Cardinality(Made) + Cardinality(Opened) <= 3

\* Bound for liveness: calls and subscriptions apart.
ThreeApart == AtMostThree /\ (Made = {} \/ Opened = {})
=============================================================================
