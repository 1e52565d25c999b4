--------------------------- MODULE InstallService ---------------------------
(***************************************************************************)
(* What the boot manager promises about each managed node, without plans,  *)
(* commands or machines: a node is reported installed (Applied) only when  *)
(* an installation of it has begun since it was last offered one, and it   *)
(* is no longer offered any.  NodeInstall implements this, command by      *)
(* command, and PlanBuild, plan by plan.                                   *)
(***************************************************************************)
CONSTANT Nodes

VARIABLES
    offered,    \* nodes the management server would install if they asked
    fresh,      \* nodes that began to install since they were last offered
    applied     \* nodes reported installed

svars == <<offered, fresh, applied>>

Init ==
    /\ offered = {}
    /\ fresh = {}
    /\ applied = {}

\* A new offer; what was installed before no longer counts.
Offer(n) ==
    /\ n \notin applied
    /\ offered' = offered \union {n}
    /\ fresh' = fresh \ {n}
    /\ UNCHANGED applied

Boot(n) ==
    /\ n \in offered
    /\ fresh' = fresh \union {n}
    /\ UNCHANGED <<offered, applied>>

Withdraw(S) ==
    /\ S \subseteq offered
    /\ offered' = offered \ S
    /\ UNCHANGED <<fresh, applied>>

Acknowledge(S) ==
    /\ S \subseteq fresh \ offered
    /\ applied' = applied \union S
    /\ UNCHANGED <<offered, fresh>>

Request(n) ==
    /\ n \in applied
    /\ applied' = applied \ {n}
    /\ UNCHANGED <<offered, fresh>>

Next ==
    \/ \E n \in Nodes : Offer(n) \/ Boot(n) \/ Request(n)
    \/ \E S \in SUBSET Nodes : Withdraw(S) \/ Acknowledge(S)

Spec == Init /\ [][Next]_svars
==============================================================================
