---------------------------- MODULE MCPlanBuild ----------------------------
(***************************************************************************)
(* Two nodes with a profile each; a node with disks; one that boots as     *)
(* soon as it is registered, where the network may be Applied on its own;  *)
(* one that never gets a partition snippet; and every deployment of two    *)
(* nodes that is wrong in some way.                                        *)
(***************************************************************************)
EXTENDS PlanBuild, TLC

CONSTANTS n1, n2, p1, p2

Sound ==
    [profile |-> [n \in Nodes |-> p1], early |-> FALSE, own |-> FALSE,
     disks |-> {}, rootless |-> {}, services |-> 1, uefi |-> FALSE,
     systemless |-> {}, base |-> {}, cloud |-> {}, libvirt |-> {}, hosted |-> {}]

TwoNodes == [Sound EXCEPT !.profile[n2] = p2]
OneNode == [Sound EXCEPT !.systemless = {n2}]
WithDisks == [OneNode EXCEPT !.disks = {n1}]
Early == [OneNode EXCEPT !.early = TRUE, !.own = TRUE]
Rootless == [WithDisks EXCEPT !.rootless = {n1}]

N2 == {{}, {n2}}
Wrong ==
    {[Sound EXCEPT !.services = w[1], !.uefi = w[2], !.systemless = w[3],
                   !.base = w[4], !.cloud = w[5], !.libvirt = w[6], !.hosted = w[7]] :
        w \in {w \in (0 .. 2) \X BOOLEAN \X N2 \X N2 \X N2 \X N2 \X N2 :
                 \/ w[1] # 1 \/ w[3] # {} \/ w[4] # {}
                 \/ w[2] /\ w[5] # {}
                 \/ w[6] # {} /\ w[7] = {}}}

MCSites == {TwoNodes, WithDisks, Early, Rootless} \union Wrong

\* In a deployment that is wrong the second node is there from the start;
\* otherwise it is added.
InitMC ==
    /\ Init
    /\ IF site \in Wrong THEN \A n \in Nodes : itemState[n] = "Initial"
       ELSE itemState[n2] = "absent"
    /\ site.profile[n2] = p1 => itemState[p2] = "absent"

MCSpec == InitMC /\ [][Next]_vars /\ Fairness
=============================================================================
