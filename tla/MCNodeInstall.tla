---------------------------- MODULE MCNodeInstall ----------------------------
(***************************************************************************)
(* Instances of NodeInstall for TLC.  Hostnames carry no order, so the     *)
(* nodes are symmetric where no liveness is checked.                       *)
(***************************************************************************)
EXTENDS NodeInstall, TLC

NodeSymmetry == Permutations(Nodes)
==============================================================================
