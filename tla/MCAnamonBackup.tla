--------------------------- MODULE MCAnamonBackup ---------------------------
(***************************************************************************)
(* Three nodes: node1, node10 and other.  The first name is a part of the  *)
(* second, the third is apart and is registered three times, so that a     *)
(* prune may follow one that has failed half way.                          *)
(***************************************************************************)
EXTENDS AnamonBackup

CONSTANTS node1, node10, other

MCNodes == {node1, node10, other}

MCContains == {<<n, n>> : n \in MCNodes} \union {<<node1, node10>>}

MCRounds == [n \in MCNodes |-> IF n = other THEN 3 ELSE 2]
OneRound == [n \in MCNodes |-> 1]
==============================================================================
