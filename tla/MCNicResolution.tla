--------------------------- MODULE MCNicResolution ---------------------------
(***************************************************************************)
(* Three cards 1..3, a bond 4, a VLAN 5 and a bridge 6, in every stack     *)
(* that is legal, listed in ascending or in descending order; what is      *)
(* created later comes in either place.                                    *)
(***************************************************************************)
EXTENDS NicResolution, FiniteSets

Item(type, name) == [Nothing EXCEPT !.type = type, !.name = name, !.at = name]

Ports(name) == LET e == [Item("eth", name) EXCEPT !.mac = <<name, 0>>] IN
    {[e EXCEPT !.master = 4], [e EXCEPT !.pxe = TRUE], [e EXCEPT !.net = "other"]}
    \union IF name > 2 THEN {}
           ELSE {e, [e EXCEPT !.net = "boot"], [e EXCEPT !.bridge = 6]}

Uses(i) == {i, [i EXCEPT !.net = "boot"], [i EXCEPT !.bridge = 6]}

Kinds(name) ==
    CASE name <= 3 -> Ports(name)
      [] name = 4 -> Uses(Item("bond", 4))
      [] name = 5 -> Uses([Item("vlan", 5) EXCEPT !.base = 1])
                     \union Uses([Item("vlan", 5) EXCEPT !.base = 4])
      [] name = 6 -> {[Item("bridge", 6) EXCEPT !.net = "boot"]}

Descending(S) == {[i EXCEPT !.at = 7 - i.name] : i \in S}

Ascending == UNION {Kinds(name) : name \in 1 .. 6}
MCCatalogue == Ascending \union Descending(Ascending)

OrNone(name) == {{}} \union {{i} : i \in Kinds(name)}

\* One choice or none for every name.
Stacks ==
    {UNION {s[name] : name \in 1 .. 6} :
        s \in OrNone(1) \X OrNone(2) \X OrNone(3) \X OrNone(4) \X OrNone(5) \X OrNone(6)}

MCStarts == Stacks \union {Descending(S) : S \in Stacks}

MCSizes == ({1, 931, 932, 7000} \X {"M"}) \union ({1, 20, 7000} \X {"G"})
           \union ({1, 1400} \X {"T"})

\* A card on the boot network, and nothing else.
OneCard == {{i} : i \in {i \in Ports(1) : i.net = "boot"}}

\* The sizes vary for a single card only, and a node without the boot network
\* has few interfaces.
InitMC ==
    /\ Init /\ Legal
    /\ Cardinality(ifaces) > 1 => disk = <<20, "G">>
    /\ Cardinality(ifaces) > 2 => \E i \in ifaces : i.net = "boot"

MCSpec == InitMC /\ [][Next]_vars
=============================================================================
