------------------------ MODULE NicResolutionProofs ------------------------
(***************************************************************************)
(* For every set of interfaces and any number of edits and plans: a legal  *)
(* model is resolved, what is registered and written is a function of the  *)
(* cards that matter, and the image of a virtual node's disk holds what is *)
(* laid out on it.                                                         *)
(***************************************************************************)
EXTENDS NicResolution, WellFoundedInduction, TLAPS
-----------------------------------------------------------------------------
(* The first and the least.                                                *)

LEMMA LeastNumber ==
    ASSUME NEW S \in SUBSET Nat, S # {}
    PROVE  \E x \in S : \A y \in S : x <= y
<1>1. PICK x \in S : \A y \in S : ~(<<y, x>> \in OpToRel(<, Nat))
  BY NatLessThanWellFounded, WFMin, Zenon
<1>2. \A y \in S : ~(y < x)
  BY <1>1 DEF OpToRel
<1>3. \A y \in S : y \in Nat /\ x \in Nat
  OBVIOUS
<1> QED
  BY <1>2, <1>3

\* What LeastNamed returns for a set that is not empty.
LEMMA LeastNamedIn ==
    ASSUME NEW S \in SUBSET Items, S # {}
    PROVE  /\ LeastNamed(S) \in S
           /\ \A j \in S : LeastNamed(S).name <= j.name
<1> DEFINE N == {i.name : i \in S}
<1>1. N \in SUBSET Nat /\ N # {}
  BY DEF Items
<1>2. PICK x \in N : \A y \in N : x <= y
  BY <1>1, LeastNumber
<1>3. \E i \in S : \A j \in S : i.name <= j.name
  BY <1>2
<1> QED
  BY <1>3 DEF LeastNamed

\* Where names are unique, the least is the only one that is.
LEMMA LeastNamedIs ==
    ASSUME NEW S \in SUBSET Items, NEW x \in S,
           \A i, j \in S : i.name = j.name => i = j,
           \A j \in S : x.name <= j.name
    PROVE  LeastNamed(S) = x
<1>1. LeastNamed(S) \in S /\ LeastNamed(S).name <= x.name
  BY LeastNamedIn
<1>2. LeastNamed(S).name = x.name
  BY <1>1 DEF Items
<1> QED
  BY <1>1, <1>2

LEMMA FirstOfOne ==
    ASSUME NEW x \in Items
    PROVE  FirstOf({x}) = x
<1>1. x.at <= x.at
  BY DEF Items
<1> QED
  BY <1>1 DEF FirstOf

LEMMA UnplacedIs ==
    \A i \in Items :
        /\ Unplaced(i) \in Items
        /\ Unplaced(i).name = i.name /\ Unplaced(i).mac = i.mac
        /\ Unplaced(i).type = i.type /\ Unplaced(i).pxe = i.pxe
BY DEF Unplaced, Items

\* The place in the list does not matter for which one is least.
LEMMA LeastUnplaced ==
    ASSUME NEW S \in SUBSET Items, S # {},
           \A i, j \in S : i.name = j.name => i = j
    PROVE  LeastNamed({Unplaced(i) : i \in S}) = Unplaced(LeastNamed(S))
<1> DEFINE x == LeastNamed(S)
           U == {Unplaced(i) : i \in S}
<1>1. x \in S /\ \A j \in S : x.name <= j.name
  BY LeastNamedIn
<1>2. U \in SUBSET Items /\ Unplaced(x) \in U
  BY <1>1, UnplacedIs
<1>3. \A j \in U : Unplaced(x).name <= j.name
  BY <1>1, UnplacedIs
<1>4. \A i, j \in U : i.name = j.name => i = j
  BY UnplacedIs
<1> HIDE DEF x, U
<1>5. LeastNamed(U) = Unplaced(x)
  BY <1>2, <1>3, <1>4, LeastNamedIs
<1> QED
  BY <1>5 DEF U, x
-----------------------------------------------------------------------------
(* The walks.                                                              *)

ItemsOK ==
    /\ ifaces \subseteq Items
    /\ removing \subseteq ifaces
    /\ \A i \in ifaces : WellFormed(i)

\* What a plan that installs the node finds.
Sound == ItemsOK /\ Legal /\ HarmlessRemovals

LEMMA LiveItems ==
    ASSUME Sound
    PROVE  Live \subseteq Items /\ Live \subseteq ifaces
BY DEF Sound, ItemsOK, Live

\* A query by name finds the item that stays.
LEMMA LiveByName ==
    ASSUME Sound, NEW x \in Live
    PROVE  ByName(x.name) = x
<1>1. {i \in ifaces : i.name = x.name} = {x}
  BY DEF Sound, Legal, HarmlessRemovals, Live
<1>2. x \in Items
  BY LiveItems
<1> QED
  BY <1>1, <1>2, FirstOfOne DEF ByName

LEMMA NoneByName ==
    ASSUME Sound
    PROVE  ByName(0) = Nothing
<1>1. {i \in ifaces : i.name = 0} = {}
  BY DEF Sound, ItemsOK, Items
<1> QED
  BY <1>1 DEF ByName, FirstOf

\* The cards under an interface that is not a bridge or a VLAN.
NicsOf(i) == IF i.type = "bond" THEN Slaves(i) ELSE {i}

IsNic(i) == i \in Live /\ i.type = "eth" /\ ~i.pxe
IsPort(i) == i \in Live /\ i.type \in {"eth", "bond"} /\ ~i.pxe

LEMMA SlavesAreNics ==
    ASSUME Sound, NEW i \in Live, i.type = "bond"
    PROVE  Slaves(i) # {} /\ \A j \in Slaves(i) : IsNic(j)
<1>1. Slaves(i) # {}
  BY DEF Sound, Legal
<1>2. i.name # 0
  BY LiveItems DEF Items
<1>3. \A j \in Live : j.pxe => j.master = 0
  BY DEF Sound, Legal
<1> QED
  BY <1>1, <1>2, <1>3 DEF Slaves, IsNic

LEMMA NicsAreNics ==
    ASSUME Sound, NEW i, IsPort(i)
    PROVE  /\ NicsOf(i) # {} /\ NicsOf(i) \subseteq Items
           /\ \A j \in NicsOf(i) : IsNic(j)
           /\ Card(i) = LeastNamed(NicsOf(i))
<1>1. CASE i.type = "bond"
  BY <1>1, SlavesAreNics, LiveItems DEF NicsOf, Card, FirstSlave, IsPort, IsNic
<1>2. CASE i.type = "eth"
  <2>1. NicsOf(i) = {i} /\ i \in Items /\ IsNic(i) /\ Card(i) = i
    BY <1>2, LiveItems DEF NicsOf, IsNic, IsPort, Card
  <2>2. LeastNamed({i}) = i
    BY <2>1, LeastNamedIn
  <2> QED
    BY <2>1, <2>2
<1> QED
  BY <1>1, <1>2 DEF IsPort

\* A VLAN leads to a card or a bond.
LEMMA UntaggedIsPort ==
    ASSUME Sound, NEW i \in Live, i.type \in {"eth", "vlan", "bond"}, ~i.pxe
    PROVE  /\ IsPort(Untagged(i))
           /\ i.type # "vlan" => Untagged(i) = i
           /\ i.type = "vlan" => \A j \in Live : j.name = i.base <=> j = Untagged(i)
<1>1. CASE i.type = "vlan"
  <2>1. PICK j \in Live : j.name = i.base /\ j.type \in {"eth", "bond"} /\ ~j.pxe
    BY <1>1 DEF Sound, Legal, Refers
  <2>2. Untagged(i) = j
    BY <1>1, <2>1, LiveByName DEF Untagged
  <2>3. \A k \in Live : k.name = j.name => k = j
    BY <2>1 DEF Sound, Legal
  <2> QED
    BY <1>1, <2>1, <2>2, <2>3 DEF IsPort
<1>2. CASE i.type # "vlan"
  BY <1>2 DEF Untagged, IsPort
<1> QED
  BY <1>1, <1>2

\* What a bridge bridges.
Port(i) ==
    IF i.type = "bridge"
    THEN FirstOf({j \in ifaces : j.type \in {"eth", "vlan", "bond"} /\ j.bridge = i.name})
    ELSE i

LEMMA BridgedIsOne ==
    ASSUME Sound, NEW i \in Live, i.type = "bridge"
    PROVE  /\ Port(i) \in Live
           /\ Port(i).type \in {"eth", "vlan", "bond"} /\ ~Port(i).pxe
           /\ {j \in Live : j.bridge = i.name} = {Port(i)}
<1>1. PICK m \in Live : {j \in Live : j.bridge = i.name} = {m}
  BY DEF Sound, Legal
<1>2. i.name # 0
  BY LiveItems DEF Items
<1>3. m.bridge = i.name
  BY <1>1
<1>4. m.type \in {"eth", "vlan", "bond"} /\ ~m.pxe
  <2>1. WellFormed(m) /\ m.type \in Types
    BY LiveItems DEF Sound, ItemsOK, Items
  <2>2. m.pxe => m.bridge = 0
    BY DEF Sound, Legal
  <2> QED
    BY <1>2, <1>3, <2>1, <2>2 DEF WellFormed, Types
<1>5. \A j \in ifaces : j.bridge = i.name => j \in Live
  BY <1>2 DEF Sound, HarmlessRemovals, Live
<1>6. {j \in ifaces : j.type \in {"eth", "vlan", "bond"} /\ j.bridge = i.name} = {m}
  <2>1. \A j \in ifaces : j.bridge = i.name => j = m
    BY <1>1, <1>5
  <2>2. m \in ifaces
    BY LiveItems
  <2> QED
    BY <1>3, <1>4, <2>1, <2>2
<1>7. m \in Items
  BY LiveItems
<1>8. Port(i) = m
  BY <1>6, <1>7, FirstOfOne DEF Port
<1> QED
  BY <1>1, <1>4, <1>8

\* The cards at the end of the way down.
Nics(i) == NicsOf(Untagged(Port(i)))

LEMMA PortIsLive ==
    ASSUME Sound, NEW i \in Live, ~i.pxe
    PROVE  /\ Port(i) \in Live
           /\ Port(i).type \in {"eth", "vlan", "bond"} /\ ~Port(i).pxe
<1>1. i.type \in {"eth", "vlan", "bond", "bridge"}
  BY LiveItems DEF Items, Types
<1> QED
  BY <1>1, BridgedIsOne DEF Port

LEMMA CardOfIsLeast ==
    ASSUME Sound, NEW i \in Live, ~i.pxe
    PROVE  /\ Nics(i) # {} /\ Nics(i) \subseteq Items
           /\ \A j \in Nics(i) : IsNic(j)
           /\ CardOf(i) = LeastNamed(Nics(i))
<1>1. IsPort(Untagged(Port(i)))
  BY PortIsLive, UntaggedIsPort
<1>2. CardOf(i) = Card(Untagged(Port(i)))
  BY DEF CardOf, Port, BridgeMatchingNic
<1> QED
  BY <1>1, <1>2, NicsAreNics DEF Nics

\* A card that is in the model to stay is where its walk ends.
LEMMA CardOfNic ==
    ASSUME Sound, NEW i \in Live, i.type = "eth"
    PROVE  CardOf(i) = i /\ FindMac(i.name) = i.mac
<1>1. CardOf(i) = i
  BY DEF CardOf, Card, Untagged
<1> QED
  BY <1>1, LiveByName DEF FindMac
-----------------------------------------------------------------------------
(* The interfaces that carry the boot network.                             *)

Path(i) == Below(Below(Below({i})))

LEMMA BelowUnion ==
    ASSUME NEW S, NEW T
    PROVE  Below(S \union T) = Below(S) \union Below(T)
BY DEF Below

\* One step down from each type.
LEMMA BelowNics ==
    ASSUME NEW S, \A i \in S : i.type = "eth"
    PROVE  Below(S) = S
BY DEF Below, Carries

LEMMA BelowPort ==
    ASSUME Sound, NEW i, IsPort(i)
    PROVE  Below({i}) = {i} \union NicsOf(i)
<1>1. CASE i.type = "bond"
  <2>1. i.name # 0 /\ \A j \in Live : WellFormed(j)
    BY LiveItems DEF IsPort, Items, Sound, ItemsOK
  <2>2. \A j \in Live : Carries(i, j) <=> j \in Slaves(i)
    BY <1>1, <2>1 DEF Carries, Slaves, WellFormed
  <2>3. Slaves(i) \subseteq Live
    BY DEF Slaves
  <2> QED
    BY <1>1, <2>2, <2>3 DEF Below, NicsOf
<1>2. CASE i.type = "eth"
  BY <1>2, BelowNics DEF NicsOf
<1> QED
  BY <1>1, <1>2 DEF IsPort

LEMMA BelowVlan ==
    ASSUME Sound, NEW i \in Live, i.type = "vlan", ~i.pxe
    PROVE  Below({i}) = {i} \union {Untagged(i)}
<1>1. \A j \in Live : Carries(i, j) <=> j = Untagged(i)
  BY UntaggedIsPort DEF Carries
<1>2. Untagged(i) \in Live
  BY UntaggedIsPort DEF IsPort
<1> QED
  BY <1>1, <1>2 DEF Below

LEMMA BelowBridge ==
    ASSUME Sound, NEW i \in Live, i.type = "bridge"
    PROVE  Below({i}) = {i} \union {Port(i)}
<1>1. \A j \in Live : Carries(i, j) <=> j = Port(i)
  BY BridgedIsOne DEF Carries
<1> QED
  BY <1>1, BridgedIsOne DEF Below

\* Two steps down from anything but a bridge are all the way.
LEMMA BelowBelowPort ==
    ASSUME Sound, NEW i, IsPort(i)
    PROVE  Below(Below({i})) = {i} \union NicsOf(i)
<1>1. Below(NicsOf(i)) = NicsOf(i)
  BY NicsAreNics, BelowNics DEF IsNic
<1>2. Below({i} \union NicsOf(i)) = Below({i}) \union Below(NicsOf(i))
  BY BelowUnion
<1> QED
  BY <1>1, <1>2, BelowPort

LEMMA BelowBelow ==
    ASSUME Sound, NEW i \in Live, i.type \in {"eth", "vlan", "bond"}, ~i.pxe
    PROVE  Below(Below({i})) = {i, Untagged(i)} \union NicsOf(Untagged(i))
<1> DEFINE u == Untagged(i)
<1>1. CASE i.type = "vlan"
  <2>1. IsPort(u)
    BY UntaggedIsPort
  <2>2. Below({i} \union {u}) = Below({i}) \union Below({u})
    BY BelowUnion
  <2>3. Below({i}) = {i} \union {u}
    BY <1>1, BelowVlan
  <2>4. Below({u}) = {u} \union NicsOf(u)
    BY <2>1, BelowPort
  <2> QED
    BY <2>2, <2>3, <2>4
<1>2. CASE i.type # "vlan"
  BY <1>2, UntaggedIsPort, BelowBelowPort
<1> QED
  BY <1>1, <1>2

\* Three steps down from any interface are all the way.
LEMMA PathIs ==
    ASSUME Sound, NEW i \in Live, ~i.pxe
    PROVE  Path(i) = {i, Port(i), Untagged(Port(i))} \union Nics(i)
<1> DEFINE p == Port(i)
           B == Below(Below({p}))
<1>1. p \in Live /\ p.type \in {"eth", "vlan", "bond"} /\ ~p.pxe
  BY PortIsLive
<1>2. B = {p, Untagged(p)} \union Nics(i)
  BY <1>1, BelowBelow DEF Nics
<1>3. CASE i.type = "bridge"
  <2>1. Below({i}) = {i} \union {p}
    BY <1>3, BelowBridge
  <2>2. Below({i} \union {p}) = ({i} \union {p}) \union Below({p})
    BY <2>1, BelowUnion
  <2>3. Path(i) = Below(({i} \union {p}) \union Below({p}))
    BY <2>1, <2>2 DEF Path
  <2>4. @ = (({i} \union {p}) \union Below({p})) \union B
    BY <2>2, BelowUnion
  <2>5. p \in Below({p}) /\ Below({p}) \subseteq B
    BY DEF Below
  <2>6. Path(i) = {i} \union B
    BY <2>3, <2>4, <2>5
  <2> QED
    BY <2>6, <1>2
<1>4. CASE i.type # "bridge"
  <2>1. p = i
    BY <1>4 DEF Port
  <2>2. B = {p} \union ({Untagged(p)} \union NicsOf(Untagged(p)))
    BY <1>2 DEF Nics
  <2> HIDE DEF B
  <2>3. Path(i) = Below({p} \union ({Untagged(p)} \union NicsOf(Untagged(p))))
    BY <2>1, <2>2 DEF Path, B
  <2>4. @ = Below({p}) \union Below({Untagged(p)} \union NicsOf(Untagged(p)))
    BY BelowUnion
  <2>5. @ = Below({p}) \union (Below({Untagged(p)}) \union Below(NicsOf(Untagged(p))))
    BY BelowUnion, Zenon
  <2>6. IsPort(Untagged(p))
    BY <1>1, UntaggedIsPort
  <2>7. Below({Untagged(p)}) = {Untagged(p)} \union NicsOf(Untagged(p))
    BY <2>6, BelowPort
  <2>8. Below(NicsOf(Untagged(p))) = NicsOf(Untagged(p))
    BY <2>6, NicsAreNics, BelowNics DEF IsNic
  <2>9. p \in Below({p}) /\ Below({p}) \subseteq B
    BY DEF Below, B
  <2>10. Path(i) = {p, Untagged(p)} \union Nics(i)
    BY <2>3, <2>4, <2>5, <2>7, <2>8, <2>9, <1>2 DEF Nics
  <2> QED
    BY <2>10, <2>1
<1> QED
  BY <1>3, <1>4

\* The cards among them are those at the end of the way.
LEMMA PathNics ==
    ASSUME Sound, NEW i \in Live, ~i.pxe
    PROVE  {j \in Path(i) : j.type = "eth" /\ ~j.pxe} = Nics(i)
<1>1. \A j \in Nics(i) : IsNic(j)
  BY CardOfIsLeast
<1>2. Untagged(Port(i)).type = "eth" => Nics(i) = {Untagged(Port(i))}
  BY DEF Nics, NicsOf
<1>3. Port(i).type = "eth" => Untagged(Port(i)) = Port(i)
  BY DEF Untagged
<1>4. i.type = "eth" => Port(i) = i
  BY DEF Port
<1>5. Path(i) = {i, Port(i), Untagged(Port(i))} \union Nics(i)
  BY PathIs
<1> HIDE DEF Path, Nics
<1> QED
  BY <1>1, <1>2, <1>3, <1>4, <1>5 DEF IsNic
-----------------------------------------------------------------------------
(* What a plan finds, as a function of the interfaces that matter.         *)

PxeOf(S) == LeastNamed({i \in S : i.pxe})
NetOf(S) == LeastNamed({i \in S : i.type = "eth" /\ ~i.pxe})
NicOf(S) == IF PxeOf(S) # Nothing THEN PxeOf(S) ELSE NetOf(S)

Rule(i) == [dev |-> i.name, mac |-> i.mac]

RecordOf(S, d) ==
    [nic |-> NicOf(S).name, mac |-> NicOf(S).mac,
     cards |-> {Rule(i) : i \in {PxeOf(S), NetOf(S)} \ {Nothing}},
     file |-> ConvertToGigabytes(d)]

\* The history that RunPlan keeps.
Looked == {Unplaced(i) : i \in BootPath \union {i \in Live : i.pxe}}

\* The boot network is on one interface, or on none.
LEMMA BootInterfaceIs ==
    ASSUME Sound
    PROVE  \/ BootInterface = Nothing /\ MatchingNicName = 0 /\ BootPath = {}
           \/ \E b \in Live : /\ ~b.pxe /\ BootInterface = b
                              /\ MatchingNicName = CardOf(b).name
                              /\ BootPath = Path(b)
<1> DEFINE B == {i \in ifaces : i.net = "boot"}
<1>1. B = {i \in Live : i.net = "boot"}
  BY DEF Sound, ItemsOK, HarmlessRemovals, Live
<1>2. CASE B = {}
  <2>1. BootInterface = Nothing
    BY <1>2 DEF BootInterface, FirstOf
  <2>2. CardOf(Nothing) = Nothing
    BY DEF CardOf, Card, Untagged, Nothing
  <2>3. BootPath = {}
    BY <1>1, <1>2 DEF BootPath, Below
  <2> QED
    BY <2>1, <2>2, <2>3 DEF MatchingNicName, Nothing
<1>3. CASE B # {}
  <2>1. PICK b \in Live : b.net = "boot"
    BY <1>1, <1>3
  <2>2. B = {b}
    BY <1>1, <2>1 DEF Sound, Legal
  <2>3. BootInterface = b
    BY <2>2, LiveItems, FirstOfOne DEF BootInterface
  <2>4. ~b.pxe
    BY <2>1 DEF Sound, Legal
  <2>5. BootPath = Path(b)
    BY <1>1, <2>2 DEF BootPath, Path
  <2> QED
    BY <2>3, <2>4, <2>5 DEF MatchingNicName
<1> QED
  BY <1>2, <1>3

\* One card is for PXE only, or none is.
LEMMA PxeNicIs ==
    ASSUME Sound
    PROVE  \/ {i \in Live : i.pxe} = {} /\ DedicatedPxeBootOnlyNic = 0
           \/ \E p \in Live : /\ p.type = "eth" /\ {i \in Live : i.pxe} = {p}
                              /\ DedicatedPxeBootOnlyNic = p.name
<1> DEFINE P == {i \in ifaces : i.pxe}
<1>1. P = {i \in Live : i.pxe}
  BY DEF Sound, ItemsOK, HarmlessRemovals, Live
<1>2. CASE P = {}
  BY <1>1, <1>2 DEF DedicatedPxeBootOnlyNic, FirstOf, Nothing
<1>3. CASE P # {}
  <2>1. PICK p \in Live : p.pxe
    BY <1>1, <1>3
  <2>2. P = {p}
    BY <1>1, <2>1 DEF Sound, Legal
  <2>3. p.type = "eth"
    BY <2>1, LiveItems DEF Sound, ItemsOK, WellFormed
  <2>4. DedicatedPxeBootOnlyNic = p.name
    BY <2>2, LiveItems, FirstOfOne DEF DedicatedPxeBootOnlyNic
  <2> QED
    BY <1>1, <2>2, <2>3, <2>4
<1> QED
  BY <1>2, <1>3

\* The item that is none.
LEMMA NothingIs ==
    /\ Unplaced(Nothing) = Nothing
    /\ Nothing.name = 0 /\ Nothing.mac = <<0, 0>>
BY DEF Unplaced, Nothing

\* The name that the walk down ends with is that of the least of the cards.
LEMMA NetOfLooked ==
    ASSUME Sound
    PROVE  \/ MatchingNicName = 0 /\ NetOf(Looked) = Nothing /\ BootInterface = Nothing
           \/ \E c : /\ IsNic(c) /\ MatchingNicName = c.name
                     /\ NetOf(Looked) = Unplaced(c)
<1> DEFINE N == {i \in BootPath : i.type = "eth" /\ ~i.pxe}
<1>1. BootPath \subseteq Live
  BY DEF BootPath, Below
<1>2. {i \in Looked : i.type = "eth" /\ ~i.pxe} = {Unplaced(i) : i \in N}
  BY <1>1, LiveItems, UnplacedIs DEF Looked
<1>3. CASE MatchingNicName = 0 /\ BootPath = {} /\ BootInterface = Nothing
  BY <1>2, <1>3 DEF NetOf, LeastNamed
<1>4. ASSUME NEW b \in Live, ~b.pxe, MatchingNicName = CardOf(b).name, BootPath = Path(b)
      PROVE  \E c : /\ IsNic(c) /\ MatchingNicName = c.name
                    /\ NetOf(Looked) = Unplaced(c)
  <2>1. N = Nics(b)
    BY <1>4, PathNics
  <2>2. /\ Nics(b) # {} /\ Nics(b) \subseteq Items
        /\ \A j \in Nics(b) : IsNic(j)
        /\ CardOf(b) = LeastNamed(Nics(b))
    BY <1>4, CardOfIsLeast
  <2>3. \A i, j \in Nics(b) : i.name = j.name => i = j
    BY <2>2 DEF IsNic, Sound, Legal
  <2>4. LeastNamed({Unplaced(i) : i \in Nics(b)}) = Unplaced(LeastNamed(Nics(b)))
    BY <2>2, <2>3, LeastUnplaced
  <2>5. NetOf(Looked) = Unplaced(CardOf(b))
    BY <1>2, <2>1, <2>2, <2>4 DEF NetOf
  <2>6. IsNic(CardOf(b))
    BY <2>2, LeastNamedIn
  <2> QED
    BY <1>4, <2>5, <2>6
<1> QED
  BY <1>3, <1>4, BootInterfaceIs

LEMMA PxeOfLooked ==
    ASSUME Sound
    PROVE  \/ DedicatedPxeBootOnlyNic = 0 /\ PxeOf(Looked) = Nothing
           \/ \E p \in Live : /\ p.type = "eth" /\ DedicatedPxeBootOnlyNic = p.name
                              /\ PxeOf(Looked) = Unplaced(p)
<1>1. BootPath \subseteq Live
  BY DEF BootPath, Below
<1>2. {i \in Looked : i.pxe} = {Unplaced(i) : i \in {i \in Live : i.pxe}}
  BY <1>1, LiveItems, UnplacedIs DEF Looked
<1>3. CASE {i \in Live : i.pxe} = {} /\ DedicatedPxeBootOnlyNic = 0
  BY <1>2, <1>3 DEF PxeOf, LeastNamed
<1>4. ASSUME NEW p \in Live, p.type = "eth", {i \in Live : i.pxe} = {p},
             DedicatedPxeBootOnlyNic = p.name
      PROVE  PxeOf(Looked) = Unplaced(p)
  <2>1. {i \in Looked : i.pxe} = {Unplaced(p)} /\ Unplaced(p) \in Items
    BY <1>2, <1>4, LiveItems, UnplacedIs
  <2>2. LeastNamed({Unplaced(p)}) = Unplaced(p)
    BY <2>1, LeastNamedIn
  <2> QED
    BY <2>1, <2>2 DEF PxeOf
<1> QED
  BY <1>3, <1>4, PxeNicIs
-----------------------------------------------------------------------------
(* The size of the image.                                                  *)

\* What 32 bits allow for a number of M or G, and of T.
Numbers == 1 .. 7000
FewerNumbers == 1 .. 1400

Fits(s) ==
    /\ s[2] \in {"M", "G"} => Mebibytes(ConvertToGigabytes(s)) >= ConvertToMb(s)
    /\ s[2] = "G" => Mebibytes(ConvertToGigabytes(s) - 1) < ConvertToMb(s)

\* Each unit by itself: the factors are 1024^3 / 1000^3 and a thousandth of it.
LEMMA ImageFitsM ==
    \A n \in Numbers : Fits(<<n, "M">>)
<1>1. \A n \in Numbers : Mebibytes(ConvertToGigabytes(<<n, "M">>)) >= ConvertToMb(<<n, "M">>)
  BY SMTT(120) DEF Numbers, Mebibytes, ConvertToGigabytes, ConvertToMb, DividedUp
<1> QED
  BY <1>1 DEF Fits

LEMMA ImageFitsG ==
    \A n \in Numbers : Fits(<<n, "G">>)
<1>1. ASSUME NEW n \in Numbers
      PROVE  /\ Mebibytes(ConvertToGigabytes(<<n, "G">>)) >= ConvertToMb(<<n, "G">>)
             /\ Mebibytes(ConvertToGigabytes(<<n, "G">>) - 1) < ConvertToMb(<<n, "G">>)
  <2>1. Mebibytes(ConvertToGigabytes(<<n, "G">>)) >= ConvertToMb(<<n, "G">>)
    BY SMTT(120) DEF Numbers, Mebibytes, ConvertToGigabytes, ConvertToMb, DividedUp
  <2>2. Mebibytes(ConvertToGigabytes(<<n, "G">>) - 1) < ConvertToMb(<<n, "G">>)
    BY SMTT(120) DEF Numbers, Mebibytes, ConvertToGigabytes, ConvertToMb, DividedUp
  <2> QED
    BY <2>1, <2>2
<1> QED
  BY <1>1 DEF Fits

LEMMA ImageFitsSize ==
    ASSUME NEW s \in DiskSizes
    PROVE  Fits(s)
<1>1. CASE s[2] = "M"
  <2>1. PICK n \in Numbers : s = <<n, "M">>
    BY <1>1, SMT DEF DiskSizes, Numbers
  <2>2. Fits(<<n, "M">>)
    BY ImageFitsM
  <2> QED
    BY <2>1, <2>2
<1>2. CASE s[2] = "G"
  <2>1. PICK n \in Numbers : s = <<n, "G">>
    BY <1>2, SMT DEF DiskSizes, Numbers
  <2>2. Fits(<<n, "G">>)
    BY ImageFitsG
  <2> QED
    BY <2>1, <2>2
<1>3. CASE s[2] \notin {"M", "G"}
  BY <1>3 DEF Fits
<1> QED
  BY <1>1, <1>2, <1>3

LEMMA SizeIsNat ==
    ASSUME NEW s \in DiskSizes
    PROVE  ConvertToGigabytes(s) \in Nat
<1>1. s[1] \in Nat
  <2>1. Numbers \subseteq Nat /\ FewerNumbers \subseteq Nat
    BY SMT DEF Numbers, FewerNumbers
  <2>2. s \in (Numbers \X {"M", "G"}) \union (FewerNumbers \X {"T"})
    BY DEF DiskSizes, Numbers, FewerNumbers
  <2>3. CASE s \in Numbers \X {"M", "G"}
    BY <2>1, <2>3
  <2>4. CASE s \in FewerNumbers \X {"T"}
    BY <2>1, <2>4
  <2> QED
    BY <2>2, <2>3, <2>4
<1>2. \A m, by \in Nat : by > 0 => DividedUp(m, by) \in Nat
  BY SMT DEF DividedUp
<1>3. \A n \in Nat : /\ DividedUp(n * 262144, 244140625) \in Nat
                     /\ n + DividedUp(n * 144027, 1953125) \in Nat
                     /\ n * 1073 + DividedUp(n * 11591, 15625) \in Nat
  BY <1>2, SMT
<1> QED
  BY <1>1, <1>3, SMT DEF ConvertToGigabytes

-----------------------------------------------------------------------------
\* A card that stays is told from Nothing by its name or its address.
LEMMA NicIsSomething ==
    ASSUME Sound, NEW i \in Live, i.type = "eth"
    PROVE  /\ i.name # 0 /\ i.mac # Nothing.mac /\ FindMac(i.name) = i.mac
           /\ Unplaced(i) # Nothing /\ Rule(Unplaced(i)) = Rule(i)
           /\ Unplaced(i).name = i.name /\ Unplaced(i).mac = i.mac
           /\ Rule(i) \in Cards /\ i.name \in Nat /\ i.mac \in Nat \X Nat
<1>1. i \in Items /\ i.mac[1] = i.name
  BY LiveItems DEF Sound, ItemsOK, WellFormed
<1>2. i.name # 0 /\ i.name \in Nat /\ i.mac \in Nat \X Nat /\ i.mac # <<0, 0>>
  BY <1>1 DEF Items
<1>3. Unplaced(i).name = i.name /\ Unplaced(i).mac = i.mac
  BY <1>1, UnplacedIs
<1>4. FindMac(i.name) = i.mac
  BY CardOfNic
<1> QED
  BY <1>2, <1>3, <1>4, NothingIs DEF Rule, Cards

\* Where there is none, the names and addresses are those of Nothing.
LEMMA NoneFound ==
    ASSUME Sound
    PROVE  FindMac(0) = Nothing.mac
<1>1. CardOf(Nothing) = Nothing
  BY DEF CardOf, Card, Untagged, Nothing
<1> QED
  BY <1>1, NoneByName DEF FindMac

(* Two walks, one for the name and one for the address, end at one card:   *)
(* all that is registered and written is a function of the set of the      *)
(* interfaces that matter.                                                 *)
LEMMA FoundIsRecordOf ==
    ASSUME Sound
    PROVE  /\ RegisteredNic = NicOf(Looked).name
           /\ FindMac(RegisteredNic) = NicOf(Looked).mac
           /\ UdevCards = {Rule(i) : i \in {PxeOf(Looked), NetOf(Looked)} \ {Nothing}}
           /\ RegisteredNic \in Nat /\ FindMac(RegisteredNic) \in Nat \X Nat
           /\ UdevCards \subseteq Cards
<1> DEFINE P == DedicatedPxeBootOnlyNic
           C == MatchingNicName
           Found(name, x) ==
             /\ name = x.name /\ FindMac(name) = x.mac
             /\ x # Nothing <=> name # 0
             /\ x # Nothing <=> FindMac(name) # Nothing.mac
             /\ name \in Nat /\ FindMac(name) \in Nat \X Nat
<1>1. Found(P, PxeOf(Looked))
  BY PxeOfLooked, NicIsSomething, NoneFound, NothingIs
<1>2. Found(C, NetOf(Looked))
  BY NetOfLooked, NicIsSomething, NoneFound, NothingIs DEF IsNic
<1> DEFINE p == PxeOf(Looked)
           c == NetOf(Looked)
<1> HIDE DEF P, C, p, c
<1>3. Found(P, p) /\ Found(C, c)
  BY <1>1, <1>2 DEF p, c
<1>4. RegisteredNic = (IF P # 0 THEN P ELSE C)
  BY DEF RegisteredNic, P, C
<1>5. NicOf(Looked) = (IF p # Nothing THEN p ELSE c)
  BY DEF NicOf, p, c
<1>6. UdevCards = {[dev |-> n, mac |-> FindMac(n)] :
                     n \in {n \in {P, C} : FindMac(n) # Nothing.mac}}
  BY DEF UdevCards, P, C
<1>7. Rule(p) = [dev |-> P, mac |-> FindMac(P)]
      /\ Rule(c) = [dev |-> C, mac |-> FindMac(C)]
  BY <1>3 DEF Rule
<1>8. UdevCards = {Rule(i) : i \in {p, c} \ {Nothing}}
  <2>1. ASSUME NEW r \in UdevCards
        PROVE  r \in {Rule(i) : i \in {p, c} \ {Nothing}}
    BY <1>3, <1>6, <1>7
  <2>2. ASSUME NEW i \in {p, c} \ {Nothing}
        PROVE  Rule(i) \in UdevCards
    BY <1>3, <1>6, <1>7
  <2> QED
    BY <2>1, <2>2
<1>9. UdevCards \subseteq Cards
  BY <1>3, <1>6 DEF Cards
<1> QED
  BY <1>3, <1>4, <1>5, <1>8, <1>9 DEF p, c

\* The interfaces that matter are items with names of their own, one at most
\* for PXE, and a card has an address of its own.
SeenOK ==
    /\ seen \subseteq Items
    /\ \A i, j \in seen : i.name = j.name => i = j
    /\ \A i, j \in seen : i.pxe /\ j.pxe => i = j
    /\ \A i \in seen : i.pxe => i.type = "eth"
    /\ \A i \in seen : i.type = "eth" => i.mac[1] = i.name

LEMMA LookedOK ==
    ASSUME Sound, seen' = Looked
    PROVE  SeenOK'
<1> DEFINE L == BootPath \union {i \in Live : i.pxe}
<1>1. L \subseteq Live
  BY DEF BootPath, Below
<1>2. L \subseteq Items /\ \A i \in L : WellFormed(i)
  BY <1>1, LiveItems DEF Sound, ItemsOK
<1>3. \A i, j \in L : i.name = j.name \/ (i.pxe /\ j.pxe) => i = j
  BY <1>1 DEF Sound, Legal
<1>4. seen' = {Unplaced(i) : i \in L}
  BY DEF Looked
<1> HIDE DEF L
<1> QED
  BY <1>2, <1>3, <1>4, UnplacedIs DEF SeenOK, WellFormed
-----------------------------------------------------------------------------
(* The invariant: types, what the item types ensure, and the record of the *)
(* last plan as a function of what it had to go by.                        *)

ItemState ==
    /\ ifaces \subseteq Items
    /\ fresh \subseteq {i.name : i \in ifaces}
    /\ removing \subseteq ifaces
    /\ \A i \in removing : i.name \notin fresh
    /\ \A i \in ifaces : WellFormed(i)

RecordTyped ==
    record \in [nic : Nat, mac : Nat \X Nat, cards : SUBSET Cards, file : Nat]

RecordKept ==
    /\ plans = 0 => seen = {} /\ record = NoRecord
    /\ plans # 0 => record = RecordOf(seen, disk)

Counters == disk \in Sizes /\ edits \in 0 .. MaxEdits /\ plans \in 0 .. MaxPlans

IInv == ItemState /\ RecordTyped /\ SeenOK /\ RecordKept /\ Counters

LEMMA ItemsAreOK == ItemState => ItemsOK
BY DEF ItemState, ItemsOK

LEMMA InitIInv == Init => IInv
<1> SUFFICES ASSUME Init
             PROVE  IInv
  OBVIOUS
<1>1. ItemState
  BY InterfacesAssumption DEF Init, ItemState
<1>2. RecordTyped
  BY DEF Init, RecordTyped, NoRecord
<1>3. SeenOK /\ RecordKept
  BY DEF Init, SeenOK, RecordKept
<1>4. Counters
  BY InterfacesAssumption DEF Init, Counters
<1> QED
  BY <1>1, <1>2, <1>3, <1>4 DEF IInv

\* An edit leaves the record alone, and the counters but one.
LEMMA EditKeeps ==
    ASSUME IInv, Edit
    PROVE  RecordTyped' /\ SeenOK' /\ RecordKept' /\ Counters'
<1>1. RecordTyped' /\ SeenOK' /\ RecordKept'
  BY DEF IInv, Edit, RecordTyped, SeenOK, RecordKept
<1>2. Counters'
  BY InterfacesAssumption DEF IInv, Edit, Counters
<1> QED
  BY <1>1, <1>2

LEMMA CreateKeeps ==
    ASSUME IInv, NEW c \in Catalogue, CreateItem(c)
    PROVE  IInv'
<1>1. ItemState'
  BY InterfacesAssumption DEF IInv, ItemState, CreateItem
<1> QED
  BY <1>1, EditKeeps DEF CreateItem, IInv

LEMMA RemoveKeeps ==
    ASSUME IInv, NEW i \in Live, RemoveItem(i)
    PROVE  IInv'
<1>1. i \in ifaces /\ i \notin removing
  BY DEF Live
<1>2. ASSUME i.name \in fresh
      PROVE  ItemState'
  <2>1. ifaces' = ifaces \ {i} /\ removing' = removing /\ fresh' = fresh \ {i.name}
    BY <1>2 DEF RemoveItem
  <2> QED
    BY <1>1, <2>1 DEF IInv, ItemState
<1>3. ASSUME i.name \notin fresh
      PROVE  ItemState'
  <2>1. ifaces' = ifaces /\ removing' = removing \union {i} /\ fresh' = fresh \ {i.name}
    BY <1>3 DEF RemoveItem
  <2> QED
    BY <1>1, <1>3, <2>1 DEF IInv, ItemState
<1>4. ItemState'
  BY <1>2, <1>3
<1> QED
  BY <1>4, EditKeeps DEF RemoveItem, IInv

LEMMA ReplaceKeeps ==
    ASSUME IInv, NEW i \in Live, ReplaceCard(i)
    PROVE  IInv'
<1> DEFINE r == [i EXCEPT !.mac = <<@[1], @[2] + 1>>]
<1>1. i \in ifaces /\ i \notin removing /\ i \in Items /\ WellFormed(i)
  BY DEF Live, IInv, ItemState
<1>2. r \in Items /\ r.name = i.name
  BY <1>1 DEF Items
<1>3. WellFormed(r)
  BY <1>1 DEF WellFormed, Items
<1>4. ifaces' = (ifaces \ {i}) \union {r} /\ fresh' = fresh /\ removing' = removing
  BY DEF ReplaceCard
<1> HIDE DEF r
<1>5. ItemState'
  BY <1>1, <1>2, <1>3, <1>4 DEF IInv, ItemState
<1> QED
  BY <1>5, EditKeeps DEF ReplaceCard, IInv

LEMMA PlanKeeps ==
    ASSUME IInv, RunPlan
    PROVE  IInv'
<1>1. Sound
  BY ItemsAreOK DEF IInv, Sound, RunPlan
<1>2. seen' = Looked /\ disk' = disk
  BY DEF RunPlan, Looked
<1>3. ItemState'
  BY DEF IInv, ItemState, RunPlan, Live
<1>4. SeenOK'
  BY <1>1, <1>2, LookedOK
<1>5. record' = RecordOf(Looked, disk)
  BY <1>1, FoundIsRecordOf DEF RunPlan, RecordOf
<1>6. ConvertToGigabytes(disk) \in Nat
  BY InterfacesAssumption, SizeIsNat DEF IInv, Counters
<1>7. RecordTyped'
  BY <1>1, <1>6, FoundIsRecordOf DEF RunPlan, RecordTyped
<1>8. plans' = plans + 1 /\ plans < MaxPlans /\ edits' = edits
  BY DEF RunPlan
<1>9. Counters'
  BY <1>2, <1>8, InterfacesAssumption DEF IInv, Counters
<1>10. RecordKept'
  BY <1>2, <1>5, <1>8 DEF RecordKept, IInv, Counters
<1> QED
  BY <1>3, <1>4, <1>7, <1>9, <1>10 DEF IInv

LEMMA NextIInv == IInv /\ [Next]_vars => IInv'
<1> SUFFICES ASSUME IInv, [Next]_vars
             PROVE  IInv'
  OBVIOUS
<1>1. CASE UNCHANGED vars
  BY <1>1 DEF vars, IInv, ItemState, RecordTyped, SeenOK, RecordKept, Counters
<1>2. CASE Next
  BY <1>2, CreateKeeps, RemoveKeeps, ReplaceKeeps, PlanKeeps DEF Next
<1> QED
  BY <1>1, <1>2

(* The record is always that of what the last plan had to go by, and      *)
(* nothing else the program keeps comes into it.                           *)
THEOREM Invariance == Spec => []IInv
BY InitIInv, NextIInv, PTL DEF Spec

(* Every state is of the right types, and what is being removed was        *)
(* applied by a plan before.                                               *)
THEOREM TypeCorrect == Spec => []TypeOK
<1>1. IInv => TypeOK
  BY DEF IInv, ItemState, RecordTyped, SeenOK, Counters, TypeOK
<1> QED
  BY <1>1, Invariance, PTL

(* _get_matching_nic_name and _get_bridge_matching_nic end at a card       *)
(* whatever legal stack of VLANs, bonds and bridges the boot network is    *)
(* on, and however many interfaces there are.                              *)
THEOREM Resolvable == Spec => []LegalMeansResolvable
<1>1. IInv => LegalMeansResolvable
  <2> SUFFICES ASSUME IInv, Legal, HarmlessRemovals, Raises
               PROVE  FALSE
    BY DEF LegalMeansResolvable
  <2>1. Sound
    BY ItemsAreOK DEF IInv, Sound
  <2>2. PICK c : IsNic(c) /\ MatchingNicName = c.name
    BY <2>1, NetOfLooked DEF Raises
  <2>3. c.name # 0
    BY <2>1, <2>2, LiveItems DEF IsNic, Items
  <2> QED
    BY <2>2, <2>3 DEF Raises
<1> QED
  BY <1>1, Invariance, PTL

\* The least of the cards is one of them.
LEMMA FoundAmongSeen ==
    ASSUME IInv
    PROVE  /\ IF PxeCards = {} THEN PxeOf(seen) = Nothing
              ELSE PxeOf(seen) \in PxeCards /\ PxeOf(seen) # Nothing
           /\ IF NetworkCards = {} THEN NetOf(seen) = Nothing
              ELSE NetOf(seen) \in NetworkCards /\ NetOf(seen) # Nothing
<1>1. PxeCards \subseteq Items /\ NetworkCards \subseteq Items
  BY DEF IInv, SeenOK, PxeCards, NetworkCards
<1>2. Nothing \notin Items
  BY NothingIs DEF Items
<1>3. PxeOf(seen) = LeastNamed(PxeCards) /\ NetOf(seen) = LeastNamed(NetworkCards)
  BY DEF PxeOf, NetOf, PxeCards, NetworkCards
<1>4. LeastNamed({}) = Nothing
  BY DEF LeastNamed
<1> QED
  BY <1>1, <1>2, <1>3, <1>4, LeastNamedIn

(* What _create_system_params registers is the name and the address of one *)
(* card, the PXE-only one or else one of the boot network, in every plan   *)
(* of every node.                                                          *)
THEOREM BootCard == Spec => []BootsFromItsNetwork
<1>1. IInv => BootsFromItsNetwork
  <2> SUFFICES ASSUME IInv
               PROVE  BootsFromItsNetwork
    OBVIOUS
  <2>1. CASE plans = 0
    <3>1. PxeCards = {} /\ NetworkCards = {}
      BY <2>1 DEF IInv, RecordKept, PxeCards, NetworkCards
    <3> QED
      BY <2>1, <3>1, NothingIs DEF IInv, RecordKept, NoRecord, BootsFromItsNetwork
  <2>2. CASE plans # 0
    <3>1. record.nic = NicOf(seen).name /\ record.mac = NicOf(seen).mac
      BY <2>2 DEF IInv, RecordKept, RecordOf
    <3> QED
      BY <3>1, FoundAmongSeen, NothingIs DEF NicOf, BootsFromItsNetwork, Names
  <2> QED
    BY <2>1, <2>2
<1> QED
  BY <1>1, Invariance, PTL

(* _add_udev_network_tasks, which finds the cards apart, names the card    *)
(* that is registered and one of the boot network, and no rule of it       *)
(* contradicts another.                                                    *)
THEOREM UdevNames == Spec => []UdevNamesTheCards
<1>1. IInv => UdevNamesTheCards
  <2> SUFFICES ASSUME IInv, record.nic # 0
               PROVE  /\ [dev |-> record.nic, mac |-> record.mac] \in record.cards
                      /\ NetworkCards # {} => \E c \in record.cards : Names(c, NetworkCards)
                      /\ \A c, e \in record.cards : c.dev = e.dev \/ c.mac = e.mac => c = e
    BY DEF UdevNamesTheCards
  <2> DEFINE p == PxeOf(seen)
             c == NetOf(seen)
  <2>1. plans # 0
    BY DEF IInv, RecordKept, NoRecord
  <2>2. record = RecordOf(seen, disk)
    BY <2>1 DEF IInv, RecordKept
  <2>3. /\ record.nic = NicOf(seen).name /\ record.mac = NicOf(seen).mac
        /\ record.cards = {Rule(i) : i \in {p, c} \ {Nothing}}
    BY <2>2 DEF RecordOf
  <2>4. NicOf(seen) # Nothing
    BY <2>3, NothingIs
  <2>5. [dev |-> record.nic, mac |-> record.mac] \in record.cards
    BY <2>3, <2>4 DEF NicOf, Rule
  <2>6. NetworkCards # {} => Rule(c) \in record.cards /\ Names(Rule(c), NetworkCards)
    BY <2>3, FoundAmongSeen DEF Names, Rule
  <2>7. \A i, j \in {p, c} \ {Nothing} :
           i.name = j.name \/ i.mac = j.mac => i = j
    BY FoundAmongSeen DEF IInv, SeenOK, PxeCards, NetworkCards
  <2>8. \A r, e \in record.cards : r.dev = e.dev \/ r.mac = e.mac => r = e
    BY <2>3, <2>7 DEF Rule
  <2> QED
    BY <2>5, <2>6, <2>8
<1> QED
  BY <1>1, Invariance, PTL

(* Two plans that find the same interfaces that matter register and write  *)
(* the same, whatever happened to the others in between.                   *)
THEOREM EditsDoNotMatter == Spec => OtherEditsDoNotMatter
<1>1. IInv /\ IInv' /\ [Next]_vars =>
        [plans' # plans /\ plans > 0 /\ seen' = seen => record' = record]_vars
  <2> SUFFICES ASSUME IInv, IInv', [Next]_vars, plans' # plans, plans > 0, seen' = seen
               PROVE  record' = record
    OBVIOUS
  <2>1. RunPlan
    BY DEF Next, vars, CreateItem, RemoveItem, ReplaceCard, Edit
  <2>2. disk' = disk /\ plans # 0 /\ plans' # 0
    BY <2>1 DEF RunPlan, IInv, Counters
  <2> QED
    BY <2>2 DEF IInv, RecordKept
<1> QED
  BY <1>1, Invariance, PTL DEF Spec, OtherEditsDoNotMatter
-----------------------------------------------------------------------------
(* However often a virtual node is installed, and whatever is edited in    *)
(* between, its image holds what the partition snippet lays out on it if   *)
(* the size is in M or G, and is no larger than it takes if it is in G.    *)
THEOREM ImagesFit == Spec => []ImageFits
<1>1. IInv => ImageFits
  <2> SUFFICES ASSUME IInv, record.file # 0
               PROVE  Fits(disk)
    <3>1. IInv /\ record.file # 0 => record.file = ConvertToGigabytes(disk)
      BY DEF IInv, RecordKept, NoRecord, RecordOf
    <3> QED
      BY <3>1 DEF ImageFits, Fits
  <2>1. disk \in DiskSizes
    BY InterfacesAssumption DEF IInv, Counters
  <2> QED
    BY <2>1, ImageFitsSize
<1> QED
  BY <1>1, Invariance, PTL
=============================================================================
