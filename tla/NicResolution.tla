---------------------------- MODULE NicResolution ----------------------------
(***************************************************************************)
(* What a node is registered with: its network card (and which cards get a *)
(* name from the udev snippet), and if it is virtual the size of its disk. *)
(*                                                                         *)
(* The network the nodes boot from may be on an eth, a VLAN, a bond or a   *)
(* bridge of them.  The plugin walks from that interface down to a card    *)
(* to find its name (_get_matching_nic_name), and then from the name down  *)
(* to a MAC address by another walk (_find_mac); a card that is there for  *)
(* PXE only takes precedence.  An operator edits the interfaces, and every *)
(* plan in which the node is installed resolves them anew.                 *)
(***************************************************************************)
EXTENDS Naturals, VirtualDisk

CONSTANTS
    Catalogue,      \* the interface items an operator may create
    Starts,         \* the interfaces to begin with
    MaxEdits,       \* bounds the edits, and
    MaxPlans,       \* the plans
    Sizes           \* of the node's disk

Types == {"eth", "vlan", "bond", "bridge"}
Networks == {"boot", "other", "none"}

\* Device names are numbers, in their alphabetical order; 0 is no device.
\* mac is <<name, k>> for the k-th card that has been put in under the name;
\* at is an item's place in the order in which LITP lists them.
Items ==
    [type : Types, name : Nat \ {0}, at : Nat, net : Networks,
     master : Nat, bridge : Nat, base : Nat, pxe : BOOLEAN, mac : Nat \X Nat]

\* What a query for one item gives when there is none.
Nothing == [type |-> "none", name |-> 0, at |-> 0, net |-> "none", master |-> 0,
            bridge |-> 0, base |-> 0, pxe |-> FALSE, mac |-> <<0, 0>>]

\* The properties the item types have: a master and pxe_boot_only are an
\* eth's, and a bridge is not bridged.
WellFormed(i) ==
    /\ i.type = "eth" => i.mac[1] = i.name
    /\ i.master # 0 \/ i.pxe => i.type = "eth"
    /\ i.bridge # 0 => i.type # "bridge"

Cards == [dev : Nat, mac : Nat \X Nat]
NoRecord == [nic |-> 0, mac |-> <<0, 0>>, cards |-> {}, file |-> 0]

ASSUME InterfacesAssumption ==
    /\ Catalogue \subseteq Items
    /\ \A i \in Catalogue : WellFormed(i)
    /\ Starts \subseteq SUBSET Catalogue
    /\ MaxEdits \in Nat /\ MaxPlans \in Nat
    /\ Sizes \subseteq DiskSizes

VARIABLES
    ifaces,     \* node.network_interfaces: the items
    fresh,      \* names of items in state Initial
    removing,   \* items in state ForRemoval
    disk,       \* node.system.disks: the size of the one disk
    record,     \* what the last plan registers and writes
    seen,       \* history: the cards it ought to be about
    edits, plans

vars == <<ifaces, fresh, removing, disk, record, seen, edits, plans>>

Live == ifaces \ removing
-----------------------------------------------------------------------------
(* The walks.                                                              *)

\* The first in LITP's order.
FirstOf(S) ==
    IF S = {} THEN Nothing ELSE CHOOSE i \in S : \A j \in S : i.at <= j.at

LeastNamed(S) ==
    IF S = {} THEN Nothing ELSE CHOOSE i \in S : \A j \in S : i.name <= j.name

ByName(name) == FirstOf({i \in ifaces : i.name = name})

Slaves(bond) == {i \in Live : i.type = "eth" /\ i.master = bond.name}

\* Faulty: of all cards, whichever bond they are in.
FirstCard(bond) == LeastNamed({i \in Live : i.type = "eth"})

\* Faulty: with the slaves about to be removed.
FirstSlaveEver(bond) ==
    LeastNamed({i \in ifaces : i.type = "eth" /\ i.master = bond.name})

\* _get_bond_eth_slaves(...)[0], sorted by name.
FirstSlave(bond) == LeastNamed(Slaves(bond))

\* The interface a VLAN is on: device_name.split('.')[0].
Untagged(i) == IF i.type = "vlan" THEN ByName(i.base) ELSE i

Card(i) == IF i.type = "bond" THEN FirstSlave(i) ELSE i

\* Faulty: a bridge is over cards only.
BridgedCard(br) == FirstOf({i \in ifaces : i.type = "eth" /\ i.bridge = br.name})

BridgeMatchingNic(br) ==
    Card(Untagged(FirstOf(
        {i \in ifaces : i.type \in {"eth", "vlan", "bond"} /\ i.bridge = br.name})))

CardOf(i) ==
    IF i.type = "bridge" THEN BridgeMatchingNic(i) ELSE Card(Untagged(i))

BootInterface == FirstOf({i \in ifaces : i.net = "boot"})
MatchingNicName == CardOf(BootInterface).name
FindMac(name) == CardOf(ByName(name)).mac

DedicatedPxeBootOnlyNic == FirstOf({i \in ifaces : i.pxe}).name

\* The interface of _create_system_params.
RegisteredNic ==
    IF DedicatedPxeBootOnlyNic # 0 THEN DedicatedPxeBootOnlyNic ELSE MatchingNicName

\* Faulty: one card is enough.
BootCardOnly ==
    LET n == RegisteredNic IN
    IF FindMac(n) = Nothing.mac THEN {} ELSE {[dev |-> n, mac |-> FindMac(n)]}

\* network_cards of _add_udev_network_tasks.
UdevCards ==
    {[dev |-> n, mac |-> FindMac(n)] : n \in
        {n \in {DedicatedPxeBootOnlyNic, MatchingNicName} : FindMac(n) # Nothing.mac}}

\* iface.device_name of None, slaves[0] of an empty list.
Raises == BootInterface # Nothing /\ MatchingNicName = 0
-----------------------------------------------------------------------------
(***************************************************************************)
(* What the plugin takes for granted of the model, other plugins having    *)
(* validated it: device names are unique, every reference leads to an      *)
(* interface of the right type, a bond has a slave, a bridge bridges one   *)
(* interface, a card that is only for PXE is for nothing else.             *)
(***************************************************************************)
Refers(name, types) == \E j \in Live : j.name = name /\ j.type \in types /\ ~j.pxe

Legal ==
    /\ \A i, j \in Live : i.name = j.name \/ (i.net = "boot" /\ j.net = "boot")
                          \/ (i.pxe /\ j.pxe) => i = j
    /\ \A i \in Live :
          /\ i.master # 0 => Refers(i.master, {"bond"})
          /\ i.bridge # 0 => Refers(i.bridge, {"bridge"})
          /\ i.pxe => i.net = "none" /\ i.master = 0 /\ i.bridge = 0
          /\ i.type = "vlan" => Refers(i.base, {"eth", "bond"})
          /\ i.type = "bond" => Slaves(i) # {}
          /\ i.type = "bridge" =>
                \E m \in Live : {j \in Live : j.bridge = i.name} = {m}

(***************************************************************************)
(* Only the slaves of a bond are looked at without the items that are      *)
(* being removed.  So an interface on the way to the card may not be       *)
(* replaced in a plan that installs the node; the plugin leaves that to    *)
(* validation ("it can not happen by validations").                        *)
(***************************************************************************)
HarmlessRemovals ==
    \A i \in removing :
        /\ i.net # "boot" /\ ~i.pxe /\ i.bridge = 0
        /\ \A j \in Live : j.name # i.name

\* The live interfaces that carry the boot network, by the references.
Carries(i, j) ==
    \/ i.type = "bridge" /\ j.bridge = i.name
    \/ i.type = "vlan" /\ j.name = i.base
    \/ i.type = "bond" /\ j.master = i.name
Below(S) == S \union {j \in Live : \E i \in S : Carries(i, j)}
\* Wherever LITP lists it.
Unplaced(i) == [i EXCEPT !.at = 0]
BootPath == Below(Below(Below({i \in Live : i.net = "boot"})))
-----------------------------------------------------------------------------
\* The types; what is being removed was there, and is not fresh.
TypeOK ==
    /\ ifaces \subseteq Items
    /\ fresh \subseteq {i.name : i \in ifaces}
    /\ removing \subseteq ifaces
    /\ \A i \in removing : i.name \notin fresh
    /\ disk \in Sizes
    /\ record \in [nic : Nat, mac : Nat \X Nat, cards : SUBSET Cards, file : Nat]
    /\ seen \subseteq Items
    /\ edits \in 0 .. MaxEdits /\ plans \in 0 .. MaxPlans

Init ==
    /\ ifaces \in Starts
    /\ fresh = {i.name : i \in ifaces}
    /\ removing = {}
    /\ disk \in Sizes
    /\ record = NoRecord
    /\ seen = {}
    /\ edits = 0 /\ plans = 0

Edit ==
    /\ edits < MaxEdits
    /\ edits' = edits + 1
    /\ UNCHANGED <<disk, record, seen, plans>>

CreateItem(c) ==
    /\ Edit
    /\ \A i \in ifaces : i.name # c.name
    /\ ifaces' = ifaces \union {c}
    /\ fresh' = fresh \union {c.name}
    /\ UNCHANGED removing

\* An item that no plan has applied is gone at once.
RemoveItem(i) ==
    /\ Edit
    /\ IF i.name \in fresh
       THEN /\ ifaces' = ifaces \ {i}
            /\ UNCHANGED removing
       ELSE /\ removing' = removing \union {i}
            /\ UNCHANGED ifaces
    /\ fresh' = fresh \ {i.name}

\* A broken card is replaced.
ReplaceCard(i) ==
    /\ Edit
    /\ i.type = "eth"
    /\ ifaces' = (ifaces \ {i}) \union {[i EXCEPT !.mac = <<@[1], @[2] + 1>>]}
    /\ UNCHANGED <<fresh, removing>>

\* Faulty: what is being removed is never let go.
RunPlanKeepingRemoved ==
    /\ plans < MaxPlans
    /\ Legal /\ HarmlessRemovals
    /\ ~Raises
    /\ record' = [nic |-> RegisteredNic, mac |-> FindMac(RegisteredNic),
                  cards |-> UdevCards, file |-> ConvertToGigabytes(disk)]
    /\ seen' = {Unplaced(i) : i \in BootPath \union {i \in Live : i.pxe}}
    /\ ifaces' = Live
    /\ fresh' = {}
    /\ plans' = plans + 1
    /\ UNCHANGED <<removing, disk, edits>>

\* A plan that installs the node, created and run.  It takes the items to
\* be removed with it.
RunPlan ==
    /\ plans < MaxPlans
    /\ Legal /\ HarmlessRemovals
    /\ ~Raises
    /\ record' = [nic |-> RegisteredNic, mac |-> FindMac(RegisteredNic),
                  cards |-> UdevCards, file |-> ConvertToGigabytes(disk)]
    /\ seen' = {Unplaced(i) : i \in BootPath \union {i \in Live : i.pxe}}
    /\ ifaces' = Live
    /\ fresh' = {} /\ removing' = {}
    /\ plans' = plans + 1
    /\ UNCHANGED <<disk, edits>>

Next ==
    \/ \E c \in Catalogue : CreateItem(c)
    \/ \E i \in Live : RemoveItem(i) \/ ReplaceCard(i)
    \/ RunPlan

Spec == Init /\ [][Next]_vars
-----------------------------------------------------------------------------
(* Properties.                                                             *)

\* The cards that a plan has found: PXE only, and those of the boot network.
PxeCards == {i \in seen : i.pxe}
NetworkCards == {i \in seen : i.type = "eth" /\ ~i.pxe}

Names(c, S) == \E i \in S : i.name = c.dev /\ i.mac = c.mac

(* No model that the other plugins let through makes the plan fail: the    *)
(* walk down ends at a card through every stack of VLAN, bond and bridge   *)
(* (_get_matching_nic_name and _get_bridge_matching_nic, which dereference *)
(* what they find without a test).                                         *)
LegalMeansResolvable == Legal /\ HarmlessRemovals => ~Raises

(* What is registered is one card's name and that same card's MAC address, *)
(* a card that is in the model to stay, and it is the PXE-only card or, if *)
(* there is none, one that carries the boot network (_create_system_params *)
(* takes name and MAC from two walks; _get_bond_eth_slaves).  A node that  *)
(* has neither is registered without a card: validate_model does not check *)
(* what its docstring says, that nodes that have to be PXE booted need     *)
(* the network.                                                            *)
BootsFromItsNetwork ==
    LET cards == IF PxeCards # {} THEN PxeCards ELSE NetworkCards IN
    IF cards # {} THEN Names([dev |-> record.nic, mac |-> record.mac], cards)
    ELSE record.nic = 0 /\ record.mac = Nothing.mac

(* The installed system knows the card it was booted from, and a card of   *)
(* the boot network, by the names the model gives them, and no rule names  *)
(* two cards alike or one card twice (_add_udev_network_tasks finds the    *)
(* cards apart from _create_system_params).                                *)
UdevNamesTheCards ==
    record.nic # 0 =>
        /\ [dev |-> record.nic, mac |-> record.mac] \in record.cards
        /\ NetworkCards # {} => \E c \in record.cards : Names(c, NetworkCards)
        /\ \A c, e \in record.cards : c.dev = e.dev \/ c.mac = e.mac => c = e

(* What is registered depends on nothing but the interfaces that matter:   *)
(* if they are as they were for the last plan, so is the record, whatever  *)
(* else was created or removed since, and in whatever order they are       *)
(* listed ("sorted alphabetically by the device name", test_find_mac).     *)
OtherEditsDoNotMatter ==
    [][plans' # plans /\ plans > 0 /\ seen' = seen => record' = record]_vars

(* The image made for a virtual node, if its size is in M or G, holds what *)
(* the partition snippet lays out on it, the boot partition and the rest   *)
(* of the size in mebibytes (_get_lvm_kickstart_config_rhel6); for G it is *)
(* the smallest one that does (math.ceil in convert_to_gigabytes).         *)
ImageFits ==
    record.file # 0 =>
        /\ disk[2] \in {"M", "G"} => Mebibytes(record.file) >= ConvertToMb(disk)
        /\ disk[2] = "G" => Mebibytes(record.file - 1) < ConvertToMb(disk)

(* In any unit, the image holds what is laid out on it.  This is what the  *)
(* docstring of convert_to_gigabytes says, "gigabytes equivalent to        *)
(* gibibytes", of sizes that _convert_to_mb takes for powers of 1024.      *)
ImageHoldsLayout ==
    record.file # 0 => Mebibytes(record.file) >= ConvertToMb(disk)
=============================================================================
