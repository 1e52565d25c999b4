--------------------------- MODULE KickstartDisks ---------------------------
(***************************************************************************)
(* What the %pre section of a node's kickstart does to disks.  It runs two *)
(* snippets: the partition snippet (_get_lvm_kickstart_config and its      *)
(* rhel6 variant) and the bootloader snippet (bootloader.erb,              *)
(* bootloader_name.erb), for rhel7 in this order, for rhel6 in the other.  *)
(*                                                                         *)
(* Both are made from the model of the deployment (site), at different     *)
(* times: the list of shared disks given to the bootloader snippet when    *)
(* the plan is created, the partition snippet when its task runs.  The     *)
(* uuid of a LUN may be filled in by the plan itself, between the two      *)
(* (FuturePropertyValue, _is_uuid_plugin_updatable).  It is assumed to be  *)
(* known when the partition snippet is written, although no requirement of *)
(* that task sees to it.                                                   *)
(*                                                                         *)
(* The plugin counts uuids as they are written; the shell that runs the    *)
(* snippets matches them without regard to case.                           *)
(***************************************************************************)
EXTENDS Integers

CONSTANTS
    Nodes,
    Disks,      \* physical disks
    Sites,      \* the deployments considered
    PartOf      \* <<d, e>>: d's serial number is a proper part of e's

Versions == {"rhel6", "rhel7"}
Groups == {"vg_root", "vg_data", "vg_root_data"}
Spellings == {"lower", "UPPER", "kgb"}      \* kgb: the disk has no uuid

SiteRecords ==
    [disks : [Nodes -> SUBSET Disks],       \* the disks of each node's system
     boot : [Nodes -> Disks],               \* the one that is bootable
     root : [Nodes -> SUBSET Disks],        \* those of its root volume group
     uuid : [Nodes \X Disks -> Spellings],  \* how a node's item writes it
     late : SUBSET (Nodes \X Disks),        \* uuids the plan fills in
     marked : SUBSET (Nodes \X Disks),      \* items with shared = "true"
     fencing : SUBSET Disks,                \* of the VCS clusters
     reinstall : SUBSET Nodes,              \* upgrade.os_reinstall = "true"
     version : [Nodes -> Versions],
     paths : [Nodes -> [Disks -> 0 .. 2]],  \* device names of a disk on a node
     fc : SUBSET Disks,                     \* reached by Fibre Channel
     old : [Disks -> Groups \union {"none"}]]  \* the volume groups to begin with

(***************************************************************************)
(* What the model's other validators and the SAN see to: a boot disk is    *)
(* its node's own, a node sees no disk that only other nodes have in their *)
(* models, fencing disks belong to no node, rhel6 is not reinstalled.      *)
(***************************************************************************)
WellFormed(s) ==
    /\ \A n \in Nodes :
          /\ s.boot[n] \in s.disks[n] \ s.fencing
          /\ s.root[n] \subseteq s.disks[n]
          /\ s.disks[n] \intersect s.fencing = {}
          /\ n \in s.reinstall => s.version[n] = "rhel7"
    /\ \A n, m \in Nodes : n # m => s.boot[n] \notin s.disks[m]
    /\ \A n, m \in Nodes : \A d \in s.disks[m] \ s.disks[n] : s.paths[n][d] = 0
    /\ \A i \in s.late : s.uuid[i] # "kgb"

ASSUME SitesAssumption == \A s \in Sites : s \in SiteRecords /\ WellFormed(s)

ASSUME PartOfAssumption == PartOf \subseteq Disks \X Disks

VARIABLES
    site,
    stage,      \* stage[n]: how far n's installation is
    scanned,    \* scanned[n]: disks the bootloader snippet has looked at
    todd,       \* todd[n]: disk_uuids_to_dd, less those done
    vg,         \* vg[d]: the volume group on d
    erased      \* <<n, d>>: n's current installation has erased d

vars == <<site, stage, scanned, todd, vg, erased>>

Stages == {"off", "check", "groups", "wipe", "scan", "dd", "match", "ready",
           "installed", "halted"}

\* The types; the array disk_uuids_to_dd is used up before the boot disk is
\* looked for (bootloader.erb).
TypeOK ==
    /\ site \in SiteRecords
    /\ stage \in [Nodes -> Stages]
    /\ scanned \in [Nodes -> SUBSET Disks]
    /\ todd \in [Nodes -> SUBSET Disks]
    /\ \A n \in Nodes : todd[n] # {} => stage[n] \in {"scan", "dd"}
    /\ vg \in [Disks -> Groups \union {"none"}]
    /\ erased \subseteq Nodes \X Disks

Init ==
    /\ site \in Sites
    /\ stage = [n \in Nodes |-> "off"]
    /\ scanned = [n \in Nodes |-> {}]
    /\ todd = [n \in Nodes |-> {}]
    /\ vg = site.old
    /\ erased = {}
-----------------------------------------------------------------------------
(* The model as the plugin reads it.                                       *)

Attached(n) == {d \in Disks : site.paths[n][d] > 0}

\* _uuid_on_disk
HasUuid(n, d) == site.uuid[<<n, d>>] # "kgb"

Items == {i \in Nodes \X Disks : i[2] \in site.disks[i[1]]}

SameUuid(i, j) ==
    /\ site.uuid[i] = site.uuid[j]
    /\ site.uuid[i] = "kgb" \/ i[2] = j[2]

\* all_disk_uuids.count(disk.uuid) = 1, when the snippet is written ...
Alone(i) == \A j \in Items \ {i} : ~SameUuid(i, j)

\* ... and when the plan is created; a uuid not yet known is None.
AloneAtPlan(i) ==
    \A j \in Items \ {i} :
        IF i \in site.late THEN j \notin site.late
                           ELSE j \in site.late \/ ~SameUuid(i, j)

\* disk_list: the disks the partition snippet looks for.
Listed(n) == {d \in site.disks[n] : HasUuid(n, d) => Alone(<<n, d>>)}

\* clearpart_devs
ClearedRhel6(n) == Listed(n)
Cleared(n) == IF site.version[n] = "rhel6" THEN ClearedRhel6(n) ELSE {site.boot[n]}

\* Disks kept through a reinstallation of the operating system.
HeldBack(n) ==
    {d \in site.disks[n] :
        n \in site.reinstall /\ d # site.boot[n] /\ <<n, d>> \in site.marked}

\* Faulty: the fencing disks are forgotten.
SparedWithoutFencing(n) ==
    {d \in site.disks[n] :
        /\ ~AloneAtPlan(<<n, d>>) \/ d \in HeldBack(n)
        /\ HasUuid(n, d) /\ <<n, d>> \notin site.late}

\* Faulty: counts from one.
SparedOwn(n) ==
    {d \in site.disks[n] : HasUuid(n, d) /\ <<n, d>> \notin site.late}
    \union site.fencing

\* The disks that shared_uuids lets the bootloader snippet recognise.
Spared(n) ==
    {d \in site.disks[n] :
        /\ ~AloneAtPlan(<<n, d>>) \/ d \in HeldBack(n)
        /\ HasUuid(n, d) /\ <<n, d>> \notin site.late}
    \union site.fencing
-----------------------------------------------------------------------------
(* One installation.                                                       *)

GoTo(n, s) == stage' = [stage EXCEPT ![n] = s]

Erase(n, D) ==
    /\ erased' = erased \union ({n} \X D)
    /\ vg' = [d \in Disks |-> IF d \in D THEN "none" ELSE vg[d]]

\* The kickstart of rhel6 runs the bootloader snippet before the partition
\* snippet.
BootloaderFirst(n) == site.version[n] = "rhel6"

Start(n) ==
    /\ stage[n] = "off"
    /\ GoTo(n, IF BootloaderFirst(n) THEN "scan" ELSE "check")
    /\ UNCHANGED <<site, scanned, todd, vg, erased>>

AfterChecks(n) == IF BootloaderFirst(n) THEN "ready" ELSE "groups"

\* Faulty: looks for the boot disk only.
CheckBootDisk(n) ==
    /\ stage[n] = "check"
    /\ GoTo(n, IF HasUuid(n, site.boot[n]) /\ site.boot[n] \notin Attached(n) THEN "halted"
               ELSE AfterChecks(n))
    /\ UNCHANGED <<site, scanned, todd, vg, erased>>

\* "Could not find disk of UUID": an error ends the installation.
CheckDisks(n) ==
    /\ stage[n] = "check"
    /\ GoTo(n, IF \E d \in Listed(n) \ Attached(n) : HasUuid(n, d) THEN "halted"
               ELSE AfterChecks(n))
    /\ UNCHANGED <<site, scanned, todd, vg, erased>>

\* pvs | grep: the groups whose names contain g's.
Matching(g) == {g} \union IF g = "vg_root" THEN {"vg_root_data"} ELSE {}

GroupsSeen(n) == {vg[d] : d \in Attached(n)} \intersect Groups

\* Faulty: of a node that is reinstalled too.
AllGroups(n) == GroupsSeen(n)

\* A reinstallation looks for vg_root whether or not there is one.
GroupsToRemove(n) ==
    IF n \in site.reinstall
    THEN {g \in {"vg_root"} : Matching(g) \intersect GroupsSeen(n) # {}}
    ELSE GroupsSeen(n)

\* A pvremove that is forced twice removes a physical volume from whatever
\* group it is in, although the vgreduce before it has failed.
RemoveGroups(n) ==
    /\ stage[n] = "groups"
    /\ \/ /\ GroupsToRemove(n) = {}
          /\ GoTo(n, "wipe")
          /\ UNCHANGED vg
       \/ \E g \in GroupsToRemove(n) :
             /\ vg' = [d \in Disks |-> IF d \in Attached(n) /\ vg[d] \in Matching(g)
                                       THEN "none" ELSE vg[d]]
             /\ UNCHANGED stage
    /\ UNCHANGED <<site, scanned, todd, erased>>

WipeDisks(n) ==
    /\ stage[n] = "wipe"
    /\ Erase(n, Cleared(n) \intersect Attached(n))
    /\ GoTo(n, "scan")
    /\ UNCHANGED <<site, scanned, todd>>

(***************************************************************************)
(* The bootloader snippet goes over the disks in the order of their device *)
(* names.  Its test for a serial number it already has is a search of the  *)
(* text of the list.                                                       *)
(***************************************************************************)
InList(n, d) == \E e \in todd[n] : <<d, e>> \in PartOf

ScanDisk(n) ==
    /\ stage[n] = "scan"
    /\ HasUuid(n, site.boot[n])
    /\ \E d \in Attached(n) \ scanned[n] :
          /\ scanned' = [scanned EXCEPT ![n] = @ \union {d}]
          /\ todd' = [todd EXCEPT ![n] =
                        IF d = site.boot[n] \/ d \in Spared(n) \/ InList(n, d)
                        THEN @ ELSE @ \union {d}]
    /\ UNCHANGED <<site, stage, vg, erased>>

\* A boot disk known by its name: the snippet's dd is given a path under
\* /sys, where it writes nothing.
ScanEnds(n) ==
    /\ stage[n] = "scan"
    /\ HasUuid(n, site.boot[n]) => Attached(n) \subseteq scanned[n]
    /\ GoTo(n, "dd")
    /\ scanned' = [scanned EXCEPT ![n] = {}]
    /\ UNCHANGED <<site, todd, vg, erased>>

ZeroDisk(n) ==
    /\ stage[n] = "dd"
    /\ \/ /\ todd[n] = {}
          /\ GoTo(n, "match")
          /\ UNCHANGED <<todd, vg, erased>>
       \/ \E d \in todd[n] :
             /\ Erase(n, {d})
             /\ todd' = [todd EXCEPT ![n] = @ \ {d}]
             /\ UNCHANGED stage
    /\ UNCHANGED <<site, scanned>>

\* Several devices match only when they are Fibre Channel paths of one disk.
BootDiskFound(n) ==
    /\ site.boot[n] \in Attached(n)
    /\ HasUuid(n, site.boot[n]) /\ site.paths[n][site.boot[n]] > 1
       => site.boot[n] \in site.fc

AfterMatch(n) == IF BootloaderFirst(n) THEN "check" ELSE "ready"

\* Faulty: may come before the erasing.
MatchEarly(n) ==
    /\ stage[n] \in {"dd", "match"}
    /\ GoTo(n, IF BootDiskFound(n) THEN AfterMatch(n) ELSE "halted")
    /\ UNCHANGED <<site, scanned, todd, vg, erased>>

MatchBootDisk(n) ==
    /\ stage[n] = "match"
    /\ GoTo(n, IF BootDiskFound(n) THEN AfterMatch(n) ELSE "halted")
    /\ UNCHANGED <<site, scanned, todd, vg, erased>>

(***************************************************************************)
(* Anaconda clears the disks of clearpart and makes the root volume group. *)
(* Of disks it may not use, or that have no entry in disk_list, it makes   *)
(* nothing and stops.                                                      *)
(***************************************************************************)
Install(n) ==
    /\ stage[n] = "ready"
    /\ \/ /\ site.root[n] \subseteq Cleared(n)
          /\ GoTo(n, "installed")
          /\ erased' = erased \union ({n} \X (Cleared(n) \intersect Attached(n)))
          /\ vg' = [d \in Disks |-> IF d \in site.root[n] THEN "vg_root"
                                    ELSE IF d \in Cleared(n) THEN "none"
                                    ELSE vg[d]]
       \/ /\ ~(site.root[n] \subseteq Cleared(n))
          /\ GoTo(n, "halted")
          /\ UNCHANGED <<vg, erased>>
    /\ UNCHANGED <<site, scanned, todd>>

\* The installed system makes its data volume groups.
MakeGroup(n) ==
    /\ stage[n] = "installed"
    /\ \E d \in site.disks[n] \intersect Attached(n) :
          /\ vg[d] = "none"
          /\ vg' = [vg EXCEPT ![d] = "vg_data"]
    /\ UNCHANGED <<site, stage, scanned, todd, erased>>

PowerCycle(n) ==
    /\ stage[n] # "off"
    /\ GoTo(n, "off")
    /\ scanned' = [scanned EXCEPT ![n] = {}]
    /\ todd' = [todd EXCEPT ![n] = {}]
    /\ erased' = {i \in erased : i[1] # n}
    /\ UNCHANGED <<site, vg>>

Next ==
    \E n \in Nodes :
        \/ Start(n) \/ CheckDisks(n) \/ RemoveGroups(n) \/ WipeDisks(n)
        \/ ScanDisk(n) \/ ScanEnds(n) \/ ZeroDisk(n) \/ MatchBootDisk(n)
        \/ Install(n) \/ MakeGroup(n) \/ PowerCycle(n)

Spec == Init /\ [][Next]_vars
-----------------------------------------------------------------------------
(* Properties.                                                             *)

Others(n) == UNION {site.disks[m] : m \in Nodes \ {n}}

\* What n must leave alone, read off the deployment and not off the uuids.
Foreign(n) == Others(n) \union site.fencing \union HeldBack(n)

\* Every item of d has its uuid from the start and writes it alike.
AgreedOn(d) ==
    \A i, j \in Items :
        i[2] = d /\ j[2] = d
        => /\ site.uuid[i] = site.uuid[j]
           /\ site.uuid[i] # "kgb"
           /\ i \notin site.late

(* An installation erases no disk that another node has too, no fencing    *)
(* disk, and in a reinstallation no disk marked shared, as long as the     *)
(* items of such a disk agree on its uuid and had it when the plan was     *)
(* created: neither the partition nor the bootloader snippet, nor Anaconda *)
(* afterwards, nor any of them when power fails and they start again       *)
(* (_get_disks_to_clear, _generate_bootloader_fragments, bootloader.erb).  *)
(* Erasing is wipefs, dd and clearpart; the removal of volume groups is    *)
(* the subject of ReinstallKeepsData.                                      *)
ForeignDisksKept ==
    \A n \in Nodes : \A d \in Foreign(n) : AgreedOn(d) => <<n, d>> \notin erased

(* The same without the condition, which is what bootloader.erb says: "it  *)
(* is a shared disk, do not dd it".                                        *)
SharedDisksKept ==
    \A n \in Nodes : \A d \in Foreign(n) : <<n, d>> \notin erased

(* When %pre has ended, every disk that is in a node's model and in no     *)
(* other's has been erased, if its boot disk is known by uuid: nothing of  *)
(* an old system is left to be found (bootloader.erb, "if the uuid is not  *)
(* in the array already, then add it to the array of disks to dd").        *)
OwnDisksErased ==
    \A n \in Nodes :
        stage[n] = "ready" /\ HasUuid(n, site.boot[n])
        => \A d \in (site.disks[n] \intersect Attached(n)) \ Foreign(n) :
              \/ <<n, d>> \in erased
              \/ site.version[n] = "rhel6" /\ d \in Cleared(n)

\* n does not see a disk that is in its model and in no other's.
MissesDisk(n) ==
    \E d \in site.disks[n] \ (Attached(n) \union Others(n)) : HasUuid(n, d)

(* An installation that misses one of the node's own disks ends in %pre,   *)
(* and the boot disk of the old system has not been erased by it.  For     *)
(* rhel7 no disk has been: the checks of the partition snippet come first  *)
(* (_get_disk_list_item_config, kickstart.erb).  For rhel6 they come last  *)
(* (rhel6/kickstart.erb), when the bootloader snippet has zeroed all other *)
(* disks: what is left then is the boot disk, which that snippet passes    *)
(* over and Anaconda does not get to.                                      *)
MissingDiskStops ==
    \A n \in Nodes : MissesDisk(n) =>
        /\ stage[n] \notin {"ready", "installed"}
        /\ <<n, site.boot[n]>> \notin erased
        /\ site.version[n] = "rhel7" =>
              /\ stage[n] \in {"off", "check", "halted"}
              /\ \A d \in Disks : <<n, d>> \notin erased

(* A volume group whose name does not contain vg_root, on disks that every *)
(* node that sees them keeps back in its reinstallation, survives all      *)
(* steps of all installations: neither the removal of groups nor the       *)
(* erasing of disks gets at it.  One whose name contains vg_root does not: *)
(* "pvs | grep vg_root" finds it (_get_disks_to_clear).                    *)
ReinstallKeepsData ==
    [][\A d \in Disks :
          /\ vg[d] \in Groups \ Matching("vg_root")
          /\ AgreedOn(d)
          /\ \A n \in Nodes : d \in Attached(n) => d \in HeldBack(n)
          => vg'[d] = vg[d]]_vars
=============================================================================
