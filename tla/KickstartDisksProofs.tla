------------------------ MODULE KickstartDisksProofs ------------------------
(***************************************************************************)
(* The safety properties of KickstartDisks hold for any nodes, disks and   *)
(* deployments, in whatever order the nodes install and lose power.        *)
(*                                                                         *)
(* The deployment does not change (WellFormed stays true), so what the two *)
(* snippets may erase is decided when they are written: Cleared and Spared *)
(* are compared with Foreign once, in ClearedIsOwn, SparedHasForeign and   *)
(* SparedIsForeign.  The invariant then follows one installation: what the *)
(* checks have established (Looked), what is in the array of disks to zero *)
(* (ForeignSpared), and that no disk of the node's own is lost between the *)
(* snippets (OwnZeroed).                                                   *)
(***************************************************************************)
EXTENDS KickstartDisks, TLAPS

Ended == {"ready", "installed"}

\* The checks of the partition snippet are behind n; the boot disk has been found.
PastChecks(n) ==
    \/ stage[n] \in Ended
    \/ ~BootloaderFirst(n) /\ stage[n] \notin {"off", "check", "halted"}

PastMatch(n) == stage[n] \in Ended \/ (BootloaderFirst(n) /\ stage[n] = "check")

Looked ==
    \A n \in Nodes :
        /\ PastChecks(n) => \A d \in Listed(n) : HasUuid(n, d) => d \in Attached(n)
        /\ PastMatch(n) => site.boot[n] \in Attached(n)
        /\ stage[n] \in {"groups", "wipe"} => ~BootloaderFirst(n)
        /\ todd[n] \subseteq Attached(n) \ {site.boot[n]}

ForeignSpared ==
    \A n \in Nodes : \A d \in Foreign(n) :
        AgreedOn(d) => d \notin todd[n] /\ <<n, d>> \notin erased

IInv == TypeOK /\ WellFormed(site) /\ Looked /\ ForeignSpared /\ MissingDiskStops

OwnAttached(n) == (site.disks[n] \intersect Attached(n)) \ Foreign(n)

ErasedOrCleared(n, d) ==
    \/ <<n, d>> \in erased
    \/ site.version[n] = "rhel6" /\ d \in Cleared(n)

ScannedInTurn == \A n \in Nodes : stage[n] # "scan" => scanned[n] = {}

\* The scan is behind n.
PastScan(n) ==
    \/ stage[n] \in {"dd", "match", "ready"}
    \/ BootloaderFirst(n) /\ stage[n] = "check"

OwnZeroed ==
    \A n \in {m \in Nodes : HasUuid(m, site.boot[m])} :
        /\ (stage[n] = "scan" \/ PastScan(n)) /\ site.boot[n] \in Attached(n) =>
              ErasedOrCleared(n, site.boot[n])
        /\ stage[n] = "scan" =>
              \A d \in OwnAttached(n) \intersect scanned[n] :
                  d \in todd[n] \/ ErasedOrCleared(n, d)
        /\ PastScan(n) =>
              \A d \in OwnAttached(n) : d \in todd[n] \/ ErasedOrCleared(n, d)
-----------------------------------------------------------------------------
(* The deployment.                                                         *)

LEMMA Deployment ==
    ASSUME TypeOK, NEW n \in Nodes
    PROVE  /\ site.disks[n] \subseteq Disks /\ site.boot[n] \in Disks
           /\ site.root[n] \subseteq Disks /\ site.fencing \subseteq Disks
           /\ site.version[n] \in Versions
           /\ Listed(n) \subseteq Disks /\ Cleared(n) \subseteq Disks
           /\ Attached(n) \subseteq Disks
BY DEF TypeOK, SiteRecords, Listed, Cleared, ClearedRhel6, Attached

\* A disk in n's model that another node has too, written alike, is not alone.
LEMMA CommonNotAlone ==
    ASSUME TypeOK, NEW n \in Nodes, NEW d \in site.disks[n] \intersect Others(n),
           AgreedOn(d)
    PROVE  ~Alone(<<n, d>>) /\ ~AloneAtPlan(<<n, d>>)
<1>1. PICK m \in Nodes \ {n} : d \in site.disks[m]
  BY DEF Others
<1>2. d \in Disks
  BY Deployment
<1>3. <<n, d>> \in Items /\ <<m, d>> \in Items \ {<<n, d>>}
  BY <1>1, <1>2 DEF Items
<1>4. /\ site.uuid[<<n, d>>] = site.uuid[<<m, d>>]
      /\ <<n, d>> \notin site.late /\ <<m, d>> \notin site.late
  BY <1>3 DEF AgreedOn
<1>5. SameUuid(<<n, d>>, <<m, d>>)
  BY <1>4 DEF SameUuid
<1> QED
  BY <1>3, <1>4, <1>5 DEF Alone, AloneAtPlan

\* A disk with a uuid that no other node has is alone.
LEMMA PrivateIsAlone ==
    ASSUME TypeOK, NEW n \in Nodes, NEW d \in site.disks[n] \ Others(n), HasUuid(n, d)
    PROVE  /\ Alone(<<n, d>>)
           /\ <<n, d>> \notin site.late => AloneAtPlan(<<n, d>>)
<1>1. ASSUME NEW j \in Items \ {<<n, d>>}
      PROVE  ~SameUuid(<<n, d>>, j)
  <2>1. PICK m \in Nodes, e \in Disks : j = <<m, e>> /\ e \in site.disks[m]
    BY DEF Items
  <2>2. e # d
    BY <1>1, <2>1 DEF Others
  <2> QED
    BY <2>1, <2>2 DEF SameUuid, HasUuid
<1> QED
  BY <1>1 DEF Alone, AloneAtPlan

LEMMA BootDiskIsOwn ==
    ASSUME TypeOK, WellFormed(site), NEW n \in Nodes
    PROVE  site.boot[n] \in site.disks[n] \ Foreign(n)
BY DEF WellFormed, Foreign, Others, HeldBack

(* Neither wipefs nor Anaconda is given a disk that n must leave alone:    *)
(* only disks that are alone in the list of uuids, and in a reinstallation *)
(* only the boot disk (_get_disks_to_clear).                               *)
LEMMA ClearedIsOwn ==
    ASSUME TypeOK, WellFormed(site), NEW n \in Nodes, NEW d \in Cleared(n), AgreedOn(d)
    PROVE  d \notin Foreign(n)
<1>1. CASE site.version[n] = "rhel6"
  <2>1. d \in Listed(n)
    BY <1>1 DEF Cleared, ClearedRhel6
  <2>2. d \in site.disks[n] /\ <<n, d>> \in Items
    BY <2>1, Deployment DEF Listed, Items
  <2>3. HasUuid(n, d)
    BY <2>2 DEF AgreedOn, HasUuid
  <2>4. d \notin Others(n)
    BY <2>1, <2>2, <2>3, CommonNotAlone DEF Listed
  <2>5. d \notin site.fencing /\ d \notin HeldBack(n)
    BY <1>1, <2>2 DEF WellFormed, HeldBack
  <2> QED
    BY <2>4, <2>5 DEF Foreign
<1>2. CASE site.version[n] # "rhel6"
  BY <1>2, BootDiskIsOwn DEF Cleared
<1> QED
  BY <1>1, <1>2

(* The bootloader snippet recognises every disk of another node, every     *)
(* fencing disk and every disk held back (shared_uuids).                   *)
LEMMA SparedHasForeign ==
    ASSUME TypeOK, WellFormed(site), NEW n \in Nodes,
           NEW d \in Foreign(n) \intersect Attached(n), AgreedOn(d)
    PROVE  d \in Spared(n)
<1>1. ASSUME d \in site.disks[n]
      PROVE  HasUuid(n, d) /\ <<n, d>> \notin site.late
  <2>1. <<n, d>> \in Items
    BY <1>1, Deployment DEF Items
  <2> QED
    BY <2>1 DEF AgreedOn, HasUuid
<1>2. CASE d \in site.fencing
  BY <1>2 DEF Spared
<1>3. CASE d \in HeldBack(n)
  BY <1>1, <1>3 DEF Spared, HeldBack
<1>4. CASE d \in Others(n)
  <2>1. PICK m \in Nodes : d \in site.disks[m]
    BY <1>4 DEF Others
  <2>2. site.paths[n][d] # 0
    BY DEF Attached
  <2>3. d \in site.disks[n]
    BY <2>1, <2>2 DEF WellFormed
  <2>4. ~AloneAtPlan(<<n, d>>)
    BY <1>4, <2>3, CommonNotAlone
  <2> QED
    BY <1>1, <2>3, <2>4 DEF Spared
<1> QED
  BY <1>2, <1>3, <1>4 DEF Foreign

(* And of n's own disks it recognises none.                                *)
LEMMA SparedIsForeign ==
    ASSUME TypeOK, NEW n \in Nodes, NEW d \in Spared(n)
    PROVE  d \in Foreign(n)
BY PrivateIsAlone DEF Spared, Foreign
-----------------------------------------------------------------------------
(* One step of one node.                                                   *)

NodeStep(n) ==
    \/ Start(n) \/ CheckDisks(n) \/ RemoveGroups(n) \/ WipeDisks(n)
    \/ ScanDisk(n) \/ ScanEnds(n) \/ ZeroDisk(n) \/ MatchBootDisk(n)
    \/ Install(n) \/ MakeGroup(n) \/ PowerCycle(n)

LEMMA SiteStays ==
    ASSUME NEW n \in Nodes, NodeStep(n)
    PROVE  site' = site
BY DEF NodeStep, Start, CheckDisks, RemoveGroups, WipeDisks, ScanDisk, ScanEnds, ZeroDisk,
       MatchBootDisk, Install, MakeGroup, PowerCycle

\* What is read off the deployment stays as it is.
LEMMA SameSite ==
    ASSUME site' = site
    PROVE  /\ WellFormed(site)' = WellFormed(site)
           /\ \A n \in Nodes :
                 /\ Listed(n)' = Listed(n) /\ Cleared(n)' = Cleared(n)
                 /\ Attached(n)' = Attached(n) /\ Foreign(n)' = Foreign(n)
                 /\ Others(n)' = Others(n) /\ BootloaderFirst(n)' = BootloaderFirst(n)
           /\ \A n \in Nodes, d \in Disks : HasUuid(n, d)' = HasUuid(n, d)
           /\ \A d \in Disks : AgreedOn(d)' = AgreedOn(d)
BY DEF WellFormed, Listed, Cleared, ClearedRhel6, Attached, Foreign, Others, HeldBack,
       HasUuid, AgreedOn, Alone, SameUuid, Items, BootloaderFirst

\* A node's step leaves the installations of the others as they are.
LEMMA OthersStay ==
    ASSUME TypeOK, NEW n \in Nodes, NodeStep(n)
    PROVE  \A m \in Nodes \ {n} :
              /\ stage'[m] = stage[m] /\ todd'[m] = todd[m] /\ scanned'[m] = scanned[m]
              /\ \A d \in Disks : <<m, d>> \in erased' <=> <<m, d>> \in erased
<1> USE DEF TypeOK, GoTo, Erase
<1>1. CASE Start(n) \/ CheckDisks(n) \/ RemoveGroups(n) \/ MatchBootDisk(n) \/ MakeGroup(n)
  BY <1>1 DEF Start, CheckDisks, RemoveGroups, MatchBootDisk, MakeGroup
<1>2. CASE WipeDisks(n)
  BY <1>2 DEF WipeDisks
<1>3. CASE ScanDisk(n) \/ ScanEnds(n)
  BY <1>3 DEF ScanDisk, ScanEnds
<1>4. CASE ZeroDisk(n)
  BY <1>4 DEF ZeroDisk
<1>5. CASE Install(n)
  BY <1>5 DEF Install
<1>6. CASE PowerCycle(n)
  BY <1>6 DEF PowerCycle
<1> QED
  BY <1>1, <1>2, <1>3, <1>4, <1>5, <1>6 DEF NodeStep

LEMMA TypeStep ==
    ASSUME TypeOK, NEW n \in Nodes, NodeStep(n)
    PROVE  TypeOK'
<1> USE DEF TypeOK, GoTo
<1>1. site' = site
  BY SiteStays
<1>2. CASE Start(n) \/ CheckDisks(n) \/ MatchBootDisk(n)
  BY <1>1, <1>2 DEF Start, CheckDisks, MatchBootDisk, AfterChecks, AfterMatch, Stages
<1>3. CASE RemoveGroups(n)
  BY <1>1, <1>3 DEF RemoveGroups, Stages
<1>4. ASSUME NEW D, D \subseteq Disks, Erase(n, D)
      PROVE  erased' \subseteq Nodes \X Disks /\ vg' \in [Disks -> Groups \union {"none"}]
  BY <1>4 DEF Erase
<1>5. CASE WipeDisks(n)
  <2>1. Cleared(n) \intersect Attached(n) \subseteq Disks
    BY Deployment
  <2> QED
    BY <1>1, <1>4, <1>5, <2>1 DEF WipeDisks, Stages
<1>6. CASE ScanDisk(n)
  BY <1>1, <1>6 DEF ScanDisk, Attached
<1>7. CASE ScanEnds(n)
  BY <1>1, <1>7 DEF ScanEnds, Stages
<1>8. CASE ZeroDisk(n)
  <2>1. CASE todd[n] = {}
    BY <1>1, <1>8, <2>1 DEF ZeroDisk, Stages
  <2>2. CASE todd[n] # {}
    <3>1. PICK d \in todd[n] : Erase(n, {d}) /\ todd' = [todd EXCEPT ![n] = @ \ {d}]
                               /\ UNCHANGED stage
      BY <1>8, <2>2 DEF ZeroDisk
    <3>2. UNCHANGED <<site, scanned>>
      BY <1>8 DEF ZeroDisk
    <3> QED
      BY <1>4, <3>1, <3>2
  <2> QED
    BY <2>1, <2>2
<1>9. CASE Install(n)
  <2>1. /\ erased' \subseteq Nodes \X Disks /\ vg' \in [Disks -> Groups \union {"none"}]
        /\ stage' \in [Nodes -> Stages] /\ UNCHANGED <<scanned, todd>>
        /\ stage[n] = "ready" /\ \A m \in Nodes \ {n} : stage'[m] = stage[m]
    BY <1>9, Deployment DEF Install, Stages, Groups
  <2> QED
    BY <1>1, <2>1
<1>10. CASE MakeGroup(n)
  BY <1>1, <1>10 DEF MakeGroup, Groups
<1>11. CASE PowerCycle(n)
  BY <1>1, <1>11 DEF PowerCycle, Stages
<1> QED
  BY <1>2, <1>3, <1>5, <1>6, <1>7, <1>8, <1>9, <1>10, <1>11 DEF NodeStep

(* What n's own installation does to the disks it erases: none of them is  *)
(* Foreign, and none is out of n's sight.                                  *)
LEMMA ErasedByStep ==
    ASSUME IInv, NEW n \in Nodes, NodeStep(n), NEW d \in Disks,
           <<n, d>> \in erased' \ erased
    PROVE  /\ d \in Attached(n)
           /\ \/ stage[n] = "dd" /\ d \in todd[n]
              \/ stage[n] \in {"wipe", "ready"} /\ d \in Cleared(n)
<1> USE DEF IInv, TypeOK
<1>1. CASE WipeDisks(n)
  BY <1>1 DEF WipeDisks, Erase
<1>2. CASE ZeroDisk(n)
  BY <1>2 DEF ZeroDisk, Erase, Looked
<1>3. CASE Install(n)
  BY <1>3 DEF Install
<1>4. CASE Start(n) \/ CheckDisks(n) \/ RemoveGroups(n) \/ ScanDisk(n) \/ ScanEnds(n)
           \/ MatchBootDisk(n) \/ MakeGroup(n) \/ PowerCycle(n)
  BY <1>4 DEF Start, CheckDisks, RemoveGroups, ScanDisk, ScanEnds, MatchBootDisk, MakeGroup,
     PowerCycle
<1> QED
  BY <1>1, <1>2, <1>3, <1>4 DEF NodeStep

\* A disk is put into the array when it is scanned.
LEMMA AddedByStep ==
    ASSUME TypeOK, NEW n \in Nodes, NodeStep(n), NEW d, d \in todd'[n] \ todd[n]
    PROVE  d \in Attached(n) \ (Spared(n) \union {site.boot[n]}) /\ stage[n] = "scan"
<1> USE DEF TypeOK
<1>1. CASE ScanDisk(n)
  BY <1>1 DEF ScanDisk
<1>2. CASE Start(n) \/ CheckDisks(n) \/ RemoveGroups(n) \/ WipeDisks(n) \/ ScanEnds(n)
           \/ MatchBootDisk(n) \/ Install(n) \/ MakeGroup(n)
  BY <1>2 DEF Start, CheckDisks, RemoveGroups, WipeDisks, ScanEnds, MatchBootDisk, Install,
     MakeGroup
<1>3. CASE PowerCycle(n) \/ ZeroDisk(n)
  BY <1>3 DEF PowerCycle, ZeroDisk
<1> QED
  BY <1>1, <1>2, <1>3 DEF NodeStep

\* The stages follow each other, the checks before whoever is past them.
LEMMA StageByStep ==
    ASSUME TypeOK, NEW n \in Nodes, NodeStep(n)
    PROVE  /\ PastChecks(n)' =>
                 \/ PastChecks(n)
                 \/ \A d \in Listed(n) : HasUuid(n, d) => d \in Attached(n)
           /\ PastMatch(n)' => PastMatch(n) \/ site.boot[n] \in Attached(n)
           /\ stage'[n] \in {"groups", "wipe"} =>
                 stage[n] \in {"groups", "wipe"} \/ ~BootloaderFirst(n)
<1>1. BootloaderFirst(n)' = BootloaderFirst(n)
  BY SiteStays, SameSite
<1> QED
  BY <1>1 DEF TypeOK, PastChecks, PastMatch, Ended, NodeStep, GoTo, Start, CheckDisks,
     AfterChecks, RemoveGroups, WipeDisks, ScanDisk, ScanEnds, ZeroDisk, MatchBootDisk,
     AfterMatch, BootDiskFound, Install, MakeGroup, PowerCycle

LEMMA LookedStep ==
    ASSUME IInv, NEW n \in Nodes, NodeStep(n)
    PROVE  Looked'
<1> USE DEF IInv
<1>1. site' = site
  BY SiteStays
<1>2. \A m \in Nodes : \A d \in Listed(m) : HasUuid(m, d)' = HasUuid(m, d)
  BY <1>1, SameSite, Deployment
<1>3. ASSUME NEW m \in Nodes \ {n}
      PROVE  stage'[m] = stage[m] /\ todd'[m] = todd[m]
  BY OthersStay
<1>4. PastChecks(n)' => \A d \in Listed(n) : HasUuid(n, d) => d \in Attached(n)
  BY StageByStep DEF Looked
<1>5. /\ PastMatch(n)' => site.boot[n] \in Attached(n)
      /\ stage'[n] \in {"groups", "wipe"} => ~BootloaderFirst(n)
  BY StageByStep DEF Looked
<1>6. todd'[n] \subseteq Attached(n) \ {site.boot[n]}
  BY AddedByStep DEF Looked
<1>7. \A m \in Nodes \ {n} : /\ PastChecks(m)' = PastChecks(m)
                             /\ PastMatch(m)' = PastMatch(m)
  BY <1>1, <1>3, SameSite DEF PastChecks, PastMatch
<1> QED
  BY <1>1, <1>2, <1>3, <1>4, <1>5, <1>6, <1>7, SameSite DEF Looked

LEMMA ForeignSparedStep ==
    ASSUME IInv, NEW n \in Nodes, NodeStep(n)
    PROVE  ForeignSpared'
<1> USE DEF IInv
<1>1. site' = site
  BY SiteStays
<1> SUFFICES ASSUME NEW m \in Nodes, NEW d \in Foreign(m), AgreedOn(d), d \in Disks
             PROVE  d \notin todd'[m] /\ <<m, d>> \notin erased'
  <2>1. TypeOK'
    BY TypeStep
  <2>2. \A m \in Nodes : todd'[m] \subseteq Disks /\ erased' \subseteq Nodes \X Disks
    BY <2>1 DEF TypeOK
  <2> QED
    BY <1>1, <2>2, SameSite DEF ForeignSpared
<1>2. d \notin todd[m] /\ <<m, d>> \notin erased
  BY DEF ForeignSpared
<1>3. CASE m # n
  BY <1>2, <1>3, OthersStay
<1>4. CASE m = n
  <2>1. d \notin todd'[n]
    BY <1>2, <1>4, AddedByStep, SparedHasForeign
  <2>2. <<n, d>> \notin erased'
    BY <1>2, <1>4, ErasedByStep, ClearedIsOwn
  <2> QED
    BY <1>4, <2>1, <2>2
<1> QED
  BY <1>3, <1>4

\* A disk that n misses is in the list of those that are looked for.
LEMMA MissedIsListed ==
    ASSUME TypeOK, NEW n \in Nodes, MissesDisk(n)
    PROVE  \E d \in Listed(n) \ Attached(n) : HasUuid(n, d)
BY PrivateIsAlone DEF MissesDisk, Listed

LEMMA MissingDiskStep ==
    ASSUME IInv, NEW n \in Nodes, NodeStep(n)
    PROVE  MissingDiskStops'
<1> USE DEF IInv
<1>1. site' = site
  BY SiteStays
<1> SUFFICES ASSUME NEW m \in Nodes, MissesDisk(m)
             PROVE  /\ stage'[m] \notin Ended
                    /\ <<m, site.boot[m]>> \notin erased'
                    /\ site.version[m] = "rhel7" =>
                          /\ stage'[m] \in {"off", "check", "halted"}
                          /\ \A d \in Disks : <<m, d>> \notin erased'
  <2>1. \A m \in Nodes, d \in Disks : HasUuid(m, d)' = HasUuid(m, d)
    BY <1>1, SameSite
  <2>2. \A m \in Nodes : site.disks[m] \subseteq Disks
    BY Deployment
  <2> QED
    BY <1>1, <2>1, <2>2, SameSite DEF MissingDiskStops, MissesDisk, Ended
<1>2. /\ stage[m] \notin Ended /\ <<m, site.boot[m]>> \notin erased
      /\ site.version[m] = "rhel7" =>
            /\ stage[m] \in {"off", "check", "halted"}
            /\ \A d \in Disks : <<m, d>> \notin erased
  BY DEF MissingDiskStops, Ended
<1>3. CASE m # n
  BY <1>2, <1>3, OthersStay, Deployment
<1>4. CASE m = n
  <2>1. ~PastChecks(n) /\ ~PastChecks(n)'
    BY <1>4, StageByStep, MissedIsListed DEF Looked
  <2>2. BootloaderFirst(n)' = BootloaderFirst(n)
    BY <1>1, SameSite
  <2>3. /\ stage'[n] \notin Ended
        /\ site.version[n] = "rhel7" => stage'[n] \in {"off", "check", "halted"}
    BY <2>1, <2>2 DEF PastChecks, BootloaderFirst
  <2>4. stage[n] \notin {"wipe", "ready"} /\ site.boot[n] \notin todd[n]
    BY <2>1 DEF Looked, PastChecks, Ended
  <2>5. <<n, site.boot[n]>> \notin erased'
    BY <1>2, <1>4, <2>4, ErasedByStep, Deployment
  <2>6. site.version[n] = "rhel7" => \A d \in Disks : <<n, d>> \notin erased'
    BY <1>2, <1>4, <2>4, ErasedByStep
  <2> QED
    BY <1>4, <2>3, <2>5, <2>6
<1> QED
  BY <1>3, <1>4

LEMMA StepKeepsIInv ==
    ASSUME IInv, NEW n \in Nodes, NodeStep(n)
    PROVE  IInv'
<1>1. WellFormed(site)'
  BY SiteStays, SameSite DEF IInv
<1> QED
  BY <1>1, TypeStep, LookedStep, ForeignSparedStep, MissingDiskStep DEF IInv

LEMMA StutterKeepsIInv ==
    ASSUME IInv, UNCHANGED vars
    PROVE  IInv'
<1>1. UNCHANGED <<site, stage, scanned, todd, vg, erased>>
  BY DEF vars
<1>2. TypeOK' /\ WellFormed(site)'
  BY <1>1 DEF IInv, TypeOK, WellFormed
<1>3. \A m \in Nodes : Listed(m) \subseteq Disks /\ site.disks[m] \subseteq Disks
  BY Deployment DEF IInv
<1>4. Looked'
  BY <1>1, <1>3, SameSite DEF IInv, Looked, PastChecks, PastMatch
<1>5. ForeignSpared'
  BY <1>1, SameSite DEF IInv, ForeignSpared, AgreedOn, Items
<1>6. MissingDiskStops'
  BY <1>1, <1>3, SameSite DEF IInv, MissingDiskStops, MissesDisk
<1> QED
  BY <1>2, <1>4, <1>5, <1>6 DEF IInv

LEMMA InitImpliesIInv ==
    ASSUME Init
    PROVE  IInv
<1>1. site \in SiteRecords /\ WellFormed(site)
  BY SitesAssumption DEF Init
<1>2. TypeOK
  BY <1>1 DEF Init, TypeOK, SiteRecords, Stages
<1>3. Looked /\ ForeignSpared /\ MissingDiskStops
  BY DEF Init, Looked, PastChecks, PastMatch, Ended, ForeignSpared, MissingDiskStops
<1> QED
  BY <1>1, <1>2, <1>3 DEF IInv

LEMMA NextKeepsIInv ==
    ASSUME IInv, [Next]_vars
    PROVE  IInv'
BY StepKeepsIInv, StutterKeepsIInv DEF Next, NodeStep

(* IInv holds in every state KickstartDisks reaches.                       *)
THEOREM Invariance == Spec => []IInv
<1>1. Init => IInv
  BY InitImpliesIInv
<1>2. IInv /\ [Next]_vars => IInv'
  BY NextKeepsIInv
<1> QED
  BY <1>1, <1>2, PTL DEF Spec

\* The own disks of a node, the boot disk among them, and what is erased of
\* them, one step of the node at a time.
LEMMA ErasedStays ==
    ASSUME IInv, NEW n \in Nodes, NodeStep(n), ~PowerCycle(n), NEW d \in Disks
    PROVE  /\ ErasedOrCleared(n, d) => ErasedOrCleared(n, d)'
           /\ d \in todd[n] \ todd'[n] => <<n, d>> \in erased'
<1> USE DEF IInv, TypeOK
<1>1. site' = site /\ Cleared(n)' = Cleared(n)
  BY SiteStays, SameSite
<1>2. CASE Start(n) \/ CheckDisks(n) \/ RemoveGroups(n) \/ MatchBootDisk(n) \/ MakeGroup(n)
  BY <1>1, <1>2 DEF Start, CheckDisks, RemoveGroups, MatchBootDisk, MakeGroup,
     ErasedOrCleared
<1>3. CASE WipeDisks(n) \/ Install(n)
  BY <1>1, <1>3 DEF WipeDisks, Install, Erase, ErasedOrCleared
<1>4. CASE ScanDisk(n) \/ ScanEnds(n)
  BY <1>1, <1>4 DEF ScanDisk, ScanEnds, ErasedOrCleared
<1>5. CASE ZeroDisk(n)
  BY <1>1, <1>5 DEF ZeroDisk, Erase, ErasedOrCleared
<1> QED
  BY <1>2, <1>3, <1>4, <1>5 DEF NodeStep

\* When the scan begins the boot disk has been wiped, or is for clearpart.
LEMMA BootDiskZeroed ==
    ASSUME IInv, NEW n \in Nodes, NodeStep(n), HasUuid(n, site.boot[n]),
           site.boot[n] \in Attached(n), stage[n] # "scan", stage'[n] = "scan"
    PROVE  ErasedOrCleared(n, site.boot[n])'
<1> USE DEF IInv, TypeOK
<1>1. site' = site /\ Cleared(n)' = Cleared(n)
  BY SiteStays, SameSite
<1>2. CASE Start(n)
  <2>1. site.version[n] = "rhel6"
    BY <1>2 DEF Start, GoTo, BootloaderFirst
  <2>2. site.boot[n] \in site.disks[n] \ Others(n)
    BY BootDiskIsOwn DEF Foreign
  <2>3. site.boot[n] \in Cleared(n)
    BY <2>1, <2>2, PrivateIsAlone DEF Cleared, ClearedRhel6, Listed
  <2> QED
    BY <1>1, <2>1, <2>3 DEF ErasedOrCleared
<1>3. CASE WipeDisks(n)
  <2>1. site.version[n] # "rhel6"
    BY <1>3 DEF WipeDisks, Looked, BootloaderFirst
  <2> QED
    BY <1>1, <1>3, <2>1 DEF WipeDisks, Erase, Cleared, ErasedOrCleared
<1> QED
  BY <1>2, <1>3 DEF NodeStep, GoTo, CheckDisks, AfterChecks, RemoveGroups, ScanDisk, ScanEnds,
     ZeroDisk, MatchBootDisk, AfterMatch, Install, MakeGroup, PowerCycle

\* If no serial number is a part of another's, a disk that is scanned is
\* taken, unless it is the boot disk or Foreign.
LEMMA ScannedIsTaken ==
    ASSUME IInv, PartOf = {}, NEW n \in Nodes, NodeStep(n), stage[n] = "scan",
           NEW d \in OwnAttached(n) \ {site.boot[n]}, d \in scanned'[n] \ scanned[n]
    PROVE  d \in todd'[n]
<1> USE DEF IInv, TypeOK
<1>1. ScanDisk(n)
  BY DEF NodeStep, ScanDisk, ScanEnds, PowerCycle, Start, CheckDisks, RemoveGroups,
     WipeDisks, ZeroDisk, MatchBootDisk, Install, MakeGroup
<1>2. d \notin Spared(n)
  BY SparedIsForeign DEF OwnAttached
<1>3. ~InList(n, d)
  BY DEF InList
<1> QED
  BY <1>1, <1>2, <1>3 DEF ScanDisk

LEMMA StagesInTurn ==
    ASSUME TypeOK, NEW n \in Nodes, NodeStep(n)
    PROVE  /\ PastScan(n)' =>
                 /\ stage[n] = "scan" \/ PastScan(n)
                 /\ stage[n] = "scan" /\ HasUuid(n, site.boot[n]) =>
                       Attached(n) \subseteq scanned[n]
           /\ stage'[n] = "scan" \/ PastScan(n)' => ~PowerCycle(n)
           /\ stage[n] = "scan" \/ scanned'[n] = scanned[n] \/ scanned'[n] = {}
           /\ stage[n] = "scan" => stage'[n] = "scan" \/ scanned'[n] = {}
           /\ stage'[n] = "scan" => ~PastScan(n)
<1>1. BootloaderFirst(n)' = BootloaderFirst(n)
  BY SiteStays, SameSite
<1> QED
  BY <1>1 DEF TypeOK, PastScan, NodeStep, GoTo, Start, CheckDisks, AfterChecks, RemoveGroups,
     WipeDisks, ScanDisk, ScanEnds, ZeroDisk, MatchBootDisk, AfterMatch, Install, MakeGroup,
     PowerCycle

LEMMA OwnZeroedStep ==
    ASSUME PartOf = {}, IInv, ScannedInTurn, OwnZeroed, NEW n \in Nodes, NodeStep(n)
    PROVE  ScannedInTurn' /\ OwnZeroed'
<1> USE DEF IInv
<1>1. site' = site
  BY SiteStays
<1>2. ScannedInTurn'
  BY OthersStay, StagesInTurn DEF ScannedInTurn
<1> DEFINE Zeroed(m, d) == d \in todd[m] \/ ErasedOrCleared(m, d)
           Boot(m) ==
             (stage[m] = "scan" \/ PastScan(m)) /\ site.boot[m] \in Attached(m) =>
                 ErasedOrCleared(m, site.boot[m])
           Scanned(m) ==
             stage[m] = "scan" => \A d \in OwnAttached(m) \intersect scanned[m] : Zeroed(m, d)
           All(m) ==
             PastScan(m) => \A d \in OwnAttached(m) : Zeroed(m, d)
<1>3. ASSUME NEW m \in Nodes, HasUuid(m, site.boot[m])
      PROVE  Boot(m) /\ Scanned(m) /\ All(m)
  BY <1>3 DEF OwnZeroed
<1>4. \A m \in Nodes : /\ OwnAttached(m)' = OwnAttached(m) /\ OwnAttached(m) \subseteq Disks
                       /\ site.boot[m] \in Disks
                       /\ HasUuid(m, site.boot[m])' = HasUuid(m, site.boot[m])
                       /\ Attached(m)' = Attached(m) /\ Cleared(m)' = Cleared(m)
                       /\ BootloaderFirst(m)' = BootloaderFirst(m)
  BY <1>1, SameSite, Deployment DEF OwnAttached
<1>5. ASSUME NEW m \in Nodes \ {n}, HasUuid(m, site.boot[m])
      PROVE  Boot(m)' /\ Scanned(m)' /\ All(m)'
  <2>1. \A d \in Disks : ErasedOrCleared(m, d)' = ErasedOrCleared(m, d)
    BY <1>1, <1>4, OthersStay DEF ErasedOrCleared
  <2>2. stage'[m] = stage[m] /\ todd'[m] = todd[m] /\ scanned'[m] = scanned[m]
    BY OthersStay
  <2>3. PastScan(m)' = PastScan(m)
    BY <1>4, <2>2 DEF PastScan
  <2> QED
    BY <1>1, <1>3, <1>4, <1>5, <2>1, <2>2, <2>3
<1>6. ASSUME HasUuid(n, site.boot[n])
      PROVE  Boot(n)' /\ Scanned(n)' /\ All(n)'
  <2>1. ASSUME NEW d \in Disks, ~PowerCycle(n), Zeroed(n, d)
        PROVE  Zeroed(n, d)'
    BY <2>1, ErasedStays DEF ErasedOrCleared
  <2>2. Boot(n)'
    <3> SUFFICES ASSUME stage'[n] = "scan" \/ PastScan(n)',
                        site.boot[n] \in Attached(n)
                 PROVE  ErasedOrCleared(n, site.boot[n])'
      BY <1>1, <1>4
    <3>1. PICK b \in Disks : b = site.boot[n] /\ b = site'.boot[n]
      BY <1>1, <1>4
    <3>2. CASE stage[n] = "scan" \/ PastScan(n)
      <4>1. ErasedOrCleared(n, b)
        BY <1>3, <1>6, <3>1, <3>2
      <4>2. ErasedOrCleared(n, b)'
        BY <4>1, StagesInTurn, ErasedStays
      <4> QED
        BY <3>1, <4>2
    <3>3. CASE stage[n] # "scan" /\ ~PastScan(n)
      BY <1>6, <3>3, StagesInTurn, BootDiskZeroed
    <3> QED
      BY <3>2, <3>3
  <2>3. Scanned(n)'
    <3> SUFFICES ASSUME stage'[n] = "scan", NEW d \in OwnAttached(n), d \in scanned'[n]
                 PROVE  Zeroed(n, d)'
      BY <1>4
    <3>1. CASE d = site.boot[n]
      <4>1. d = site'.boot[n] /\ site.boot[n] \in Attached(n)
        BY <1>1, <3>1 DEF OwnAttached
      <4> QED
        BY <1>1, <1>4, <2>2, <4>1
    <3>2. CASE d # site.boot[n]
      <4>1. stage[n] = "scan"
        BY StagesInTurn DEF ScannedInTurn
      <4>2. CASE d \in scanned[n]
        BY <1>3, <1>4, <1>6, <2>1, <4>1, <4>2, StagesInTurn
      <4>3. CASE d \notin scanned[n]
        BY <3>2, <4>1, <4>3, ScannedIsTaken
      <4> QED
        BY <4>2, <4>3
    <3> QED
      BY <3>1, <3>2
  <2>4. All(n)'
    <3> SUFFICES ASSUME PastScan(n)', NEW d \in OwnAttached(n)
                 PROVE  Zeroed(n, d)'
      BY <1>4
    <3>1. CASE stage[n] = "scan"
      BY <1>3, <1>4, <1>6, <2>1, <3>1, StagesInTurn DEF OwnAttached
    <3>2. CASE PastScan(n)
      BY <1>3, <1>4, <1>6, <2>1, <3>2, StagesInTurn
    <3> QED
      BY <3>1, <3>2, StagesInTurn
  <2> QED
    BY <2>2, <2>3, <2>4
<1>7. OwnZeroed'
  BY <1>4, <1>5, <1>6 DEF OwnZeroed
<1> QED
  BY <1>2, <1>7
-----------------------------------------------------------------------------
(* Volume groups.                                                          *)

\* What ReinstallKeepsData asks of a disk.
HeldByAll(d) ==
    /\ vg[d] \in Groups \ Matching("vg_root")
    /\ AgreedOn(d)
    /\ \A n \in Nodes : d \in Attached(n) => d \in HeldBack(n)

\* Anaconda clears only disks it can see, or that no item gives a uuid.
LEMMA ClearedIsAttached ==
    ASSUME IInv, NEW n \in Nodes, stage[n] = "ready", NEW d \in Cleared(n), AgreedOn(d)
    PROVE  d \in Attached(n)
<1>1. CASE site.version[n] = "rhel6"
  <2>1. d \in Listed(n)
    BY <1>1 DEF Cleared, ClearedRhel6
  <2>2. <<n, d>> \in Items
    BY <2>1, Deployment DEF Items, Listed, IInv
  <2>3. HasUuid(n, d)
    BY <2>2 DEF AgreedOn, HasUuid
  <2> QED
    BY <2>1, <2>3 DEF IInv, Looked, PastChecks, Ended
<1>2. CASE site.version[n] # "rhel6"
  BY <1>2 DEF Cleared, IInv, Looked, PastMatch, Ended
<1> QED
  BY <1>1, <1>2

LEMMA StepKeepsData ==
    ASSUME IInv, NEW n \in Nodes, NodeStep(n), NEW d \in Disks, HeldByAll(d)
    PROVE  vg'[d] = vg[d]
<1> USE DEF IInv, TypeOK
<1>1. AgreedOn(d) /\ vg[d] \notin Matching("vg_root") /\ vg[d] # "none"
  BY DEF HeldByAll, Groups
<1>2. d \in Attached(n) => d \in HeldBack(n) /\ d \in Foreign(n) /\ n \in site.reinstall
  BY DEF HeldByAll, Foreign, HeldBack
<1>3. d \notin Cleared(n) \intersect Attached(n) /\ d \notin todd[n]
  BY <1>1, <1>2, ClearedIsOwn DEF ForeignSpared, Looked
<1>4. CASE RemoveGroups(n)
  BY <1>1, <1>2, <1>4 DEF RemoveGroups, GroupsToRemove, GroupsSeen
<1>5. CASE WipeDisks(n)
  BY <1>3, <1>5 DEF WipeDisks, Erase
<1>6. CASE ZeroDisk(n)
  BY <1>3, <1>6 DEF ZeroDisk, Erase
<1>7. CASE Install(n)
  <2>1. d \notin Cleared(n)
    BY <1>1, <1>3, <1>7, ClearedIsAttached DEF Install
  <2> QED
    BY <1>7, <2>1 DEF Install
<1>8. CASE MakeGroup(n)
  BY <1>1, <1>8 DEF MakeGroup
<1>9. CASE Start(n) \/ CheckDisks(n) \/ ScanDisk(n) \/ ScanEnds(n) \/ MatchBootDisk(n)
           \/ PowerCycle(n)
  BY <1>9 DEF Start, CheckDisks, ScanDisk, ScanEnds, MatchBootDisk, PowerCycle
<1> QED
  BY <1>4, <1>5, <1>6, <1>7, <1>8, <1>9 DEF NodeStep
-----------------------------------------------------------------------------
(* The properties.                                                         *)

(* Every variable keeps its type, and the array of disks to zero is used   *)
(* up before the boot disk is looked for (bootloader.erb).                 *)
THEOREM TypeCorrect == Spec => []TypeOK
<1>1. IInv => TypeOK
  BY DEF IInv
<1> QED
  BY <1>1, Invariance, PTL

(* No installation erases a disk of another node, a fencing disk or a disk *)
(* it is to keep, if its items agree on the uuid: the partition snippet    *)
(* clears, and the bootloader snippet takes, only other disks, and neither *)
(* depends on how far an installation got before (_get_disks_to_clear,     *)
(* _generate_bootloader_fragments).                                        *)
THEOREM ForeignKept == Spec => []ForeignDisksKept
<1>1. IInv => ForeignDisksKept
  BY DEF IInv, ForeignSpared, ForeignDisksKept
<1> QED
  BY <1>1, Invariance, PTL

(* An installation that misses a disk of the node's own does not get past  *)
(* %pre: such a disk is alone in the list of uuids and so is looked for    *)
(* (_get_disk_list_item_config).  For rhel7 that is before it has erased   *)
(* any disk, for rhel6 before it has erased the boot disk                  *)
(* (kickstart.erb, rhel6/kickstart.erb).                                   *)
THEOREM MissingStops == Spec => []MissingDiskStops
<1>1. IInv => MissingDiskStops
  BY DEF IInv
<1> QED
  BY <1>1, Invariance, PTL

(* When %pre has ended all disks of the node's own are erased, provided no *)
(* serial number is a part of another: what the array has when the scan    *)
(* ends is erased before the boot disk is looked for (bootloader.erb).     *)
THEOREM OwnErased == ASSUME PartOf = {} PROVE Spec => []OwnDisksErased
<1>1. Init => ScannedInTurn /\ OwnZeroed
  BY DEF Init, ScannedInTurn, OwnZeroed, PastScan
<1>2. IInv /\ ScannedInTurn /\ OwnZeroed /\ [Next]_vars => (ScannedInTurn /\ OwnZeroed)'
  <2>1. ASSUME IInv, ScannedInTurn, OwnZeroed, NEW n \in Nodes, NodeStep(n)
        PROVE  ScannedInTurn' /\ OwnZeroed'
    BY <2>1, OwnZeroedStep
  <2>2. ASSUME ScannedInTurn, OwnZeroed, UNCHANGED vars
        PROVE  ScannedInTurn' /\ OwnZeroed'
    <3>1. UNCHANGED <<site, stage, scanned, todd, erased>>
      BY <2>2 DEF vars
    <3>2. \A n \in Nodes : OwnAttached(n)' = OwnAttached(n) /\ Attached(n)' = Attached(n)
                          /\ Cleared(n)' = Cleared(n)
                          /\ BootloaderFirst(n)' = BootloaderFirst(n)
      BY <3>1, SameSite DEF OwnAttached
    <3> QED
      BY <2>2, <3>1, <3>2 DEF ScannedInTurn, OwnZeroed, PastScan, ErasedOrCleared, HasUuid
  <2> QED
    BY <2>1, <2>2 DEF Next, NodeStep
<1>3. IInv /\ OwnZeroed => OwnDisksErased
  BY DEF IInv, TypeOK, OwnZeroed, PastScan, OwnDisksErased, OwnAttached, ErasedOrCleared
<1> QED
  BY <1>1, <1>2, <1>3, Invariance, PTL DEF Spec

(* The groups on disks that all reinstallations keep back survive every    *)
(* step, unless their names contain vg_root: the others are not removed    *)
(* then, the disks are not cleared and not in the array                    *)
(* (_get_disks_to_clear, bootloader.erb).                                  *)
THEOREM DataKept == Spec => ReinstallKeepsData
<1> DEFINE Keep == \A d \in Disks : HeldByAll(d) => vg'[d] = vg[d]
<1>1. IInv /\ [Next]_vars => [Keep]_vars
  BY StepKeepsData DEF Next, NodeStep
<1>2. Keep <=> \A d \in Disks :
                  /\ vg[d] \in Groups \ Matching("vg_root")
                  /\ AgreedOn(d)
                  /\ \A n \in Nodes : d \in Attached(n) => d \in HeldBack(n)
                  => vg'[d] = vg[d]
  BY DEF HeldByAll
<1> QED
  BY <1>1, <1>2, Invariance, PTL DEF Spec, ReinstallKeepsData
=============================================================================
