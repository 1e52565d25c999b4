--------------------------- MODULE PlanBuildProofs ---------------------------
(***************************************************************************)
(* The safety properties of PlanBuild hold for any nodes, profiles,        *)
(* deployments and bounds.                                                 *)
(*                                                                         *)
(* The argument: the model is not edited while a plan runs, so the plan    *)
(* stays the one create_configuration would make now (PlanIsCurrent), and  *)
(* what a task has done is as the model has it until the plan ends         *)
(* (Effects).  Across plans, only what is Applied is left alone: a profile *)
(* that is Applied is in Cobbler as it was applied, unless it was edited   *)
(* between its import and that (Served); the service and the network are   *)
(* not Applied before Cobbler is configured (Settings).  A node is         *)
(* registered once in a plan, before its waits, so one that has been       *)
(* waited for stays deregistered (Waits).                                  *)
(***************************************************************************)
EXTENDS PlanBuild, FiniteSetTheorems, TLAPS

ItemStates ==
    /\ \A p \in Profiles : itemState[p] # "Applying"
    /\ itemState["service"] \in {"Initial", "Applying", "Applied"}
    /\ itemState["network"] # "absent"
    /\ \A n \in Nodes : itemState[n] # "absent" => itemState[site.profile[n]] # "absent"

VersionBounds ==
    \A i \in ModelItems : version[i] \in 1 .. edits + 1 /\ applied[i] \in 0 .. edits + 1

PlanIsCurrent == plan # {} => plan = CreateConfiguration

ServedProfile(p) ==
    /\ p \in profiles => distro[p] # 0
    /\ itemState[p] \in {"Applied", "Updated"} => p \in profiles /\ applied[p] # 0
    /\ itemState[p] = "Updated" /\ plan # {} => version[p] = applied[p]
    /\ distro[p] # 0 => itemState[p] # "absent"
    /\ distro[p] # 0 /\ p \notin unseen =>
          /\ itemState[p] = "Initial" => distro[p] = version[p]
          /\ itemState[p] = "Applied" => distro[p] = version[p] /\ applied[p] = version[p]
          /\ itemState[p] = "Updated" => distro[p] = applied[p]

Served == \A p \in Profiles : ServedProfile(p)

Effects ==
    /\ \A p \in Profiles : <<"import", p>> \in done => distro[p] # 0
    /\ \A p \in Profiles : <<"profile", p>> \in done => p \in profiles
    /\ \A n \in Nodes : <<"register", n>> \in done => site.profile[n] \in profiles
    /\ \A f \in Files, n \in Nodes : <<f, n>> \in done => file[f][n] = version[n]
    /\ <<"configure", "service">> \in done => dhcp = version["network"]

Settings ==
    /\ dhcp = 0 => itemState["service"] \in NewStates /\ profiles = {}
    /\ ~site.own /\ dhcp # version["network"] => itemState["network"] \in NewStates

\* What InstalledFromModel says of a node.
Current(n) ==
    /\ \A f \in {"ks", "udev"} : used[n][f] = version[n]
    /\ n \in site.disks =>
          \A f \in {"bootloader", "partition"} : used[n][f] = version[n]
    /\ ~site.own => used[n]["dhcp"] = version["network"]
    /\ site.profile[n] \notin unseen => used[n]["distro"] = version[site.profile[n]]

Installs ==
    \A n \in Nodes :
        /\ <<"register", n>> \in done /\ used[n] # Unused /\ ~site.early => Current(n)
        /\ <<"pxe", n>> \in done => <<"register", n>> \in done /\ used[n] # Unused
        /\ <<"register", n>> \in done /\ OfKind("import") = {} =>
              /\ <<"ks", n>> \in done
              /\ used[n] # Unused => used[n]["ks"] = version[n]

IInv ==
    /\ TypeOK /\ ItemStates /\ VersionBounds /\ PlanIsCurrent
    /\ Served /\ Effects /\ Settings /\ Installs
-----------------------------------------------------------------------------
(* The tasks a plan has, kind by kind.                                     *)

LEMMA Members ==
    ASSUME NEW i
    PROVE  /\ <<"ks", i>> \in CreateConfiguration <=> i \in NewNodeSystems
           /\ <<"udev", i>> \in CreateConfiguration <=> i \in NewNodeSystems
           /\ <<"bootloader", i>> \in CreateConfiguration <=>
                 i \in NewNodeSystems \intersect site.disks
           /\ <<"partition", i>> \in CreateConfiguration <=>
                 i \in NewNodeSystems \intersect site.disks
           /\ <<"import", i>> \in CreateConfiguration <=> i \in InitialProfiles
           /\ <<"profile", i>> \in CreateConfiguration <=> i \in InitialProfiles
           /\ <<"register", i>> \in CreateConfiguration <=> i \in NewNodeSystems
           /\ <<"pxe", i>> \in CreateConfiguration <=> i \in NewNodeSystems
           /\ <<"node", i>> \in CreateConfiguration <=> i \in NewNodeSystems
           /\ <<"configure", i>> \in CreateConfiguration <=>
                 <<"configure", i>> \in ConfigureTasks
BY DEF CreateConfiguration, UdevTasks, PartitionTasks, KickstartTasks, BootloaderTasks,
       ConfigureTasks, RecordTasks, WaitTasks, For

LEMMA ConfigureMembers ==
    ASSUME itemState["service"] \in NewStates \/ itemState["network"] \in NewStates
    PROVE  <<"configure", "service">> \in CreateConfiguration
BY Members DEF ConfigureTasks, NewMsNetworkStatus, For

LEMMA TaskTypes ==
    CreateConfiguration \subseteq Kinds \X ModelItems
BY DEF CreateConfiguration, UdevTasks, PartitionTasks, KickstartTasks, BootloaderTasks,
       ConfigureTasks, RecordTasks, WaitTasks, For, Kinds, Files, ModelItems, Others,
       NewNodeSystems, Deployed, InitialProfiles

LEMMA SameConfiguration ==
    ASSUME UNCHANGED <<site, itemState>>
    PROVE  CreateConfiguration' = CreateConfiguration
BY DEF CreateConfiguration, UdevTasks, PartitionTasks, KickstartTasks, BootloaderTasks,
       ConfigureTasks, RecordTasks, WaitTasks, For, NewNodeSystems, Deployed,
       InitialProfiles, NewMsNetworkStatus, ReconfigureCobbler

(* A node's registration waits for its kickstart in a plan that imports    *)
(* no profile: there are then as many registrations as kickstarts.         *)
LEMMA InStepWithoutImports ==
    ASSUME plan = CreateConfiguration, OfKind("import") = {}
    PROVE  InStep
<1> DEFINE KS == {"ks"} \X NewNodeSystems
           RG == {"register"} \X NewNodeSystems
<1>1. InitialProfiles = {}
  <2> SUFFICES ASSUME NEW p \in InitialProfiles PROVE FALSE
    OBVIOUS
  <2>1. <<"import", p>> \in plan /\ <<"import", p>>[1] = "import"
    BY Members
  <2> QED
    BY <2>1 DEF OfKind
<1>2. OfKind("profile") = {} /\ OfKind("register") = RG /\ OfKind("ks") = KS
  BY <1>1 DEF OfKind, CreateConfiguration, UdevTasks, PartitionTasks, KickstartTasks,
       BootloaderTasks, ConfigureTasks, RecordTasks, WaitTasks, For
<1>3. IsFiniteSet(NewNodeSystems)
  BY PlanNodesAssumption, FS_Subset DEF NewNodeSystems, Deployed
<1>4. IsFiniteSet({"ks"}) /\ IsFiniteSet({"register"})
      /\ Cardinality({"ks"}) = 1 /\ Cardinality({"register"}) = 1
  BY FS_Singleton
<1>5. Cardinality(KS) = Cardinality(RG)
  BY <1>3, <1>4, FS_Product
<1> QED
  BY <1>2, <1>5 DEF InStep
-----------------------------------------------------------------------------
(* The shape of a step.                                                    *)

\* A step that neither starts nor ends a plan nor edits the model.
Inside == RunTask \/ (\E t \in plan : Fail(t)) \/ (\E n \in Nodes : Boot(n))

LEMMA InsideKeepsModel ==
    ASSUME Inside
    PROVE  UNCHANGED <<site, itemState, version, applied, unseen, edits, plan>>
BY DEF Inside, RunTask, Configure, Import, AddProfile, WriteConfig, OpenSnippet,
       WriteSnippet, Register, SeesPxe, Deregister, Succeed, Fail, Boot, modelVars

LEMMA Steps ==
    ASSUME Next
    PROVE  \/ StartPlan \/ EndPlan \/ Inside
           \/ \E i \in ModelItems : Edit(i)
           \/ \E p \in Profiles : RevertProfile(p)
BY DEF Next, Inside

LEMMA TaskSucceeds ==
    ASSUME TypeOK, NEW k, NEW i, Succeed(<<k, i>>)
    PROVE  <<k, i>> \in plan \ done /\ done' = done \union {<<k, i>>}
BY DEF TypeOK, Succeed, Running, Ready

(* A file is written for one node and every other task is left as it was.  *)
LEMMA TypeInside ==
    ASSUME TypeOK, VersionBounds, Inside
    PROVE  TypeOK'
<1> USE DEF TypeOK
<1>1. UNCHANGED <<site, itemState, version, applied, unseen, edits, plan>>
  BY InsideKeepsModel
<1>2. ASSUME NEW k, NEW i, Succeed(<<k, i>>)
      PROVE  done' \subseteq plan /\ UNCHANGED <<broken, plans, faults>>
  <2>1. done' \subseteq plan
    BY <1>2, TaskSucceeds
  <2> QED
    BY <1>2, <2>1 DEF Succeed
<1>3. ASSUME NEW k, NEW i, Succeed(<<k, i>>), writing' = writing, k # "partition"
      PROVE  writing' \subseteq {n \in Nodes : <<"partition", n>> \in plan' \ done'}
  BY <1>1, <1>3, TaskSucceeds
<1>4. \A i \in ModelItems : version[i] \in Versions
  OBVIOUS
<1>5. "service" \in ModelItems /\ "network" \in ModelItems /\ Nodes \subseteq ModelItems
      /\ Profiles \subseteq ModelItems
  BY DEF ModelItems, Others
<1>6. CASE Configure
  <2>1. dhcp' \in Versions
    BY <1>5, <1>6 DEF Configure
  <2> QED
    BY <1>1, <1>2, <1>3, <1>6, <2>1 DEF Configure
<1>7. ASSUME NEW p \in Profiles, Import(p)
      PROVE  TypeOK'
  <2>1. distro' \in [Profiles -> Versions]
    BY <1>5, <1>7 DEF Import
  <2> QED
    BY <1>1, <1>2, <1>3, <1>7, <2>1 DEF Import
<1>8. ASSUME NEW p \in Profiles, AddProfile(p)
      PROVE  TypeOK'
  BY <1>1, <1>2, <1>3, <1>8 DEF AddProfile
<1>9. ASSUME NEW f \in Files \ {"partition"}, NEW n \in Nodes, WriteConfig(f, n)
      PROVE  TypeOK'
  <2>1. file' \in [Files -> [Nodes -> Versions]]
    BY <1>5, <1>9 DEF WriteConfig
  <2> QED
    BY <1>1, <1>2, <1>3, <1>9, <2>1 DEF WriteConfig
<1>10. ASSUME NEW n \in Nodes, OpenSnippet(n)
       PROVE  TypeOK'
  <2>1. file' \in [Files -> [Nodes -> Versions]]
    BY <1>10, PlanBoundsAssumption DEF OpenSnippet, Versions, Files
  <2> QED
    BY <1>1, <1>10, <2>1 DEF OpenSnippet, Ready
<1>11. ASSUME NEW n \in Nodes, WriteSnippet(n)
       PROVE  TypeOK'
  <2>1. file' \in [Files -> [Nodes -> Versions]]
    BY <1>5, <1>11 DEF WriteSnippet, Files
  <2>2. writing' \subseteq {m \in Nodes : <<"partition", m>> \in plan' \ done'}
    BY <1>1, <1>11, TaskSucceeds DEF WriteSnippet
  <2> QED
    BY <1>1, <1>2, <1>11, <2>1, <2>2 DEF WriteSnippet
<1>12. Unused \in [DOMAIN Unused -> Versions]
  BY PlanBoundsAssumption DEF Unused, Versions
<1>13. ASSUME NEW n \in Nodes, Register(n)
       PROVE  TypeOK'
  <2>1. used' \in [Nodes -> [DOMAIN Unused -> Versions]]
    BY <1>12, <1>13 DEF Register
  <2> QED
    BY <1>1, <1>2, <1>3, <1>13, <2>1 DEF Register
<1>14. ASSUME NEW n \in Nodes, SeesPxe(n)
       PROVE  TypeOK'
  BY <1>1, <1>2, <1>3, <1>14 DEF SeesPxe, serverVars
<1>15. ASSUME NEW n \in Nodes, Deregister(n)
       PROVE  TypeOK'
  BY <1>1, <1>2, <1>3, <1>15 DEF Deregister
<1>16. ASSUME NEW n \in Nodes, Boot(n)
       PROVE  TypeOK'
  <2>1. site.profile[n] \in Profiles
    BY PlanSitesAssumption DEF SiteRecords
  <2>2. [f \in DOMAIN Unused |-> CASE f \in Files -> file[f][n]
                                   [] f = "dhcp" -> dhcp
                                   [] OTHER -> distro[site.profile[n]]]
        \in [DOMAIN Unused -> Versions]
    BY <2>1
  <2>3. used' \in [Nodes -> [DOMAIN Unused -> Versions]]
    BY <1>16, <2>2 DEF Boot
  <2> QED
    BY <1>1, <1>16, <2>3 DEF Boot
<1>17. ASSUME NEW t \in plan, Fail(t)
       PROVE  TypeOK'
  <2>1. faults' \in 0 .. MaxFaults
    BY <1>17, PlanBoundsAssumption DEF Fail
  <2> QED
    BY <1>1, <1>17, <2>1 DEF Fail
<1> QED
  BY <1>6, <1>7, <1>8, <1>9, <1>10, <1>11, <1>13, <1>14, <1>15, <1>16, <1>17
  DEF Inside, RunTask

(* What a task has done is as the model has it, and stays so.              *)
LEMMA EffectsInside ==
    ASSUME IInv, Inside
    PROVE  Effects'
<1> USE DEF IInv
<1>1. UNCHANGED <<site, itemState, version, applied, unseen, edits, plan>>
  BY InsideKeepsModel
<1>2. CASE Configure
  BY <1>1, <1>2, TaskSucceeds DEF Configure, Effects, Files
<1>3. ASSUME NEW p \in Profiles, Import(p)
      PROVE  Effects'
  <2>1. version[p] # 0
    BY DEF VersionBounds, ModelItems
  <2>2. \A q \in Profiles : distro'[q] = 0 => distro[q] = 0 /\ q # p
    BY <1>3, <2>1 DEF Import, TypeOK
  <2> QED
    BY <1>1, <1>3, <2>2, TaskSucceeds DEF Import, Effects, Files
<1>4. ASSUME NEW p \in Profiles, AddProfile(p)
      PROVE  Effects'
  BY <1>1, <1>4, TaskSucceeds DEF AddProfile, Effects, Files
<1>5. ASSUME NEW f \in Files, NEW n \in Nodes, Succeed(<<f, n>>),
             file' = [file EXCEPT ![f][n] = version[n]],
             UNCHANGED <<dhcp, distro, profiles>>
      PROVE  Effects'
  <2>1. \A g \in Files, m \in Nodes :
           file'[g][m] = IF g = f /\ m = n THEN version[n] ELSE file[g][m]
    BY <1>5 DEF TypeOK
  <2> QED
    BY <1>1, <1>5, <2>1, TaskSucceeds DEF Effects, Files
<1>6. ASSUME NEW n \in Nodes, OpenSnippet(n)
      PROVE  Effects'
  <2>1. \A g \in Files, m \in Nodes :
           file'[g][m] = IF g = "partition" /\ m = n THEN 0 ELSE file[g][m]
    BY <1>6 DEF TypeOK, OpenSnippet
  <2>2. <<"partition", n>> \notin done
    BY <1>6 DEF OpenSnippet, Ready
  <2> QED
    BY <1>1, <1>6, <2>1, <2>2 DEF OpenSnippet, Effects
<1>7. ASSUME NEW n \in Nodes, Register(n)
      PROVE  Effects'
  BY <1>1, <1>7, TaskSucceeds DEF Register, Effects, Files
<1>8. ASSUME NEW n \in Nodes, SeesPxe(n) \/ Deregister(n)
      PROVE  Effects'
  BY <1>1, <1>8, TaskSucceeds DEF SeesPxe, Deregister, serverVars, Effects, Files
<1>9. ASSUME NEW n \in Nodes, Boot(n)
      PROVE  Effects'
  BY <1>1, <1>9 DEF Boot, Effects
<1>10. ASSUME NEW t \in plan, Fail(t)
       PROVE  Effects'
  BY <1>1, <1>10 DEF Fail, Effects
<1>11. "partition" \in Files
  BY DEF Files
<1> QED
  BY <1>2, <1>3, <1>4, <1>5, <1>6, <1>7, <1>8, <1>9, <1>10, <1>11
  DEF Inside, RunTask, WriteConfig, WriteSnippet

(* A distro is imported once, for a profile that is Initial, and as the    *)
(* model has it; a profile is made from a distro that is there.            *)
LEMMA ServedInside ==
    ASSUME IInv, Inside
    PROVE  Served'
<1> USE DEF IInv
<1>1. UNCHANGED <<site, itemState, version, applied, unseen, edits, plan>>
  BY InsideKeepsModel
<1>2. CASE UNCHANGED <<distro, profiles>>
  BY <1>1, <1>2 DEF Served, ServedProfile
<1>3. ASSUME NEW p \in Profiles, <<"import", p>> \in plan \/ <<"profile", p>> \in plan
      PROVE  itemState[p] = "Initial" /\ <<"import", p>> \in plan
  BY <1>3, Members DEF PlanIsCurrent, InitialProfiles
<1>4. ASSUME NEW p \in Profiles, Import(p)
      PROVE  Served'
  <2>1. itemState[p] = "Initial"
    BY <1>3, <1>4, TaskSucceeds DEF Import
  <2>2. version[p] # 0
    BY DEF VersionBounds, ModelItems
  <2>3. \A q \in Profiles :
           distro'[q] = IF q = p /\ distro[p] = 0 THEN version[p] ELSE distro[q]
    BY <1>4 DEF Import, TypeOK
  <2> QED
    BY <1>1, <1>4, <2>1, <2>2, <2>3 DEF Import, Served, ServedProfile
<1>5. ASSUME NEW p \in Profiles, AddProfile(p)
      PROVE  Served'
  <2>1. <<"import", p>> \in plan
    BY <1>3, <1>5, TaskSucceeds DEF AddProfile
  <2>2. Ready(<<"profile", p>>)
    BY <1>5 DEF AddProfile, Succeed, Running
  <2>3. <<"import", p>> \in done
    BY <2>1, <2>2 DEF Ready, Requires, RegisterRequires, NodeRequires, For
  <2> QED
    BY <1>1, <1>5, <2>3 DEF AddProfile, Effects, Served, ServedProfile
<1> QED
  BY <1>2, <1>4, <1>5 DEF Inside, RunTask, Configure, WriteConfig, OpenSnippet,
     WriteSnippet, Register, SeesPxe, Deregister, Fail, Boot, serverVars

(* Once Cobbler is configured it stays so, and no profile comes before.    *)
LEMMA SettingsInside ==
    ASSUME IInv, Inside
    PROVE  Settings'
<1> USE DEF IInv
<1>1. UNCHANGED <<site, itemState, version, applied, unseen, edits, plan>>
  BY InsideKeepsModel
<1>2. CASE UNCHANGED <<dhcp, profiles>>
  BY <1>1, <1>2 DEF Settings
<1>3. CASE Configure
  <2>1. version["network"] # 0
    BY DEF VersionBounds, ModelItems, Others
  <2> QED
    BY <1>1, <1>3, <2>1 DEF Configure, Settings
<1>4. ASSUME NEW p \in Profiles, AddProfile(p)
      PROVE  Settings'
  <2>1. Ready(<<"profile", p>>)
    BY <1>4 DEF AddProfile, Succeed, Running
  <2>2. dhcp # 0
    BY <2>1 DEF Ready, PuppetKinds
  <2> QED
    BY <1>1, <1>4, <2>2 DEF AddProfile, Settings
<1> QED
  BY <1>2, <1>3, <1>4 DEF Inside, RunTask, Import, WriteConfig, OpenSnippet,
     WriteSnippet, Register, SeesPxe, Deregister, Fail, Boot, serverVars

\* A node of the plan that is there has its profile.
LEMMA PlannedNode ==
    ASSUME IInv, plan # {}, NEW n \in NewNodeSystems
    PROVE  /\ site.profile[n] \in Profiles
           /\ itemState[site.profile[n]] \in {"Initial", "Updated", "Applied"}
<1>1. site.profile[n] \in Profiles
  BY PlanSitesAssumption DEF IInv, TypeOK, SiteRecords, NewNodeSystems, Deployed
<1> QED
  BY <1>1 DEF IInv, TypeOK, ItemStates, States, NewStates, NewNodeSystems, Deployed,
              ModelItems

(* A machine that boots when the other tasks of its cobbler-service are    *)
(* done finds everything as the model has it.                              *)
LEMMA BootIsCurrent ==
    ASSUME IInv, NEW n \in Nodes, Ready(<<"pxe", n>>), Boot(n)
    PROVE  Current(n)'
<1> USE DEF IInv
<1> DEFINE p == site.profile[n]
<1>1. UNCHANGED <<site, version, unseen>>
  BY DEF Boot, modelVars
<1>2. ServiceTasks \subseteq done
  BY DEF Ready, ItemTasks
<1>3. plan = CreateConfiguration /\ plan # {} /\ n \in NewNodeSystems
  BY Members DEF Ready, PlanIsCurrent
<1>4. ASSUME NEW k, NEW i, <<k, i>> \in CreateConfiguration, k \notin {"pxe", "node"}
      PROVE  <<k, i>> \in done
  BY <1>2, <1>3, <1>4 DEF ServiceTasks
<1>5. /\ \A f \in Files : used'[n][f] = file[f][n]
      /\ used'[n]["dhcp"] = dhcp /\ used'[n]["distro"] = distro[p]
  BY DEF Boot, Unused, Files, TypeOK
<1>6. \A f \in {"ks", "udev"} : file[f][n] = version[n]
  BY <1>3, <1>4, Members DEF Effects, Files
<1>7. n \in site.disks => \A f \in {"bootloader", "partition"} : file[f][n] = version[n]
  BY <1>3, <1>4, Members DEF Effects, Files
<1>8. ~site.own => dhcp = version["network"]
  <2>1. CASE itemState["network"] \in NewStates
    BY <1>4, <2>1, ConfigureMembers DEF Effects
  <2> QED
    BY <2>1 DEF Settings
<1>9. p \notin unseen => distro[p] = version[p]
  <2>1. CASE itemState[p] = "Initial"
    BY <1>3, <1>4, <2>1, PlannedNode, Members DEF InitialProfiles, Effects, Served,
       ServedProfile
  <2> QED
    BY <1>3, <2>1, PlannedNode DEF Served, ServedProfile
<1> QED
  BY <1>1, <1>5, <1>6, <1>7, <1>8, <1>9 DEF Current, Files

(* What a node was installed from since it was registered by this plan.    *)
LEMMA InstallsInside ==
    ASSUME IInv, Inside
    PROVE  Installs'
<1> USE DEF IInv
<1>1. UNCHANGED <<site, itemState, version, applied, unseen, edits, plan>>
  BY InsideKeepsModel
<1>2. /\ OfKind("import")' = OfKind("import")
      /\ \A n \in Nodes : used'[n] = used[n] => Current(n)' = Current(n)
  BY <1>1 DEF OfKind, Current
<1>3. ASSUME UNCHANGED used, done \subseteq done',
             \A n \in Nodes : <<"register", n>> \in done' => <<"register", n>> \in done,
             \A n \in Nodes : <<"pxe", n>> \in done' => <<"pxe", n>> \in done
      PROVE  Installs'
  BY <1>1, <1>2, <1>3 DEF Installs
<1>4. CASE Configure
  BY <1>3, <1>4, TaskSucceeds DEF Configure
<1>5. ASSUME NEW p \in Profiles, Import(p) \/ AddProfile(p)
      PROVE  Installs'
  BY <1>3, <1>5, TaskSucceeds DEF Import, AddProfile
<1>6. ASSUME NEW f \in Files, NEW n \in Nodes, WriteConfig(f, n)
      PROVE  Installs'
  <2>1. f # "register" /\ f # "pxe"
    BY DEF Files
  <2> QED
    BY <1>3, <1>6, <2>1, TaskSucceeds DEF WriteConfig
<1>7. ASSUME NEW n \in Nodes, OpenSnippet(n)
      PROVE  Installs'
  BY <1>3, <1>7 DEF OpenSnippet
<1>8. ASSUME NEW n \in Nodes, WriteSnippet(n) \/ Deregister(n)
      PROVE  Installs'
  BY <1>3, <1>8, TaskSucceeds DEF WriteSnippet, Deregister
<1>9. ASSUME NEW n \in Nodes, Register(n)
      PROVE  Installs'
  <2>1. <<"register", n>> \in plan \ done /\ done' = done \union {<<"register", n>>}
    BY <1>9, TaskSucceeds DEF Register
  <2>2. Ready(<<"register", n>>) /\ plan = CreateConfiguration
    BY <1>9, <2>1 DEF Register, Succeed, Running, PlanIsCurrent
  <2>3. OfKind("import") = {} => <<"ks", n>> \in done
    <3> SUFFICES ASSUME OfKind("import") = {}
                 PROVE  <<"ks", n>> \in done
      OBVIOUS
    <3>1. InStep
      BY <2>2, InStepWithoutImports
    <3>2. <<"ks", n>> \in plan
      BY <2>1, <2>2, Members
    <3> QED
      BY <2>2, <3>1, <3>2 DEF Ready, Requires, RegisterRequires, NodeRequires, For
  <2>4. used'[n] = Unused /\ \A m \in Nodes \ {n} : used'[m] = used[m]
    BY <1>9 DEF Register, TypeOK
  <2>5. <<"pxe", n>> \notin done
    BY <2>1 DEF Installs
  <2> QED
    BY <1>1, <1>2, <2>1, <2>3, <2>4, <2>5 DEF Installs
<1>10. ASSUME NEW n \in Nodes, SeesPxe(n)
       PROVE  Installs'
  <2>1. <<"pxe", n>> \in plan \ done /\ done' = done \union {<<"pxe", n>>}
    BY <1>10, TaskSucceeds DEF SeesPxe
  <2>2. Ready(<<"pxe", n>>) /\ plan = CreateConfiguration /\ used[n] # Unused
    BY <1>10, <2>1 DEF SeesPxe, Succeed, Running, PlanIsCurrent
  <2>3. <<"register", n>> \in plan
    BY <2>1, <2>2, Members
  <2>4. <<"register", n>> \in done
    BY <2>2, <2>3 DEF Ready, ItemTasks, ServiceTasks
  <2>5. used' = used
    BY <1>10 DEF SeesPxe, serverVars
  <2> QED
    BY <1>1, <1>2, <2>1, <2>2, <2>4, <2>5 DEF Installs
<1>11. ASSUME NEW n \in Nodes, Boot(n)
       PROVE  Installs'
  <2>1. /\ used[n] = Unused /\ done' = done
        /\ used'[n]["ks"] = file["ks"][n]
        /\ \A m \in Nodes \ {n} : used'[m] = used[m]
    BY <1>11 DEF Boot, TypeOK, Unused, Files
  <2>2. ~site.early => Current(n)'
    BY <1>11, BootIsCurrent DEF Boot
  <2>3. <<"ks", n>> \in done => used'[n]["ks"] = version[n]
    BY <2>1 DEF Effects, Files
  <2> QED
    BY <1>1, <1>2, <2>1, <2>2, <2>3 DEF Installs
<1>12. ASSUME NEW t \in plan, Fail(t)
       PROVE  Installs'
  BY <1>3, <1>12 DEF Fail
<1> QED
  BY <1>4, <1>5, <1>6, <1>7, <1>8, <1>9, <1>10, <1>11, <1>12 DEF Inside, RunTask

LEMMA InsideKeepsIInv ==
    ASSUME IInv, Inside
    PROVE  IInv'
<1>1. UNCHANGED <<site, itemState, version, applied, unseen, edits, plan>>
  BY InsideKeepsModel
<1>2. ItemStates' /\ VersionBounds'
  BY <1>1 DEF IInv, ItemStates, VersionBounds
<1>3. PlanIsCurrent'
  BY <1>1, SameConfiguration DEF IInv, PlanIsCurrent
<1> QED
  BY <1>2, <1>3, TypeInside, EffectsInside, ServedInside, SettingsInside, InstallsInside
  DEF IInv
-----------------------------------------------------------------------------
(* Between two plans.                                                      *)

\* Nothing is done and nothing is open when no plan runs.
LEMMA Idle ==
    ASSUME TypeOK, plan = {}
    PROVE  done = {} /\ writing = {}
BY DEF TypeOK

LEMMA StartKeepsIInv ==
    ASSUME IInv, StartPlan
    PROVE  IInv'
<1> USE DEF IInv
<1>1. /\ UNCHANGED <<site, itemState, version, applied, unseen, edits, done, broken,
                     serverVars, faults>>
      /\ plan = {} /\ plan' = CreateConfiguration
  BY DEF StartPlan, modelVars
<1>2. done = {} /\ writing = {}
  BY <1>1, Idle
<1>3. CreateConfiguration \subseteq Kinds \X ModelItems
  BY TaskTypes
<1>4. plans' \in 0 .. MaxPlans
  BY PlanBoundsAssumption DEF StartPlan, TypeOK
<1>5. TypeOK'
  BY <1>1, <1>2, <1>3, <1>4 DEF TypeOK, serverVars
<1>6. ItemStates' /\ VersionBounds' /\ Settings'
  BY <1>1 DEF ItemStates, VersionBounds, Settings, serverVars
<1>7. PlanIsCurrent'
  BY <1>1, SameConfiguration DEF PlanIsCurrent
<1>8. \A p \in Profiles : itemState[p] = "Updated" => version[p] = applied[p]
  BY DEF StartPlan, Validate, ProfileErrors
<1>9. Served'
  BY <1>1, <1>8 DEF Served, ServedProfile, serverVars
<1>10. Effects' /\ Installs'
  BY <1>1, <1>2 DEF Effects, Installs
<1> QED
  BY <1>5, <1>6, <1>7, <1>9, <1>10

(* What is Applied at the end of a plan, failed or not, has been done.     *)
LEMMA AppliedIsDone ==
    ASSUME IInv, plan # {}, done = plan \/ broken
    PROVE  /\ \A p \in Profiles \intersect Appliable : itemState[p] = "Initial" =>
                 <<"import", p>> \in done /\ <<"profile", p>> \in done
           /\ "service" \in Appliable /\ itemState["service"] \in NewStates =>
                 <<"configure", "service">> \in done
           /\ "network" \in Appliable /\ itemState["network"] \in NewStates /\ ~site.own =>
                 <<"configure", "service">> \in done
<1> USE DEF IInv
<1>1. plan = CreateConfiguration
  BY DEF PlanIsCurrent
<1>2. ASSUME NEW p \in Profiles \intersect Appliable, itemState[p] = "Initial"
      PROVE  <<"import", p>> \in done /\ <<"profile", p>> \in done
  <2>1. <<"import", p>> \in plan /\ <<"profile", p>> \in plan
    BY <1>1, <1>2, Members DEF InitialProfiles
  <2>2. p # "network" /\ TasksOf(p) = {}
    BY ModelItemsAssumption DEF TasksOf, Others
  <2>3. done = plan
    BY <2>2 DEF Appliable
  <2> QED
    BY <2>1, <2>3
<1>3. ASSUME "service" \in Appliable, itemState["service"] \in NewStates
      PROVE  <<"configure", "service">> \in done
  <2>1. <<"configure", "service">> \in plan
    BY <1>1, <1>3, ConfigureMembers
  <2>2. TasksOf("service") = ServiceTasks
    BY ModelItemsAssumption DEF TasksOf, Others
  <2>3. <<"configure", "service">> \in ServiceTasks
    BY <2>1 DEF ServiceTasks
  <2>4. done = plan \/ TasksOf("service") \subseteq done
    BY <1>3 DEF Appliable
  <2> QED
    BY <2>1, <2>2, <2>3, <2>4
<1>4. ASSUME "network" \in Appliable, itemState["network"] \in NewStates, ~site.own
      PROVE  <<"configure", "service">> \in done
  <2>1. <<"configure", "service">> \in plan
    BY <1>1, <1>4, ConfigureMembers
  <2>2. TasksOf("network") = {}
    BY ModelItemsAssumption DEF TasksOf, Others
  <2>3. done = plan
    BY <1>4, <2>2 DEF Appliable
  <2> QED
    BY <2>1, <2>3
<1> QED
  BY <1>2, <1>3, <1>4

LEMMA EndKeepsIInv ==
    ASSUME IInv, EndPlan
    PROVE  IInv'
<1> USE DEF IInv
<1>1. PICK S \in SUBSET Appliable :
        /\ itemState' = [i \in ModelItems |->
                           CASE i \in S -> "Applied"
                             [] i \notin S /\ itemState[i] = "Initial"
                                /\ i \in Nodes \union {"service"} -> "Applying"
                             [] OTHER -> itemState[i]]
        /\ applied' = [i \in ModelItems |-> IF i \in S THEN version[i] ELSE applied[i]]
  BY DEF EndPlan
<1>2. /\ UNCHANGED <<site, version, unseen, edits, serverVars, plans, faults>>
      /\ plan # {} /\ writing = {} /\ (broken \/ done = plan)
      /\ plan' = {} /\ done' = {} /\ broken' = FALSE
  BY DEF EndPlan
<1>3. /\ "service" \in ModelItems /\ "network" \in ModelItems
      /\ Nodes \subseteq ModelItems /\ Profiles \subseteq ModelItems
  BY DEF ModelItems, Others
<1>4. \A i \in ModelItems :
         /\ i \in S => itemState'[i] = "Applied" /\ applied'[i] = version[i]
                        /\ itemState[i] # "absent"
         /\ i \notin S => applied'[i] = applied[i]
         /\ i \notin S /\ i \in Nodes \union {"service"} =>
               itemState'[i] = IF itemState[i] = "Initial" THEN "Applying" ELSE itemState[i]
         /\ i \notin S /\ i \notin Nodes \union {"service"} => itemState'[i] = itemState[i]
  BY <1>1 DEF Appliable
<1>5. TypeOK'
  <2>1. itemState' \in [ModelItems -> States]
    BY <1>1 DEF TypeOK, States, NewStates
  <2>2. applied' \in [ModelItems -> Versions]
    BY <1>1 DEF TypeOK
  <2> QED
    BY <1>2, <2>1, <2>2 DEF TypeOK, serverVars
<1>6. /\ \A p \in Profiles : p \notin Nodes \union {"service"}
      /\ "network" \notin Nodes \union {"service"}
  BY ModelItemsAssumption DEF Others
<1>7. \A n \in Nodes : site.profile[n] \in Profiles
  BY PlanSitesAssumption DEF TypeOK, SiteRecords
<1>8. ItemStates'
  BY <1>2, <1>3, <1>4, <1>6, <1>7 DEF ItemStates
<1>9. VersionBounds'
  BY <1>2, <1>4 DEF VersionBounds
<1>10. PlanIsCurrent' /\ Effects' /\ Installs'
  BY <1>2 DEF PlanIsCurrent, Effects, Installs
<1>11. Served'
  <2> SUFFICES ASSUME NEW p \in Profiles
               PROVE  ServedProfile(p)'
    BY DEF Served
  <2>1. ServedProfile(p) /\ itemState[p] # "Applying" /\ version[p] # 0
        /\ itemState[p] \in States
    BY <1>3 DEF Served, ItemStates, VersionBounds, TypeOK
  <2>2. CASE p \notin S
    BY <1>2, <1>3, <1>4, <1>6, <2>1, <2>2 DEF ServedProfile, serverVars
  <2>3. CASE p \in S
    <3>1. itemState[p] = "Initial" => distro[p] # 0 /\ p \in profiles
      BY <1>2, <2>3, AppliedIsDone DEF Effects
    <3>2. p \in profiles /\ distro[p] # 0 /\ (p \notin unseen => distro[p] = version[p])
      BY <1>2, <1>3, <1>4, <2>1, <2>3, <3>1 DEF ServedProfile, States, NewStates
    <3> QED
      BY <1>2, <1>3, <1>4, <2>1, <2>3, <3>2 DEF ServedProfile, serverVars
  <2> QED
    BY <2>2, <2>3
<1>12. Settings'
  <2>1. version["network"] # 0
    BY <1>3 DEF VersionBounds
  <2>2. dhcp = 0 => "service" \notin S
    BY <1>2, <2>1, AppliedIsDone DEF Effects, Settings
  <2>3. ~site.own /\ dhcp # version["network"] => "network" \notin S
    BY <1>2, AppliedIsDone DEF Effects, Settings
  <2> QED
    BY <1>2, <1>3, <1>4, <1>6, <2>2, <2>3 DEF Settings, NewStates, serverVars
<1> QED
  BY <1>5, <1>8, <1>9, <1>10, <1>11, <1>12

LEMMA EditKeepsIInv ==
    ASSUME IInv, NEW i \in ModelItems, Edit(i)
    PROVE  IInv'
<1> USE DEF IInv
<1>1. /\ UNCHANGED <<site, applied, plan, done, broken, serverVars, plans, faults>>
      /\ plan = {} /\ edits < MaxEdits /\ edits' = edits + 1
  BY DEF Edit
<1>2. done = {} /\ writing = {}
  BY <1>1, Idle
<1>3. /\ "service" \in ModelItems /\ "network" \in ModelItems
      /\ Nodes \subseteq ModelItems /\ Profiles \subseteq ModelItems
  BY DEF ModelItems, Others
<1>4. PlanIsCurrent' /\ Effects' /\ Installs'
  BY <1>1, <1>2 DEF PlanIsCurrent, Effects, Installs
<1>5. edits \in Nat /\ edits' \in 0 .. MaxEdits /\ MaxEdits \in Nat
  BY <1>1, PlanBoundsAssumption DEF TypeOK
<1>6. \A n \in Nodes : site.profile[n] \in Profiles
  BY PlanSitesAssumption DEF TypeOK, SiteRecords
<1>7. CASE itemState[i] = "absent"
  <2>1. /\ UNCHANGED <<version, unseen>>
        /\ itemState' = [itemState EXCEPT ![i] = "Initial"]
    BY <1>7 DEF Edit
  <2>2. TypeOK'
    BY <1>1, <1>2, <1>5, <2>1 DEF TypeOK, serverVars, States, NewStates
  <2>3. VersionBounds'
    BY <1>1, <1>5, <2>1 DEF VersionBounds
  <2>4. i # "service" /\ i # "network"
    BY <1>7 DEF ItemStates
  <2>5. \A j \in ModelItems : itemState'[j] = IF j = i THEN "Initial" ELSE itemState[j]
    BY <2>1 DEF TypeOK
  <2>6. ItemStates'
    <3>1. i \in Nodes => itemState[site.profile[i]] # "absent"
      BY <1>7 DEF Edit
    <3> QED
      BY <1>1, <1>3, <1>6, <2>4, <2>5, <3>1 DEF ItemStates
  <2>7. Served'
    BY <1>1, <1>3, <1>7, <2>1, <2>5 DEF Served, ServedProfile, serverVars
  <2>8. Settings'
    BY <1>1, <1>3, <2>1, <2>4, <2>5 DEF Settings, serverVars
  <2> QED
    BY <1>4, <2>2, <2>3, <2>6, <2>7, <2>8
<1>8. CASE itemState[i] # "absent"
  <2>1. /\ i # "service"
        /\ unseen' = unseen \union {p \in Profiles \intersect {i} :
                                     itemState[p] = "Initial" /\ distro[p] # 0}
        /\ version' = [version EXCEPT ![i] = @ + 1]
        /\ itemState' = [itemState EXCEPT ![i] = IF @ = "Applied" THEN "Updated" ELSE @]
    BY <1>8 DEF Edit
  <2>2. \A j \in ModelItems :
           /\ itemState'[j] = IF j = i /\ itemState[j] = "Applied" THEN "Updated"
                              ELSE itemState[j]
           /\ version'[j] = IF j = i THEN version[j] + 1 ELSE version[j]
    BY <2>1 DEF TypeOK
  <2>3. \A j \in ModelItems : version'[j] \in 1 .. edits' + 1
    BY <1>1, <1>5, <2>2 DEF VersionBounds
  <2>4. VersionBounds'
    BY <1>1, <1>5, <2>3 DEF VersionBounds
  <2>5. TypeOK'
    <3>1. version' \in [ModelItems -> Versions]
      BY <1>5, <2>1, <2>3 DEF TypeOK, Versions
    <3>2. itemState' \in [ModelItems -> States]
      BY <2>1 DEF TypeOK, States, NewStates
    <3>3. unseen' \subseteq Profiles
      BY <2>1 DEF TypeOK
    <3> QED
      BY <1>1, <1>2, <1>5, <3>1, <3>2, <3>3 DEF TypeOK, serverVars
  <2>6. ItemStates'
    BY <1>1, <1>3, <1>6, <2>1, <2>2 DEF ItemStates
  <2>7. Served'
    <3> SUFFICES ASSUME NEW p \in Profiles
                 PROVE  ServedProfile(p)'
      BY DEF Served
    <3>1. ServedProfile(p) /\ itemState[p] # "Applying"
      BY DEF Served, ItemStates
    <3>2. p = i /\ itemState[p] = "Initial" /\ distro[p] # 0 => p \in unseen'
      BY <2>1
    <3> QED
      BY <1>1, <1>3, <2>1, <2>2, <3>1, <3>2 DEF ServedProfile, serverVars
  <2>8. Settings'
    BY <1>1, <1>3, <2>1, <2>2 DEF Settings, NewStates, serverVars, ItemStates,
       TypeOK, States
  <2> QED
    BY <1>4, <2>4, <2>5, <2>6, <2>7, <2>8
<1> QED
  BY <1>7, <1>8

LEMMA RevertKeepsIInv ==
    ASSUME IInv, NEW p \in Profiles, RevertProfile(p)
    PROVE  IInv'
<1> USE DEF IInv
<1>1. /\ UNCHANGED <<site, itemState, applied, unseen, edits, plan, done, broken,
                     serverVars, plans, faults>>
      /\ plan = {} /\ itemState[p] = "Updated"
      /\ version' = [version EXCEPT ![p] = applied[p]]
  BY DEF RevertProfile, ProfileErrors
<1>2. p \in ModelItems /\ p # "network" /\ "network" \in ModelItems
  BY ModelItemsAssumption DEF ModelItems, Others
<1>3. done = {}
  BY <1>1, Idle
<1>4. applied[p] # 0
  BY <1>1 DEF Served, ServedProfile
<1>5. \A j \in ModelItems : version'[j] = IF j = p THEN applied[p] ELSE version[j]
  BY <1>1 DEF TypeOK
<1>6. TypeOK'
  <2>1. version' \in [ModelItems -> Versions]
    BY <1>1, <1>2 DEF TypeOK
  <2> QED
    BY <1>1, <2>1 DEF TypeOK, serverVars
<1>7. VersionBounds'
  BY <1>1, <1>2, <1>4, <1>5 DEF VersionBounds
<1>8. ItemStates' /\ Settings'
  BY <1>1, <1>2, <1>5 DEF ItemStates, Settings, serverVars
<1>9. Served'
  BY <1>1, <1>2, <1>5 DEF Served, ServedProfile, serverVars, ModelItems
<1>10. PlanIsCurrent' /\ Effects' /\ Installs'
  BY <1>1, <1>3 DEF PlanIsCurrent, Effects, Installs
<1> QED
  BY <1>6, <1>7, <1>8, <1>9, <1>10

LEMMA StutterKeepsIInv ==
    ASSUME IInv, UNCHANGED vars
    PROVE  IInv'
<1>1. /\ UNCHANGED <<site, itemState, version, applied, unseen, edits, plan, done, writing>>
      /\ UNCHANGED <<broken, file, dhcp, distro, profiles, record, used, plans, faults>>
  BY DEF vars, modelVars, serverVars
<1>2. PlanIsCurrent'
  BY <1>1, SameConfiguration DEF IInv, PlanIsCurrent
<1>3. Installs'
  BY <1>1 DEF IInv, Installs, Current, OfKind
<1> QED
  BY <1>1, <1>2, <1>3 DEF IInv, TypeOK, ItemStates, VersionBounds, Served, ServedProfile,
     Effects, Settings

LEMMA InitImpliesIInv ==
    ASSUME Init
    PROVE  IInv
<1>1. /\ "service" \in ModelItems /\ "network" \in ModelItems
      /\ Nodes \subseteq ModelItems /\ Profiles \subseteq ModelItems
  BY DEF ModelItems, Others
<1>2. /\ itemState \in [ModelItems -> {"Initial", "absent"}]
      /\ \A n \in Nodes : itemState[site.profile[n]] = "absent" => itemState[n] = "absent"
      /\ itemState["service"] = "Initial" /\ itemState["network"] = "Initial"
  BY DEF Init, Others
<1>3. TypeOK
  <2>1. itemState \in [ModelItems -> States]
    BY <1>2 DEF States, NewStates
  <2>2. Unused \in [DOMAIN Unused -> Versions]
    BY PlanBoundsAssumption DEF Unused, Versions
  <2>3. 0 \in Versions /\ 1 \in Versions
    BY PlanBoundsAssumption DEF Versions
  <2>4. /\ site \in Sites /\ plan = {} /\ done = {} /\ broken = FALSE /\ writing = {}
        /\ unseen = {} /\ dhcp = 0 /\ profiles = {} /\ record = {} /\ plans = 0 /\ faults = 0 /\ edits = 0
    BY DEF Init
  <2>5. version \in [ModelItems -> Versions] /\ applied \in [ModelItems -> Versions]
    BY <2>3 DEF Init
  <2>6. file \in [Files -> [Nodes -> Versions]] /\ distro \in [Profiles -> Versions]
    BY <2>3 DEF Init
  <2>7. used \in [Nodes -> [DOMAIN Unused -> Versions]]
    BY <2>2 DEF Init
  <2>8. /\ plan \subseteq Kinds \X ModelItems /\ done \subseteq plan
        /\ writing \subseteq {n \in Nodes : <<"partition", n>> \in plan \ done}
        /\ profiles \subseteq Profiles /\ record \subseteq Nodes /\ unseen \subseteq Profiles
    BY <2>4
  <2>9. /\ plans \in 0 .. MaxPlans /\ faults \in 0 .. MaxFaults /\ edits \in 0 .. MaxEdits
    BY <2>4, PlanBoundsAssumption
  <2>10. broken \in BOOLEAN /\ dhcp \in Versions
    BY <2>3, <2>4
  <2> QED
    BY <2>1, <2>4, <2>5, <2>6, <2>7, <2>8, <2>9, <2>10 DEF TypeOK
<1>4. \A n \in Nodes : site.profile[n] \in Profiles
  BY <1>3, PlanSitesAssumption DEF TypeOK, SiteRecords
<1>5. ItemStates
  BY <1>1, <1>2, <1>4 DEF ItemStates
<1>6. VersionBounds
  BY DEF Init, VersionBounds
<1>7. PlanIsCurrent /\ Effects /\ Installs
  BY DEF Init, PlanIsCurrent, Effects, Installs
<1>8. Served
  BY <1>1, <1>2 DEF Init, Served, ServedProfile
<1>9. Settings
  BY <1>2 DEF Init, Settings, NewStates
<1> QED
  BY <1>3, <1>5, <1>6, <1>7, <1>8, <1>9 DEF IInv

LEMMA NextKeepsIInv ==
    ASSUME IInv, [Next]_vars
    PROVE  IInv'
BY Steps, StartKeepsIInv, EndKeepsIInv, InsideKeepsIInv, EditKeepsIInv, RevertKeepsIInv,
   StutterKeepsIInv

(* IInv holds in every state PlanBuild reaches.                            *)
THEOREM Invariance == Spec => []IInv
<1>1. Init => IInv
  BY InitImpliesIInv
<1>2. IInv /\ [Next]_vars => IInv'
  BY NextKeepsIInv
<1> QED
  BY <1>1, <1>2, PTL DEF Spec
-----------------------------------------------------------------------------
(* The properties.                                                         *)

(* Every variable keeps its type; a snippet is open only while its task    *)
(* runs (OpenSnippet, WriteSnippet, Fail).                                 *)
THEOREM TypeCorrect == Spec => []TypeOK
<1>1. IInv => TypeOK
  BY DEF IInv
<1> QED
  BY <1>1, Invariance, PTL

(* create_configuration does not raise for a model that validate_model     *)
(* accepts: each thing it dereferences is covered by a _validate_* method. *)
THEOREM Buildable == Spec => []AcceptedIsBuildable
<1>1. AcceptedIsBuildable
  <2> SUFFICES ASSUME Validate
               PROVE  ~CreateRaises
    BY DEF AcceptedIsBuildable
  <2>1. SystemErrors = {} /\ DiskBaseErrors = {} /\ ~ServiceErrors /\ LibvirtErrors = {}
    BY DEF Validate
  <2>2. Deployed \intersect site.systemless = {} /\ NewNodeSystems \intersect site.base = {}
    BY <2>1 DEF SystemErrors, DiskBaseErrors, NewNodeSystems
  <2>3. ~(NewNodeSystems # {} /\ site.services = 0)
    BY <2>1 DEF ServiceErrors, NewNodeSystems
  <2>4. NewNodeSystems \intersect site.libvirt \subseteq site.hosted
    BY <2>1 DEF LibvirtErrors
  <2> QED
    BY <2>2, <2>3, <2>4 DEF CreateRaises
<1> QED
  BY <1>1, PTL

(* The plan configures Cobbler unless a plan before has: the service is    *)
(* Applied only when its own tasks have succeeded, and they include        *)
(* cobbler::configure (the condition on _generate_cobbler_configure).      *)
THEOREM ConfigureIsPlanned == Spec => []ConfigureAtHand
<1>1. IInv => ConfigureAtHand
  BY ConfigureMembers DEF IInv, PlanIsCurrent, Settings, ConfigureAtHand
<1> QED
  BY <1>1, Invariance, PTL

(* When a registration is due, Cobbler is configured and has the profile:  *)
(* the plan makes the profile first, or it is Applied and made already     *)
(* (profile_tasks in _generate_cobbler_records).                           *)
THEOREM RegistrationsArePrepared == Spec => []DueMeansPrepared
<1>1. IInv => DueMeansPrepared
  <2> SUFFICES ASSUME IInv, NEW n \in Nodes, Ready(<<"register", n>>)
               PROVE  dhcp # 0 /\ site.profile[n] \in profiles
    BY DEF DueMeansPrepared
  <2> DEFINE p == site.profile[n]
  <2>1. plan = CreateConfiguration /\ plan # {} /\ n \in NewNodeSystems
    BY Members DEF IInv, PlanIsCurrent, Ready
  <2>2. p \in Profiles /\ itemState[p] \in {"Initial", "Updated", "Applied"}
    BY <2>1, PlannedNode
  <2>3. p \in profiles
    <3>1. CASE itemState[p] = "Initial"
      <4>1. <<"profile", p>> \in plan
        BY <2>1, <2>2, <3>1, Members DEF InitialProfiles
      <4>2. <<"profile", p>> \in done
        BY <4>1 DEF Ready, Requires, RegisterRequires, NodeRequires, For
      <4> QED
        BY <2>2, <4>2 DEF IInv, Effects
    <3> QED
      BY <2>2, <3>1 DEF IInv, Served, ServedProfile
  <2> QED
    BY <2>3 DEF IInv, Settings
<1> QED
  BY <1>1, Invariance, PTL

(* For a model that is accepted, and during its plan, Cobbler has a        *)
(* profile's distro as the model has it, or has none: an imported distro   *)
(* is never compared with the model again, so this rests on                *)
(* _validate_os_profile having found no difference.  Not so for a profile  *)
(* edited while it was Initial and imported by a plan that failed, which   *)
(* is not compared (unseen).                                               *)
THEOREM DistrosAreModelled == Spec => []ServedIsModelled
<1>1. IInv => ServedIsModelled
  <2> SUFFICES ASSUME IInv, Validate \/ plan # {},
                      NEW p \in Profiles \ unseen, distro[p] # 0
               PROVE  distro[p] = version[p]
    BY DEF ServedIsModelled
  <2>1. ServedProfile(p) /\ itemState[p] \in {"Initial", "Updated", "Applied"}
    BY DEF IInv, Served, ServedProfile, TypeOK, ItemStates, States, NewStates, ModelItems
  <2>2. itemState[p] = "Updated" => version[p] = applied[p]
    BY <2>1 DEF ServedProfile, Validate, ProfileErrors
  <2> QED
    BY <2>1, <2>2 DEF ServedProfile
<1> QED
  BY <1>1, Invariance, PTL

(* A node that is seen booting is installed from its model as it is now:   *)
(* the wait for it names the cobbler-service, so its machine starts after  *)
(* every file, the settings and its registration (model_items.add).  The   *)
(* distro of an unseen profile and, where another plugin may have applied  *)
(* the network in a plan that failed, the address range are excepted.      *)
THEOREM InstallsAreCurrent == Spec => []InstalledFromModel
<1>1. IInv => InstalledFromModel
  BY DEF IInv, Installs, Current, InstalledFromModel
<1> QED
  BY <1>1, Invariance, PTL

(* Where no profile is imported there is a kickstart task for each         *)
(* register task, so the one requires the other, and a machine that boots  *)
(* at once finds its kickstart (_generate_cobbler_records).                *)
THEOREM KickstartsAreCurrent == Spec => []CurrentKickstart
<1>1. IInv => CurrentKickstart
  BY DEF IInv, Installs, CurrentKickstart
<1> QED
  BY <1>1, Invariance, PTL

(* What may hold a task back comes in layers: cobbler::configure, then the *)
(* distros and files, the profiles, the registrations, the waits for PXE,  *)
(* the waits for nodes.  If nothing can run, each layer is done, so the    *)
(* next one is.  A plan without cobbler::configure follows one that had it *)
(* (ConfigureAtHand).                                                      *)
THEOREM TasksComeFree == Spec => []NeverStuck
<1>1. IInv => NeverStuck
  <2> SUFFICES ASSUME IInv, ~broken, \A t \in plan : ~Running(t)
               PROVE  plan \subseteq done
    BY DEF NeverStuck, IInv, TypeOK
  <2> USE DEF IInv
  <2>1. ASSUME NEW t \in plan, (Requires(t) \intersect plan) \union ItemTasks(t) \subseteq done,
               t[1] \in PuppetKinds => dhcp # 0
        PROVE  t \in done
    BY <2>1 DEF Running, Ready
  <2>2. ASSUME NEW k, NEW i, <<k, i>> \in plan, k # "pxe",
               k \notin {"profile", "register", "node"}, k \in PuppetKinds => dhcp # 0
        PROVE  <<k, i>> \in done
    BY <2>1, <2>2 DEF Requires, ItemTasks
  <2>3. ASSUME plan # {}
        PROVE  dhcp # 0
    <3>1. plan = CreateConfiguration
      BY <2>3 DEF PlanIsCurrent
    <3>2. CASE <<"configure", "service">> \in plan
      <4>1. <<"configure", "service">> \in done
        BY <2>2, <3>2 DEF PuppetKinds
      <4> QED
        BY <4>1 DEF Effects, VersionBounds, ModelItems, Others
    <3> QED
      BY <3>1, <3>2, ConfigureMembers DEF Settings
  <2>4. ASSUME NEW k, NEW i, <<k, i>> \in plan, k \notin {"profile", "register", "pxe", "node"}
        PROVE  <<k, i>> \in done
    BY <2>2, <2>3, <2>4
  <2>5. ASSUME NEW p, <<"profile", p>> \in plan
        PROVE  <<"profile", p>> \in done
    <3>1. Requires(<<"profile", p>>) \intersect plan \subseteq done
      BY <2>4 DEF Requires, RegisterRequires, NodeRequires, For
    <3> QED
      BY <2>1, <2>3, <2>5, <3>1 DEF ItemTasks
  <2>6. ASSUME NEW n, <<"register", n>> \in plan
        PROVE  <<"register", n>> \in done
    <3>1. Requires(<<"register", n>>) \intersect plan \subseteq done
      BY <2>4, <2>5 DEF Requires, RegisterRequires, NodeRequires, For
    <3> QED
      BY <2>1, <2>6, <3>1 DEF ItemTasks, PuppetKinds
  <2>7. \A t \in plan : t = <<t[1], t[2]>>
    BY DEF TypeOK
  <2>8. ServiceTasks \subseteq done
    BY <2>4, <2>5, <2>6, <2>7 DEF ServiceTasks
  <2>9. ASSUME NEW n, <<"pxe", n>> \in plan
        PROVE  <<"pxe", n>> \in done
    BY <2>1, <2>8, <2>9 DEF Requires, ItemTasks, PuppetKinds
  <2>10. ASSUME NEW n, <<"node", n>> \in plan
         PROVE  <<"node", n>> \in done
    <3>1. Requires(<<"node", n>>) \intersect plan \subseteq done
      BY <2>9 DEF Requires, RegisterRequires, NodeRequires, For
    <3> QED
      BY <2>1, <2>10, <3>1 DEF ItemTasks, PuppetKinds
  <2> QED
    BY <2>4, <2>5, <2>6, <2>7, <2>9, <2>10
<1> QED
  BY <1>1, Invariance, PTL
-----------------------------------------------------------------------------
(* PlanBuild implements InstallService.                                    *)

\* A node that has been waited for was seen booting, and is deregistered: its
\* registration is done and is not repeated within the plan.
Waits ==
    \A n \in Nodes : <<"node", n>> \in done => <<"pxe", n>> \in done /\ n \notin record

LEMMA InsideKeepsWaits ==
    ASSUME IInv, Waits, Inside
    PROVE  Waits'
<1> USE DEF IInv
<1>1. ASSUME done \subseteq done', record' \subseteq record,
             \A n \in Nodes : <<"node", n>> \in done' => <<"node", n>> \in done
      PROVE  Waits'
  BY <1>1 DEF Waits
<1>2. CASE Configure
  BY <1>1, <1>2, TaskSucceeds DEF Configure
<1>3. ASSUME NEW p \in Profiles, Import(p) \/ AddProfile(p)
      PROVE  Waits'
  BY <1>1, <1>3, TaskSucceeds DEF Import, AddProfile
<1>4. ASSUME NEW f \in Files, NEW n \in Nodes, WriteConfig(f, n)
      PROVE  Waits'
  <2>1. f # "node"
    BY DEF Files
  <2> QED
    BY <1>1, <1>4, <2>1, TaskSucceeds DEF WriteConfig
<1>5. ASSUME NEW n \in Nodes, OpenSnippet(n) \/ Boot(n)
      PROVE  Waits'
  BY <1>1, <1>5 DEF OpenSnippet, Boot
<1>6. ASSUME NEW n \in Nodes, WriteSnippet(n) \/ SeesPxe(n)
      PROVE  Waits'
  BY <1>1, <1>6, TaskSucceeds DEF WriteSnippet, SeesPxe, serverVars
<1>7. ASSUME NEW n \in Nodes, Register(n)
      PROVE  Waits'
  <2>1. <<"register", n>> \in plan \ done /\ done' = done \union {<<"register", n>>}
    BY <1>7, TaskSucceeds DEF Register
  <2>2. <<"node", n>> \notin done
    BY <2>1 DEF Installs, Waits
  <2> QED
    BY <1>7, <2>1, <2>2 DEF Register, Waits
<1>8. ASSUME NEW n \in Nodes, Deregister(n)
      PROVE  Waits'
  <2>1. <<"node", n>> \in plan \ done /\ done' = done \union {<<"node", n>>}
    BY <1>8, TaskSucceeds DEF Deregister
  <2>2. Ready(<<"node", n>>) /\ <<"pxe", n>> \in plan
    BY <1>8, <2>1, Members DEF Deregister, Succeed, Running, PlanIsCurrent
  <2>3. <<"pxe", n>> \in done
    BY <2>2 DEF Ready, Requires, RegisterRequires, NodeRequires, For
  <2> QED
    BY <1>8, <2>1, <2>3 DEF Deregister, Waits
<1>9. ASSUME NEW t \in plan, Fail(t)
      PROVE  Waits'
  BY <1>1, <1>9 DEF Fail
<1> QED
  BY <1>2, <1>3, <1>4, <1>5, <1>6, <1>7, <1>8, <1>9 DEF Inside, RunTask

LEMMA NextKeepsWaits ==
    ASSUME IInv, Waits, [Next]_vars
    PROVE  Waits'
<1>1. CASE StartPlan \/ UNCHANGED vars
  BY <1>1 DEF StartPlan, Waits, vars, serverVars
<1>2. CASE EndPlan
  BY <1>2 DEF EndPlan, Waits
<1>3. CASE (\E i \in ModelItems : Edit(i)) \/ (\E p \in Profiles : RevertProfile(p))
  BY <1>3 DEF Edit, RevertProfile, Waits, serverVars
<1> QED
  BY <1>1, <1>2, <1>3, Steps, InsideKeepsWaits

\* Every task of a node is one of a node that is not Applied.
LEMMA PlannedIsNotApplied ==
    ASSUME IInv, NEW k \in {"register", "pxe", "node"}, NEW n \in Nodes, <<k, n>> \in plan
    PROVE  n \in NewNodeSystems /\ n \notin AppliedNodes
BY Members DEF IInv, PlanIsCurrent, NewNodeSystems, NewStates, AppliedNodes

LEMMA ServiceMapping ==
    /\ UNCHANGED used => UNCHANGED Fresh
    /\ UNCHANGED itemState => UNCHANGED AppliedNodes
BY DEF Fresh, AppliedNodes

LEMMA ServiceInit == Init => IS!Init
BY ModelItemsAssumption DEF Init, IS!Init, Fresh, AppliedNodes, ModelItems

\* A registration offers an installation to a node that is not Applied.
LEMMA RegisterIsOffer ==
    ASSUME IInv, NEW n \in Nodes, Register(n)
    PROVE  IS!Next
<1>1. n \notin AppliedNodes
  BY TaskSucceeds, PlannedIsNotApplied DEF Register, IInv
<1>2. used' = [used EXCEPT ![n] = Unused] /\ record' = record \union {n}
  BY DEF Register
<1>3. Fresh' = Fresh \ {n}
  BY <1>2 DEF Fresh, IInv, TypeOK
<1>4. UNCHANGED AppliedNodes
  BY ServiceMapping DEF Register, Succeed, modelVars
<1> QED
  BY <1>1, <1>2, <1>3, <1>4 DEF IS!Next, IS!Offer

\* A boot counts, unless it finds nothing at all on the server.
LEMMA BootIsBoot ==
    ASSUME IInv, NEW n \in Nodes, Boot(n)
    PROVE  IS!Next \/ UNCHANGED IS!svars
<1>1. \A m \in Nodes \ {n} : used'[m] = used[m]
  BY DEF Boot, IInv, TypeOK
<1>2. UNCHANGED <<record, AppliedNodes>> /\ n \in record /\ used[n] = Unused
  BY ServiceMapping DEF Boot, modelVars
<1>3. CASE used'[n] = Unused
  <2>1. UNCHANGED Fresh
    BY <1>1, <1>2, <1>3 DEF Fresh
  <2> QED
    BY <1>2, <2>1 DEF IS!svars
<1>4. CASE used'[n] # Unused
  <2>1. Fresh' = Fresh \union {n}
    BY <1>1, <1>4 DEF Fresh
  <2> QED
    BY <1>2, <2>1 DEF IS!Next, IS!Boot
<1> QED
  BY <1>3, <1>4

\* Once a node has been waited for, its offer is withdrawn.
LEMMA DeregisterIsWithdraw ==
    ASSUME IInv, NEW n \in Nodes, Deregister(n)
    PROVE  IS!Next
<1> DEFINE S == record \intersect {n}
<1>1. UNCHANGED <<Fresh, AppliedNodes>>
  BY ServiceMapping DEF Deregister, Succeed, modelVars
<1>2. record' = record \ S
  BY DEF Deregister
<1>3. S \in SUBSET Nodes /\ IS!Withdraw(S)
  BY <1>1, <1>2 DEF IS!Withdraw
<1> QED
  BY <1>3 DEF IS!Next

\* The end of a plan acknowledges the nodes that it makes Applied: both waits
\* for each have succeeded, in a plan that failed as well.
LEMMA EndPlanIsAcknowledge ==
    ASSUME IInv, Waits, EndPlan
    PROVE  IS!Next
<1>1. PICK T \in SUBSET Appliable :
        itemState' = [i \in ModelItems |->
                        CASE i \in T -> "Applied"
                          [] i \notin T /\ itemState[i] = "Initial"
                             /\ i \in Nodes \union {"service"} -> "Applying"
                          [] OTHER -> itemState[i]]
  BY DEF EndPlan
<1>2. plan # {} /\ (broken \/ done = plan) /\ UNCHANGED <<record, used>>
  BY DEF EndPlan, serverVars
<1> DEFINE S == (T \intersect Nodes) \ AppliedNodes
<1>3. AppliedNodes' = AppliedNodes \union S
  <2>1. \A n \in Nodes : itemState'[n] = "Applied" <=> n \in T \/ itemState[n] = "Applied"
    BY <1>1 DEF ModelItems
  <2> QED
    BY <2>1 DEF AppliedNodes
<1>4. S \subseteq Fresh \ record
  <2> SUFFICES ASSUME NEW n \in S
               PROVE  n \in Fresh /\ n \notin record
    OBVIOUS
  <2>1. n \in NewNodeSystems
    BY DEF Appliable, AppliedNodes, NewNodeSystems, Deployed, IInv, TypeOK, States,
       ModelItems
  <2>2. <<"pxe", n>> \in plan /\ <<"node", n>> \in plan
    BY <1>2, <2>1, Members DEF IInv, PlanIsCurrent
  <2>3. TasksOf(n) = {t \in plan : t[1] \in {"pxe", "node"} /\ t[2] = n}
    BY ModelItemsAssumption DEF TasksOf, Others
  <2>4. n # "network"
    BY ModelItemsAssumption DEF Others
  <2>5. <<"node", n>> \in done
    BY <1>2, <2>2, <2>3, <2>4 DEF Appliable
  <2>6. <<"pxe", n>> \in done /\ n \notin record
    BY <2>5 DEF Waits
  <2> QED
    BY <2>6 DEF IInv, Installs, Fresh
<1>5. UNCHANGED Fresh
  BY <1>2, ServiceMapping
<1>6. S \in SUBSET Nodes /\ IS!Acknowledge(S)
  BY <1>2, <1>3, <1>4, <1>5 DEF IS!Acknowledge
<1> QED
  BY <1>6 DEF IS!Next

\* An edit of an Applied node requests its reinstallation.
LEMMA EditIsRequest ==
    ASSUME IInv, NEW i \in ModelItems, Edit(i)
    PROVE  IS!Next \/ UNCHANGED IS!svars
<1>1. UNCHANGED <<record, Fresh>>
  BY ServiceMapping DEF Edit, serverVars
<1>2. itemState' = [itemState EXCEPT ![i] = IF itemState[i] = "absent" THEN "Initial"
                                            ELSE IF itemState[i] = "Applied" THEN "Updated"
                                            ELSE itemState[i]]
  BY DEF Edit
<1>3. \A n \in Nodes :
         itemState'[n] = "Applied" <=> itemState[n] = "Applied" /\ n # i
  BY <1>2 DEF IInv, TypeOK, ModelItems
<1>4. AppliedNodes' = AppliedNodes \ {i}
  BY <1>3 DEF AppliedNodes
<1>5. CASE i \in AppliedNodes
  <2>1. i \in Nodes
    BY <1>5 DEF AppliedNodes
  <2> QED
    BY <1>1, <1>4, <1>5, <2>1 DEF IS!Next, IS!Request
<1>6. CASE i \notin AppliedNodes
  BY <1>1, <1>4, <1>6 DEF IS!svars
<1> QED
  BY <1>5, <1>6

\* What no other lemma names does not show in the abstract service.
LEMMA HiddenSteps ==
    ASSUME \/ UNCHANGED vars \/ StartPlan \/ Configure
           \/ \E p \in Profiles : Import(p) \/ AddProfile(p) \/ RevertProfile(p)
           \/ \E f \in Files, n \in Nodes : WriteConfig(f, n)
           \/ \E n \in Nodes : OpenSnippet(n) \/ WriteSnippet(n) \/ SeesPxe(n)
           \/ \E t \in plan : Fail(t)
    PROVE  UNCHANGED IS!svars
<1>1. UNCHANGED <<record, used, itemState>>
  BY DEF vars, modelVars, serverVars, StartPlan, Configure, Import, AddProfile,
     RevertProfile, WriteConfig, OpenSnippet, WriteSnippet, SeesPxe, Fail, Succeed
<1> QED
  BY <1>1, ServiceMapping DEF IS!svars

LEMMA ServiceStep == IInv /\ Waits /\ [Next]_vars => [IS!Next]_(IS!svars)
<1> SUFFICES ASSUME IInv, Waits, [Next]_vars
             PROVE  IS!Next \/ UNCHANGED IS!svars
  OBVIOUS
<1>1. CASE EndPlan
  BY <1>1, EndPlanIsAcknowledge
<1>2. CASE \E i \in ModelItems : Edit(i)
  BY <1>2, EditIsRequest
<1>3. CASE StartPlan \/ UNCHANGED vars \/ \E p \in Profiles : RevertProfile(p)
  BY <1>3, HiddenSteps
<1>4. CASE Inside
  <2>1. CASE \E n \in Nodes : Register(n) \/ Deregister(n)
    BY <2>1, RegisterIsOffer, DeregisterIsWithdraw
  <2>2. CASE \E n \in Nodes : Boot(n)
    BY <2>2, BootIsBoot
  <2> QED
    BY <1>4, <2>1, <2>2, HiddenSteps DEF Inside, RunTask
<1> QED
  BY <1>1, <1>2, <1>3, <1>4, Steps

(* Over failed plans, edits and new plans, a node gets Applied only when   *)
(* its machine has booted since its last registration and it is registered *)
(* no more: the plan for a node that is not Applied always has both waits  *)
(* (_add_node_wait), and the one that deregisters comes second.            *)
THEOREM Implementation == Spec => ImplementsInstallService
<1>1. Init => Waits
  BY DEF Init, Waits
<1>2. IInv /\ Waits /\ [Next]_vars => Waits'
  BY NextKeepsWaits
<1>3. Init => IS!Init
  BY ServiceInit
<1>4. IInv /\ Waits /\ [Next]_vars => [IS!Next]_(IS!svars)
  BY ServiceStep
<1> QED
  BY <1>1, <1>2, <1>3, <1>4, Invariance, PTL DEF Spec, ImplementsInstallService, IS!Spec
=============================================================================
