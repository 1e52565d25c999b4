------------------------------ MODULE PlanBuild ------------------------------
(***************************************************************************)
(* From a deployment to the tasks of a plan (validate_model and            *)
(* create_configuration), and what running the tasks leaves behind: the    *)
(* files a node is installed from, Cobbler's profiles and DHCP settings,   *)
(* the registrations.  What a registration consists of, call by call, is   *)
(* in NodeInstall; it is one step here.                                    *)
(*                                                                         *)
(* A version stands for the contents of a node's items, of a profile or of *)
(* the management network, and a file made from them has their version.    *)
(*                                                                         *)
(* LITP runs the plan and is outside the repository.  Assumed of it: a     *)
(* task runs after the tasks it requires; a task that names a second model *)
(* item runs after the other tasks of that item (wait_for_pxe_task names   *)
(* the cobbler-service); nothing starts after a task has failed; an item   *)
(* is Applied when the plan has succeeded or, after a plan that failed,    *)
(* may be if its own tasks succeeded; the model is not edited while a plan *)
(* runs.  Puppet runs a resource after those it requires.                  *)
(***************************************************************************)
EXTENDS Naturals, FiniteSets

CONSTANTS
    Nodes, Profiles,
    Sites,              \* the deployments considered
    MaxPlans, MaxFaults, MaxEdits       \* bounds

ASSUME PlanNodesAssumption == IsFiniteSet(Nodes)

ASSUME PlanBoundsAssumption ==
    MaxPlans \in Nat /\ MaxFaults \in Nat /\ MaxEdits \in Nat

(***************************************************************************)
(* early: a machine may boot as soon as it is registered; otherwise it is  *)
(* started by tasks of its own, as late as the wait for it.  disks: nodes  *)
(* with disks (and volume groups, which other plugins see to).  rootless:  *)
(* no disk bears the name of a device of the root volume group.  own: the  *)
(* management network's items have tasks of their own, from another        *)
(* plugin, which may succeed in a plan that fails.                         *)
(***************************************************************************)
SiteRecords ==
    [profile : [Nodes -> Profiles], early : BOOLEAN, own : BOOLEAN,
     disks : SUBSET Nodes, rootless : SUBSET Nodes,
     services : 0 .. 2, uefi : BOOLEAN,
     systemless : SUBSET Nodes, base : SUBSET Nodes, cloud : SUBSET Nodes,
     libvirt : SUBSET Nodes, hosted : SUBSET Nodes]

ASSUME PlanSitesAssumption == Sites \subseteq SiteRecords

Others == {"service", "network"}

ASSUME ModelItemsAssumption ==
    Nodes \intersect Profiles = {} /\ Others \intersect (Nodes \union Profiles) = {}

VARIABLES
    site,
    itemState,  \* itemState[i]: of a system, a profile, the service, the network
    version,    \* version[i]: the contents of the items
    applied,    \* applied[i]: the contents last applied
    unseen,     \* profiles edited behind the back of validation (a history
                \* variable: no action reads it)
    plan,       \* the tasks of the plan; {} when none is
    done,       \* those that have succeeded
    writing,    \* nodes whose partition snippet is open
    broken,     \* a task has failed
    file,       \* file[k][n]: the version in a file, 0 when there is no content
    dhcp,       \* the version in Cobbler's settings, 0 before it is configured
    distro,     \* distro[p]: the version imported, 0 when it is not
    profiles,   \* the profiles made
    record,     \* the nodes registered
    used,       \* used[n]: what n was installed from since its registration
    plans, faults, edits

modelVars == <<itemState, version, applied, unseen, edits>>
serverVars == <<file, dhcp, distro, profiles, record, used, writing>>
vars == <<site, modelVars, plan, done, broken, serverVars, plans, faults>>

ModelItems == Nodes \union Profiles \union Others
NewStates == {"Initial", "Applying", "Updated"}
States == NewStates \union {"absent", "Applied"}
Files == {"ks", "udev", "bootloader", "partition"}
Unused == [f \in Files \union {"dhcp", "distro"} |-> 0]

Versions == 0 .. MaxEdits + 1
Kinds == Files \union {"configure", "import", "profile", "register", "pxe", "node"}

TypeOK ==
    /\ site \in Sites
    /\ itemState \in [ModelItems -> States]
    /\ version \in [ModelItems -> Versions] /\ applied \in [ModelItems -> Versions]
    /\ unseen \subseteq Profiles
    /\ plan \subseteq Kinds \X ModelItems /\ done \subseteq plan
    /\ writing \subseteq {n \in Nodes : <<"partition", n>> \in plan \ done}
    /\ broken \in BOOLEAN
    /\ file \in [Files -> [Nodes -> Versions]] /\ dhcp \in Versions
    /\ distro \in [Profiles -> Versions] /\ profiles \subseteq Profiles
    /\ record \subseteq Nodes
    /\ used \in [Nodes -> [DOMAIN Unused -> Versions]]
    /\ plans \in 0 .. MaxPlans /\ faults \in 0 .. MaxFaults /\ edits \in 0 .. MaxEdits
-----------------------------------------------------------------------------
(* Validation: one operator for each of the _validate_* methods.           *)

\* _nodes_in_the_deployment
Deployed == {n \in Nodes : itemState[n] # "absent"}

\* _get_new_node_systems
NewNodeSystems == {n \in Deployed : itemState[n] \in NewStates}

SystemErrors == Deployed \intersect site.systemless
DiskBaseErrors == Deployed \intersect site.base
ServiceErrors == Deployed # {} /\ site.services # 1
CloudErrors == IF site.services > 0 /\ site.uefi THEN Deployed \intersect site.cloud ELSE {}
LibvirtErrors == (NewNodeSystems \intersect site.libvirt) \ site.hosted

\* Of the properties a profile had when it was applied; one that has been added
\* is not compared, and is not what a profile's version stands for.
ProfileErrors ==
    {p \in Profiles : itemState[p] = "Updated" /\ version[p] # applied[p]}

\* node.system.disks of a node without a system, in the test for the cloud.
ValidateRaises == site.services > 0 /\ site.uefi /\ SystemErrors # {}

\* Faulty: any number of services.
ValidateServices ==
    /\ ~ValidateRaises
    /\ SystemErrors = {} /\ DiskBaseErrors = {} /\ CloudErrors = {}
    /\ LibvirtErrors = {} /\ ProfileErrors = {}

\* Faulty: profiles are not compared.
ValidateNodes ==
    /\ ~ValidateRaises
    /\ SystemErrors = {} /\ DiskBaseErrors = {} /\ ~ServiceErrors /\ CloudErrors = {}
    /\ LibvirtErrors = {}

\* validate_model finds nothing wrong.
Validate ==
    /\ ~ValidateRaises
    /\ SystemErrors = {} /\ DiskBaseErrors = {} /\ ~ServiceErrors /\ CloudErrors = {}
    /\ LibvirtErrors = {} /\ ProfileErrors = {}

\* What create_configuration stumbles over: attributes of None, of an item
\* of the base type, and a bridge that is None.
CreateRaises ==
    \/ Deployed \intersect site.systemless # {}
    \/ NewNodeSystems \intersect site.base # {}
    \/ NewNodeSystems # {} /\ site.services = 0
    \/ ~(NewNodeSystems \intersect site.libvirt \subseteq site.hosted)
-----------------------------------------------------------------------------
(* The tasks.                                                              *)

For(kind, S) == {kind} \X S

NewMsNetworkStatus == itemState["network"] \in NewStates

\* reconfigure_cobbler: a node with disks is Initial.
ReconfigureCobbler == \E n \in NewNodeSystems \intersect site.disks : itemState[n] = "Initial"

\* Faulty: not if a plan has got as far as to start on the service.
ConfigureWhenInitial ==
    IF itemState["service"] = "Initial" \/ NewMsNetworkStatus \/ ReconfigureCobbler
    THEN For("configure", {"service"}) ELSE {}

ConfigureTasks ==
    IF itemState["service"] \in NewStates \/ NewMsNetworkStatus \/ ReconfigureCobbler
    THEN For("configure", {"service"}) ELSE {}

UdevTasks == For("udev", NewNodeSystems)
KickstartTasks == For("ks", NewNodeSystems)
BootloaderTasks == For("bootloader", NewNodeSystems \intersect site.disks)

\* Faulty: not for a node that an earlier plan has started on.
PartitionTasksInitial ==
    For("partition", {n \in NewNodeSystems \intersect site.disks : itemState[n] = "Initial"})

PartitionTasks == For("partition", NewNodeSystems \intersect site.disks)

InitialProfiles == {p \in Profiles : itemState[p] = "Initial"}

RecordTasks ==
    For("import", InitialProfiles) \union For("profile", InitialProfiles)
    \union For("register", NewNodeSystems)

WaitTasks == For("pxe", NewNodeSystems) \union For("node", NewNodeSystems)

CreateConfiguration ==
    UdevTasks \union PartitionTasks \union KickstartTasks \union BootloaderTasks
    \union ConfigureTasks \union RecordTasks \union WaitTasks

OfKind(kind) == {t \in plan : t[1] = kind}

\* len(add_node_tasks) == len(cobbler_tasks): the n-th register task then
\* requires the n-th kickstart task, which are the same node's.
InStep ==
    Cardinality(OfKind("import") \union OfKind("profile") \union OfKind("register"))
    = Cardinality(OfKind("ks"))

\* Faulty: not the kickstart.
RegisterRequiresProfile(n) == For("profile", {site.profile[n]})

\* Faulty: not the profile.
RegisterRequiresKickstart(n) == For("ks", {n})

RegisterRequires(n) ==
    For("profile", {site.profile[n]}) \union (IF InStep THEN For("ks", {n}) ELSE {})

\* Faulty: the wait for a node may come before the wait for its machine.
NodeRequiresNothing(n) == {}

NodeRequires(n) == For("pxe", {n})

Requires(t) ==
    CASE t[1] = "profile" -> For("import", {t[2]})
      [] t[1] = "register" -> RegisterRequires(t[2])
      [] t[1] = "node" -> NodeRequires(t[2])
      [] OTHER -> {}

\* Faulty: the wait for a node names the service as well.
ServiceTasksAndNodes == {t \in plan : t[1] # "pxe"}

ServiceTasks == {t \in plan : t[1] \notin {"pxe", "node"}}

\* wait_for_pxe_task.model_items.add(cobbler_service)
ItemTasks(t) == IF t[1] = "pxe" THEN ServiceTasks ELSE {}

\* File['dhcp'] and Service['cobblerd'] are resources of cobbler::configure.
PuppetKinds == {"import", "profile", "ks", "udev", "bootloader"}

Ready(t) ==
    /\ t \in plan \ done
    /\ ~broken
    /\ (Requires(t) \intersect plan) \union ItemTasks(t) \subseteq done
    /\ t[1] \in PuppetKinds => dhcp # 0
-----------------------------------------------------------------------------
(* Running them.                                                           *)

\* A write goes on when another task has failed.
Running(t) == Ready(t) \/ (t[1] = "partition" /\ t[2] \in writing)

Succeed(t) ==
    /\ Running(t)
    /\ done' = done \union {t}
    /\ UNCHANGED <<site, modelVars, plan, broken, plans, faults>>

WriteConfig(f, n) ==
    /\ Succeed(<<f, n>>)
    /\ file' = [file EXCEPT ![f][n] = version[n]]
    /\ UNCHANGED <<dhcp, distro, profiles, record, used, writing>>

\* cb__write_snippet: O_TRUNC first ...
OpenSnippet(n) ==
    /\ Ready(<<"partition", n>>)
    /\ n \notin writing
    /\ writing' = writing \union {n}
    /\ file' = [file EXCEPT !["partition"][n] = 0]
    /\ UNCHANGED <<site, modelVars, plan, done, broken, dhcp, distro, profiles,
                   record, used, plans, faults>>

\* Faulty: the file is never closed.
WriteSnippetOpen(n) ==
    /\ n \in writing \ site.rootless
    /\ Succeed(<<"partition", n>>)
    /\ file' = [file EXCEPT !["partition"][n] = version[n]]
    /\ UNCHANGED <<dhcp, distro, profiles, record, used, writing>>

\* ... and then the text; without root disks there is none to join.
WriteSnippet(n) ==
    /\ n \in writing \ site.rootless
    /\ Succeed(<<"partition", n>>)
    /\ writing' = writing \ {n}
    /\ file' = [file EXCEPT !["partition"][n] = version[n]]
    /\ UNCHANGED <<dhcp, distro, profiles, record, used>>

Configure ==
    /\ Succeed(<<"configure", "service">>)
    /\ dhcp' = version["network"]
    /\ UNCHANGED <<file, distro, profiles, record, used, writing>>

\* Puppet imports a distro that is not there.  The contents of one that is there
\* are left as they are: breed, os_version and arch are corrected, the tree at
\* the path is not imported again.
Import(p) ==
    /\ Succeed(<<"import", p>>)
    /\ distro' = [distro EXCEPT ![p] = IF @ = 0 THEN version[p] ELSE @]
    /\ UNCHANGED <<file, dhcp, profiles, record, used, writing>>

AddProfile(p) ==
    /\ Succeed(<<"profile", p>>)
    /\ profiles' = profiles \union {p}
    /\ UNCHANGED <<file, dhcp, distro, record, used, writing>>

Register(n) ==
    /\ Succeed(<<"register", n>>)
    /\ site.profile[n] \in profiles
    /\ record' = record \union {n}
    /\ used' = [used EXCEPT ![n] = Unused]
    /\ UNCHANGED <<file, dhcp, distro, profiles, writing>>

\* A machine boots into its installation.
Boot(n) ==
    /\ n \in record
    /\ site.early \/ Ready(<<"pxe", n>>)
    /\ used[n] = Unused
    /\ used' = [used EXCEPT ![n] =
                  [f \in DOMAIN Unused |-> CASE f \in Files -> file[f][n]
                                             [] f = "dhcp" -> dhcp
                                             [] OTHER -> distro[site.profile[n]]]]
    /\ UNCHANGED <<site, modelVars, plan, done, broken, file, dhcp, distro, profiles,
                   record, writing, plans, faults>>

SeesPxe(n) ==
    /\ Succeed(<<"pxe", n>>)
    /\ used[n] # Unused
    /\ UNCHANGED serverVars

Deregister(n) ==
    /\ Succeed(<<"node", n>>)
    /\ record' = record \ {n}
    /\ UNCHANGED <<file, dhcp, distro, profiles, used, writing>>

\* A wait may time out and a node without root disks has no snippet;
\* everything else fails by accident.
Fail(t) ==
    /\ Running(t)
    /\ broken' = TRUE
    /\ writing' = IF t[1] = "partition" THEN writing \ {t[2]} ELSE writing
    /\ IF t[1] \in {"pxe", "node"} \/ t[2] \in writing \intersect site.rootless
       THEN UNCHANGED faults
       ELSE faults < MaxFaults /\ faults' = faults + 1
    /\ UNCHANGED <<site, modelVars, plan, done, file, dhcp, distro, profiles, record,
                   used, plans>>
-----------------------------------------------------------------------------
(* The operator and LITP.                                                  *)

StartPlan ==
    /\ plan = {} /\ plans < MaxPlans
    /\ Validate /\ ~CreateRaises
    /\ NewNodeSystems # {}
    /\ plan' = CreateConfiguration
    /\ plans' = plans + 1
    /\ UNCHANGED <<site, modelVars, done, broken, serverVars, faults>>

\* The tasks of a profile are the service's.
TasksOf(i) ==
    CASE i \in Nodes -> {t \in plan : t[1] \in {"pxe", "node"} /\ t[2] = i}
      [] i = "service" -> ServiceTasks
      [] OTHER -> {}

Appliable ==
    {i \in ModelItems : /\ itemState[i] # "absent"
                        /\ \/ ~broken
                           \/ TasksOf(i) # {} /\ TasksOf(i) \subseteq done
                           \/ i = "network" /\ site.own}

\* The items of S get Applied.  The tasks of a failed plan that are under
\* way have ended.
EndPlan ==
    /\ plan # {} /\ writing = {}
    /\ broken \/ done = plan
    /\ \E S \in SUBSET Appliable :
          /\ ~broken => S = Appliable
          /\ itemState' = [i \in ModelItems |->
                             CASE i \in S -> "Applied"
                               [] i \notin S /\ itemState[i] = "Initial"
                                  /\ i \in Nodes \union {"service"} -> "Applying"
                               [] OTHER -> itemState[i]]
          /\ applied' = [i \in ModelItems |-> IF i \in S THEN version[i] ELSE applied[i]]
    /\ plan' = {} /\ done' = {} /\ broken' = FALSE
    /\ UNCHANGED <<site, version, unseen, edits, serverVars, plans, faults>>

\* A node or a profile is added; the contents of an item change.  A profile
\* that is Initial, and imported by a plan that failed, stays Initial.
Edit(i) ==
    /\ plan = {} /\ edits < MaxEdits
    /\ edits' = edits + 1
    /\ IF itemState[i] = "absent"
       THEN /\ i \in Nodes => itemState[site.profile[i]] # "absent"
            /\ itemState' = [itemState EXCEPT ![i] = "Initial"]
            /\ UNCHANGED <<version, unseen>>
       ELSE /\ i # "service"
            /\ version' = [version EXCEPT ![i] = @ + 1]
            /\ itemState' = [itemState EXCEPT ![i] = IF @ = "Applied" THEN "Updated" ELSE @]
            /\ unseen' = unseen \union {p \in Profiles \intersect {i} :
                                         itemState[p] = "Initial" /\ distro[p] # 0}
    /\ UNCHANGED <<site, applied, plan, done, broken, serverVars, plans, faults>>

\* The operator heeds the validation: 'Value of "%s" should be %s'.
RevertProfile(p) ==
    /\ plan = {} /\ p \in ProfileErrors
    /\ version' = [version EXCEPT ![p] = applied[p]]
    /\ UNCHANGED <<site, itemState, applied, unseen, edits, plan, done, broken, serverVars,
                   plans, faults>>

Init ==
    /\ site \in Sites
    /\ itemState \in {s \in [ModelItems -> {"Initial", "absent"}] :
                        /\ \E n \in Nodes : s[n] = "Initial"
                        /\ \A n \in Nodes : s[site.profile[n]] = "absent" => s[n] = "absent"
                        /\ \A i \in Others : s[i] = "Initial"}
    /\ version = [i \in ModelItems |-> 1]
    /\ applied = [i \in ModelItems |-> 0] /\ unseen = {}
    /\ plan = {} /\ done = {} /\ broken = FALSE /\ writing = {}
    /\ file = [f \in Files |-> [n \in Nodes |-> 0]]
    /\ dhcp = 0 /\ distro = [p \in Profiles |-> 0] /\ profiles = {}
    /\ record = {} /\ used = [n \in Nodes |-> Unused]
    /\ plans = 0 /\ faults = 0 /\ edits = 0

RunTask ==
    \/ Configure
    \/ \E p \in Profiles : Import(p) \/ AddProfile(p)
    \/ \E n \in Nodes :
          \/ \E f \in Files \ {"partition"} : WriteConfig(f, n)
          \/ OpenSnippet(n) \/ WriteSnippet(n)
          \/ Register(n) \/ SeesPxe(n) \/ Deregister(n)

Next ==
    \/ StartPlan \/ EndPlan \/ RunTask
    \/ \E t \in plan : Fail(t)
    \/ \E n \in Nodes : Boot(n)
    \/ \E i \in ModelItems : Edit(i)
    \/ \E p \in Profiles : RevertProfile(p)

Spec == Init /\ [][Next]_vars

\* LITP starts every task that is ready and ends a plan that is over; tasks
\* of Puppet and Cobbler end, and a wait times out if nothing comes of it.
Fairness ==
    /\ WF_vars(RunTask)
    /\ WF_vars(\E n \in Nodes : Fail(<<"pxe", n>>) \/ Fail(<<"node", n>>))
    /\ WF_vars(\E n \in site.rootless \intersect writing : Fail(<<"partition", n>>))
    /\ WF_vars(EndPlan)

FairSpec == Spec /\ Fairness
-----------------------------------------------------------------------------
(* Properties.                                                             *)

(* No model that validate_model accepts makes create_configuration raise:  *)
(* what the builders dereference without a test (a node's system, its      *)
(* disks, the service, a bridge on the host) has been looked at by one of  *)
(* the _validate_* methods.                                                *)
AcceptedIsBuildable == Validate => ~CreateRaises

(* A registration that is due can be made: Cobbler has been configured and *)
(* has the node's profile, whether this plan imports it or a plan before,  *)
(* failed or not (profile_tasks and is_initial in                          *)
(* _generate_cobbler_records).                                             *)
DueMeansPrepared ==
    \A n \in Nodes : Ready(<<"register", n>>) =>
        dhcp # 0 /\ site.profile[n] \in profiles

(* A plan whose Puppet resources require those of cobbler::configure       *)
(* declares it, or an earlier plan has applied it, after whichever task    *)
(* that plan failed (the condition on _generate_cobbler_configure).        *)
ConfigureAtHand ==
    plan # {} => dhcp # 0 \/ <<"configure", "service">> \in plan

(* A node that is seen booting is installed from its model as it is now:   *)
(* every file, the address range and the distro.  A failed plan may leave  *)
(* two things in them that the code does not make good, and which are      *)
(* excepted: the address range where a plan that fails may have applied    *)
(* the network without cobbler::configure (_new_ms_network_status asks for *)
(* its state only), and the distro of a profile that was edited after its  *)
(* import by a plan that failed (_validate_os_profile looks at profiles    *)
(* that are Updated, and this one is Initial).                             *)
InstalledFromModel ==
    ~site.early => \A n \in Nodes : <<"pxe", n>> \in done =>
        /\ \A f \in {"ks", "udev"} : used[n][f] = version[n]
        /\ n \in site.disks =>
              \A f \in {"bootloader", "partition"} : used[n][f] = version[n]
        /\ ~site.own => used[n]["dhcp"] = version["network"]
        /\ site.profile[n] \notin unseen => used[n]["distro"] = version[site.profile[n]]

(* A machine that boots the moment it is registered finds its kickstart    *)
(* file written, in a plan that imports no profile; in one that does, the  *)
(* two lists have different lengths and nothing orders the two             *)
(* (len(add_node_tasks) == len(cobbler_tasks)).                            *)
CurrentKickstart ==
    OfKind("import") = {} =>
        \A n \in Nodes : <<"register", n>> \in done /\ used[n] # Unused =>
            used[n]["ks"] = version[n]

(* What Cobbler serves is the distro of the model that is accepted for a   *)
(* plan, though it is imported only once and never compared: a profile     *)
(* that was edited after it was Applied stops every plan until it is as it *)
(* was (_validate_os_profile).  One that was edited between its import by  *)
(* a plan that failed and the next plan is Initial, so that it is neither  *)
(* compared nor imported again, and is served as it was for good (unseen). *)
ServedIsModelled ==
    Validate \/ plan # {} => \A p \in Profiles \ unseen : distro[p] \in {0, version[p]}

(* No plan comes to a stop unless it has failed: as long as a task is left *)
(* there is one that nothing holds back, neither another task, by name or  *)
(* through its model items, nor a resource of cobbler::configure that the  *)
(* plan does not declare (add_node_tasks, model_items.add).                *)
NeverStuck == done # plan /\ ~broken => \E t \in plan : Running(t)

(* Every plan ends: no task waits for one that waits for it, and none for  *)
(* a resource that no task of the plan provides (_add_node_wait,           *)
(* create_configuration, the requires of the Puppet defines).              *)
PlanEnds == plan # {} ~> plan = {}

(* Through failed plans, edits and new plans, a node gets Applied only     *)
(* when its machine has begun to install since its last registration, and  *)
(* is registered no more (the order of the wait tasks in _add_node_wait,   *)
(* and that a node that is not Applied has them in every plan).            *)
Fresh == {n \in Nodes : used[n] # Unused}
AppliedNodes == {n \in Nodes : itemState[n] = "Applied"}

IS == INSTANCE InstallService
        WITH offered <- record, fresh <- Fresh, applied <- AppliedNodes

ImplementsInstallService == IS!Spec
=============================================================================
