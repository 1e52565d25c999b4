# TLA+ specifications of the boot manager plugin

This directory models ERIClitpbootmgr: the LITP plugin that installs the managed
nodes of a deployment over the network with Cobbler. The modules are checked with
TLC and, where the section "Proofs" says so, proved with TLAPS.

## 1. The system

| Component | Source | State it keeps | Operations | Hard behaviour |
|---|---|---|---|---|
| Node installation callbacks | `src/src/bootmgr_plugin/bootmgr_plugin.py` | none of its own; it acts on Cobbler and on the plan's tasks | register (`_add_system_callback`), wait for PXE (`_wait_for_pxe_boot`), wait for the node and deregister (`_wait_for_node`) | tasks of different nodes run concurrently; every call may fail with or without its effect; the plan may be stopped; a failed plan is run again |
| Plan building | `create_configuration`, same file; the Puppet defines it declares | the tasks of a plan and what each requires; through them the kickstart, udev, bootloader and partition files, Cobbler's settings, distros and profiles | one pass over the model, validated before; then each task | requirements come from four places; plans fail half way and are made again from what is left; an order that is missing between two tasks shows only in some deployments |
| Cobbler agent | `src/puppet/mcollective_agents/files/cobbler.rb` | none; it runs `cobbler` commands | `sync`, `remove_system`, `add_system`, `edit_system`, `create_directory`, `backup_anamon`, `remove_directory` | 55 s timeout of the agent, 70 s of the RPC, neither of which stops cobblerd |
| Cobbler triggers | `src/src/triggers/cobbler/*.py` | xinetd's state; the record's comment | pre-sync: start or stop xinetd; install-pre: set the comment `PXE_BOOTED` | the list of systems is read before xinetd is dealt with; the comment is set in memory and not saved |
| Anamon log backup | `_backup_anamon_logs` | directories under `anamon.backup` | copy, list, prune | tasks of different nodes share the directory |
| Node kickstart | `src/puppet/cobbler/templates/kickstart.erb` and the snippets | the disks of the node | wipe, call the trigger, install, reboot | power may fail between any two steps |
| Disk layout | `_get_lvm_kickstart_config`, `_generate_bootloader_fragments`, `bootloader.erb` | the disks of the machines, through the snippets it writes | look for disks, remove volume groups, wipe, zero, hand to Anaconda | disks shared between nodes; uuids written in two ways or known late; power failures between the steps |
| NIC and MAC resolution | `_get_matching_nic_name`, `_find_mac`, `_get_dedicated_pxe_boot_only_nic`, `_add_udev_network_tasks`, `_create_system_params` | none | from a node's network items to the card it boots from, and from a name to a MAC address | three walks that must agree; bonds, VLANs, bridges, PXE-only cards; items about to be removed |
| Validation | `validate_model` and its `_validate_*` | none | six checks of the model | what the builders dereference has to be excluded here, by other conditions |
| Size conversion | `_convert_to_mb`, `convert_to_gigabytes` | none | pure functions | units and rounding differ |
| Locale and kernel options | `_get_keyboard`, `_get_timezone`, `_get_kernel_options` | none | look-ups | none |
| Puppet providers | `src/puppet/cobblerdata/lib/puppet/provider/*` | Cobbler's distros, profiles, repos, systems | create, destroy, property setters | third-party (puppet-cobbler); the plugin registers systems through the agent instead |
| Manifests, settings templates, packaging, SELinux | `src/puppet/*/manifests`, `src/scripts`, `src/selinux` | files | declarative | none |

How the parts interact. LITP (outside this repository) asks the plugin for tasks and
runs them. A register task makes RPC calls through MCollective to the Cobbler agent on
the management server; the agent runs `cobbler`, a client of cobblerd. `cobbler sync`
runs the pre-sync trigger, which starts or stops xinetd (TFTP), and then writes the
boot files. A machine that boots from the network gets these files if xinetd runs,
fetches the kickstart cobblerd renders from the record, and in its `%pre` section wipes
its disks and calls the install-pre trigger. The trigger sets the record's comment,
which the wait-for-PXE task polls over XML-RPC. The wait-for-node task then pings the
node over MCollective, and deregisters it.

What makes each part correct:

* installation: no wait succeeds on what an earlier plan, or the old system, left
  behind; a node is deregistered only when it has been installed, and is then really
  gone from Cobbler and from its boot files; every task ends; a plan that is run again
  is not refused because of what the failed one left;
* triggers: xinetd runs while a node has to boot and stops with the last system;
* backup: a node that was backed up keeps its newest backup, and one only;
* disk layout: only disks that belong to the node alone are wiped, and all of those are; an
  installation that misses a disk stops, with rhel7 before any is wiped and with rhel6 before
  the boot disk is; data kept for a reinstallation survives it;
* plan building: what validation lets through can be built; every plan has, or follows,
  what its tasks presuppose, and it ends; a node is installed from its model as it is now
  and not from what a failed plan or an older model left in a file;
* NIC resolution: name and MAC address are one card's, the card is one the node can boot
  from, and edits that do not concern it do not change it;
* sizes: the image made for a virtual disk holds what is laid out on it (it does not for a
  size in T, section 3).

## 2. The modules

| Module | What it is |
|---|---|
| `Cobbler` | the server's side: records, comments, published boot files, xinetd, and one operator per agent command or trigger step |
| `NodeMachine` | the machines: power, boot, kickstart (extends `Cobbler`) |
| `NodeInstall` | plans, tasks and commands over `NodeMachine`; the properties and the inductive invariant |
| `InstallService` | the abstract specification: what is promised of each node; `NodeInstall` and `PlanBuild` implement it |
| `NodeInstallProofs` | the theorems about `NodeInstall` |
| `MCNodeInstall` | instances for TLC (symmetry) |
| `AnamonBackup`, `MCAnamonBackup` | the backups of concurrent register tasks |
| `AnamonBackupProofs` | the theorems about `AnamonBackup` |
| `KickstartDisks`, `MCKickstartDisks` | the partition and bootloader snippets, made from a deployment and run on its machines |
| `KickstartDisksProofs` | the theorems about `KickstartDisks` |
| `PlanBuild`, `MCPlanBuild` | validation, the tasks of a plan and what they require, and what running them leaves behind, over several plans |
| `PlanBuildProofs` | the theorems about `PlanBuild` |
| `VirtualDisk` | the two size conversions |
| `NicResolution`, `MCNicResolution` | the card a node is registered with, over edits and plans; the image of its disk |
| `NicResolutionProofs` | the theorems about `NicResolution`, and the arithmetic of `VirtualDisk` |

Operators whose comment begins with "Faulty:" are variants of the definition that
follows them, with a bug the code could plausibly have. No specification uses them; put
in place of the original they must make a property fail, which shows that the property
can fail.

### `Cobbler`

`record[n]` is how far a record has been built: absent, added (profile only), keyed (own
kickstart and first interface), and one level for each further interface up to `Full`.
The plugin sends one `add_system` and then one `edit_system` per interface, so a record
that is interrupted stays at one of these levels. `published[n]` is the level at which
the boot files were last written, by `cobbler sync` (all records) or, possibly, by
cobblerd itself when a record is saved or deleted: the plugin never counts on the latter,
so it is nondeterministic. `comment[n]` stands for `PXE_BOOTED`. The trigger sets it on
the record in memory and does not save it, so a restart of cobblerd loses any subset of
the comments. `remove_system` succeeds without a record because the agent accepts
"unknown system name".

The pre-sync trigger is two steps, as in the code: the list of systems is read
(`syncRead`) and xinetd is dealt with afterwards (`syncStart`, `syncStop`). The status
check and the start or stop that follows it are one step. Writing the boot files is one step
as well (`SyncPublish`): how `cobbler sync` goes about it is not in this repository. Where two
syncs overlap, one that reads the records, is overtaken by a deregistration and then writes the
files of the node that is gone is therefore not among the behaviours; run `xinetd` is about the
trigger, which is in the repository.

### `NodeMachine`

A machine goes off, netboot, pre, wiped, installing, off, and up from its disk. It can
only boot from the network when its boot files are published with a MAC and xinetd runs,
and may lose power in any state. The kickstart it gets depends on the record at that
moment: a record that only has its profile yields the profile's kickstart (Cobbler's
`default.ks`), which does not wipe before it calls the trigger and installs a system
without MCollective. `os[n]` tells a system installed for the present registration from
an older one, and `booted[n]` (a history variable) which kickstart called the trigger
since the record was last added.

### `NodeInstall`

`task[n]` is where node n's three tasks are; `job[n]` is the command in progress on the
server:

    register:   backup, remove, add, edit (once per interface), syncRead,
                syncStart | syncStop, syncPublish
    deregister: remove, syncRead, syncStart | syncStop, syncPublish

`CallFails` is an RPC that fails, times out or reports an error: the task fails, and the
command is lost or goes on without its task (a stray). `XinetdFails` is a trigger that
returns non-zero, which ends the sync. `CobblerdRestarts` loses comments. `PxeWait` and
`NodeWait` are the polling loops with the order of their tests kept: the wait for PXE
looks at `is_running()` first, the wait for the node looks at the node first, so that an
answer wins over a stop. Time is not counted: a wait may time out at any poll.

LITP is not in the repository. What is assumed of it is what the plugin relies on:

* all register tasks of a plan succeed before its waiting tasks start;
* a task starts after the tasks it requires, and not after a task has failed;
* tasks of different nodes run concurrently;
* the register tasks of the next plan start after the commands of the last one have run
  their course (the configuration tasks, a Puppet run, come first and the commands are
  bounded by minutes);
* an item whose tasks are done becomes Applied.

### `InstallService`

Three sets: nodes offered an installation, nodes that began one since, nodes reported
installed. A node is acknowledged only when it is fresh and no longer offered. Two modules
implement it, at two levels of detail. The refinement mapping at the end of `NodeInstall`
takes a node as offered when it has a record or published boot files: what may go wrong there
is between the commands of a registration and a sync. The one at the end of `PlanBuild` takes
it as offered when it is registered: what may go wrong there is between a plan and its
successors, which make their tasks anew from whatever states the failed plan left.

### `AnamonBackup`

The first step of a register task. Commands (`mkdir`, `rsync`, one removal per old
backup) may fail with or without effect. `Contains` says which hostname is a part of
which, because the code selects backups with `hostname in x`.

`NewestKept` is for a node whose name leads: of the names that are parts of one name, it is
a part of all the others. It is not enough that no other name is a part of n's own: if a and
b are both parts of ab, then a's task keeps the newest of a's and ab's backups, which may be
ab's; if b's task then removes that one, a has none. `OneBackupEach` is for names that have
no part in common with any other.

### `KickstartDisks`

`NodeMachine` has one step for the wiping of disks; this module has all of them. `site` is a
deployment: the disks of each node's system, how its items write their uuids, which of the
uuids the plan fills in (`late`), which items are marked shared, the fencing disks, who is
reinstalled, what hardware there is, and the volume groups found on it. It does not change:
the snippets are written once per plan. Two sets decide everything, and they are computed by
different functions at different times:

* `Listed` and `Cleared`, for the partition snippet, when its task runs: uuids count as the
  plan has filled them in;
* `Spared`, for the bootloader snippet, when the plan is created: a uuid not filled in yet is
  `None`, so it is counted as `None` and is in the list as nothing.

Uuids are compared as text by the plugin (`SameUuid`) and without regard to case by the
shell, which is why `Spared` is a set of disks: whatever the spelling, the snippet recognises
the disk.

The two kickstarts run the snippets in different orders (`BootloaderFirst`):

    rhel7:  check, groups, wipe | scan, dd, match | ready, installed
    rhel6:  scan, dd, match | check | ready, installed

`check`, `groups` and `wipe` are the partition snippet (the latter two are not in rhel6's),
`scan`, `dd` and `match` the bootloader snippet, the rest is Anaconda. An error in a snippet is
`halted`; power may fail between any two steps, and the next boot starts over. `erased` has what the current installation has overwritten, `vg`
the volume group on each disk. A volume group is removed in one step. The physical volumes
of `vg_root` are found with `grep`, which finds those of `vg_root_data` too (`Matching`), and
`pvremove --force ... --force` removes a physical volume from whatever group it is in.

Assumed of what is not in the code (`WellFormed`): a boot disk is its node's own; a node
sees no disk that is only in the models of others (zoning); fencing disks are in no node's
system; rhel6 is not reinstalled. A uuid that the plan fills in is taken to be known when the
partition snippet is written (`Listed`): its task has no requirement that sees to it.

### `PlanBuild`

`NodeInstall` has the calls a registration is made of; this module has everything that
comes before it, with the registration as one step. The model items are the nodes' systems,
the profiles, the service and the management network, each with a state as LITP has it and a
version that stands for its contents; a file or a setting made from an item has the item's
version, so that stale content is told from current. `site` is what does not change: which
node has which profile and disks, and everything the validators look at.

* Validation: `SystemErrors`, `DiskBaseErrors`, `ServiceErrors`, `CloudErrors`,
  `LibvirtErrors`, `ProfileErrors`, one for each `_validate_*`; `ValidateRaises` is the one
  dereference inside validation. `CreateRaises` is what the builders dereference.
* Tasks: one operator for each kind, with its condition, and `Requires` for what the tasks
  require by name. `InStep` is the test of `create_configuration` whether the register tasks
  require the kickstart tasks; `ItemTasks` is what the wait for PXE waits for because it
  names the service; `PuppetKinds` are the tasks whose resources require those of
  `cobbler::configure`.
* Running: `Configure`, `Import`, `AddProfile`, `WriteConfig` (kickstart, udev and bootloader
  files), `OpenSnippet` and `WriteSnippet` (the partition snippet is truncated and then
  written), `Register`, `SeesPxe`, `Deregister`; `Fail`, after which nothing starts; `Boot`,
  which records in `used` what a machine is installed from.
* The operator: `Edit` adds a node or a profile, or changes one; `RevertProfile` heeds the
  validation of a profile. `EndPlan` is LITP's: after a success all items are Applied, after
  a failure any of those whose tasks have succeeded.

An edit may come at any time when no plan runs, also of a profile that a failed plan has
imported already; `unseen` (a history variable, which no action reads) has the profiles edited
in that way. A profile's version stands for the properties it had when it was applied, because
`_validate_os_profile` compares only those. The tasks of a profile have the service as their
model item, so that a plan that fails does not make a profile Applied (`TasksOf`).

The header of the module lists what is assumed of LITP and of Puppet. Three properties make an
exception where the code does nothing about a case, each in its text: `ServedIsModelled` of
unseen profiles, `InstalledFromModel` of the same and of an address range on its own tasks,
`CurrentKickstart` of plans that import a profile (section 3, "What was found").

### `NicResolution` and `VirtualDisk`

`ifaces` is the set of a node's network items, each with its place (`at`) in the order in which
LITP lists them: the code takes the first of what a query returns (`FirstOf`), or the first by
name (`LeastNamed`). `WellFormed` says which properties the item types have at all: only an eth
has a master or is for PXE only, and a bridge is not bridged. `MatchingNicName` walks from the boot
network to a card: from a bridge to what is bridged, from a VLAN to what it is on, from a bond
to its first slave. `FindMac` walks from a name to a MAC address, and `UdevCards` makes the
list of the udev snippet. `RunPlan` does all three and keeps the outcome in `record`; `seen`
(a history variable) has the items it ought to have been about, found not by walking but by
the references (`BootPath`), and without their places, so that an order which matters is one
that `OtherEditsDoNotMatter` finds. The operator creates, removes and replaces items in between.
`Legal` is what other plugins have validated, `HarmlessRemovals` that no item on the way to
the card is being removed in the same plan; only the slaves of a bond are looked at without
the items that are being removed.

`VirtualDisk` has the two conversions in integers: the decimals of the code are the fractions
they stand for, in lowest terms. A size is limited to what 32 bits allow for them. That the
image is made in gigabytes of 1000^3 bytes is assumed (`Mebibytes`): its maker is not in this
repository, and the factors of the code make sense for such gigabytes only.

## 3. The runs

| Run | Instance | Shows |
|---|---|---|
| `pair` | 2 nodes, 2 interfaces, 2 plans, 1 fault, symmetry | the inductive invariant (which has the type invariant in it), `RegisteredMeansBootable`, `DoneMeansDeregistered`, and that `NodeInstall` implements `InstallService` |
| `retry` | 1 node, 2 interfaces, 3 plans, 2 faults, 1 reinstallation, 2 power losses | the type invariant, `FreshPxe`, `DoneMeansReinstalled`, `RetryNeverRefused`, and `XinetdStopsWithLastSystem` for a single node |
| `live` | 2 nodes, 1 interface, 1 plan, 1 fault, fairness | every plan ends; and `XinetdStopsIfApart`: in a behaviour in which no two syncs overlap, xinetd is down after the last node |
| `xinetd` | 2 nodes, 1 plan, no fault | `XinetdStopsWithLastSystem` is violated |
| `backup` | `node1` and `node10` with 2 rounds, `other` with 3, 1 fault | the type invariant, `NewestKept`, `OneBackupEach` |
| `backup_names` | same names, 1 round, no fault | `BackupSurvives` is violated |
| `disks` | 2 nodes, a boot disk each, a third disk that is anybody's; see below | the type invariant, `ForeignDisksKept`, `OwnDisksErased`, `MissingDiskStops`, `ReinstallKeepsData` |
| `disks_late` | the third disk is shared, its uuid filled in by the plan | `SharedDisksKept` is violated |
| `disks_serial` | two private disks, one's serial number a part of the other's | `OwnDisksErased` is violated |
| `nics` | 3 cards, a bond, a VLAN, a bridge, two orders, 2 edits, 2 plans; 9 sizes | the type invariant, `LegalMeansResolvable`, `BootsFromItsNetwork`, `UdevNamesTheCards`, `OtherEditsDoNotMatter`, `ImageFits` |
| `disk_size` | 1 card, 9 sizes, 1 plan | `ImageHoldsLayout` is violated, by a size in T |
| `plan` | 2 nodes, 2 profiles, 2 plans, 1 fault, 1 edit, every wrong deployment | the type invariant, `AcceptedIsBuildable`, `ConfigureAtHand`, `DueMeansPrepared`, `ServedIsModelled`, `InstalledFromModel`, `CurrentKickstart`, that no plan is stuck (`NeverStuck`) and every plan ends (`PlanEnds`), and that `PlanBuild` implements `InstallService` |

Why the bounds are enough. Two nodes are what it takes for one node's sync to meet the
other's record, edit or deregistration. Two interfaces are the least with which a record
can be keyed and incomplete. Two plans with one fault reach every leftover of a failed
plan in the plan that follows; the run `retry` adds a third plan, a reinstallation and
two power losses, at one node, so that the leftovers of a retry, and of the first
installation, meet the second one. The proofs remove all these bounds for the safety
properties of `NodeInstall`.

In the backup runs one name is contained in another and one is apart from both; two rounds
make a node have something to prune, and the third one of `other` prunes after a prune that
failed half way. Names that overlap in a third one are not in the runs:
the theorems say which names are safe.

In the disk runs the third disk is n1's, n2's, both's, fencing or in
no model; n1 is installed with either version or reinstalled, with the disk marked shared or
not; and beside that it departs from the plain case in one respect at a time: the boot disk
known by name, the root volume group on two disks, every way to write the third disk's uuid
on both nodes and to learn it late, a disk missing, several paths to the boot disk. n2 is
plain, which loses nothing: the snippets of a node depend on the other one's items only
through their uuids. Four layouts of old volume groups put either group on either disk, and
`vg_root_data` beside `vg_root`.

In `nics` three cards are the least for a bond of two and another card; every combination of
the items with every use of each is an instance if it is legal, in ascending and in descending
order; a node without the boot network has at most two. Two edits take a card out of a bond and
put another in; two plans are what `OtherEditsDoNotMatter` compares. The sizes are both ends of
each unit, 20 G, and 931 M and 932 M, the last that is rounded up to one gigabyte and the first
to two; they vary for nodes with at most one interface, because nothing else depends on them.

In `plan` the deployments are: two nodes with a profile each, the second added by the edit; a
node with disks; a node that boots as soon as it is registered, where the network's items have
tasks of their own; a node with disks none of which bears a name of the root volume group; and
every deployment of two nodes that fails one of the checks, in every combination. One failed
plan and the one after it are what the properties about leftovers need; an edit may come
before the first plan or between the two. Longer histories are the theorems' part.

Deadlock is not checked (`CHECK_DEADLOCK FALSE`) because plans, rounds and faults are
bounded and an operator may stop using the system; a plan that is stuck is what `live` and
`PlanEnds` are for.

Fairness of `NodeInstall` (`FairSpec`). Weak fairness of each node's command (the RPC's timeout bounds it),
of the two polling loops (they are loops with a sleep), and of the steps by which LITP
starts what may start and ends a plan with nothing left to run. Nothing is assumed of
machines, operator and faults: a plan must end although no machine boots.

Fairness of `PlanBuild`. Weak fairness of the tasks (LITP starts what is ready, Puppet and
Cobbler end), of the timeouts of the two waits, of the failure of a snippet without root disks
(it is not an accident: the text cannot be made), and of the end of a plan that is over.
Nothing is assumed of machines and operator. A requirement that nothing provides, or a cycle of
requirements, makes `PlanEnds` fail.

### What was found

* `xinetd`: two nodes that are deregistered at the same time. The trigger of one sync has
  seen a system, the other one removes it, sees none and stops xinetd, and the first one
  starts xinetd again: no system is registered and xinetd runs, against the trigger's
  docstring. It assumes that the two syncs overlap, that is, that tasks of different nodes
  are concurrent and cobblerd does not serialise syncs.
* `backup_names`: the register task of `node1` counts and removes backups of `node10`,
  even the only one, because of the substring test.
* `disks_late`: a shared disk whose uuid is filled in by the plan is unknown to the bootloader
  snippet made for that plan, and is zeroed.
* `disks_serial`: the test for a serial number already in the list is a search of its text.
* `disk_size`: `convert_to_gigabytes` makes 1000 GiB of 1 T, `_convert_to_mb` 1024 GiB, so the
  image of a disk given in T is too small for its partitions, where the docstring says
  "gigabytes equivalent to gibibytes". (A size in M is taken for a thousandth of one in G, which
  makes the image a little larger than it has to be. `ImageFits` has what is true of M and G.)

One more divergence from a text, without a run of its own: the docstring of `validate_model`
lists "All nodes that have to be PXE booted need to have a network with the same name" as the
management network among what is validated, and no check looks at it. A node without it is
accepted, planned and registered with no card; `BootsFromItsNetwork` says so of such nodes.

Seen while modelling, where no text of the repository says otherwise, so that no run is
expected to fail; the properties say for which cases they hold:

* Two spellings of one shared disk's uuid: the plugin counts uuids with regard to case, the
  shell matches without, and the disk is zeroed. `ForeignDisksKept` is about disks that all
  items write alike (`AgreedOn`).
* A reinstallation removes, with `vg_root`, every volume group whose name contains that name,
  also from disks it is to keep. `ReinstallKeepsData` is about the other groups.
* The register tasks require the kickstart tasks only if there are equally many of both, and
  the tasks of an imported profile are counted with the register tasks. In a plan that imports
  a profile a machine that boots the moment it is registered may find an old kickstart;
  `CurrentKickstart` is about the other plans. Machines that LITP starts are not concerned: the
  wait for PXE, and so the start, comes after all tasks of the service.
* `_new_ms_network_status` asks for the state of the network's items only. If another plugin's
  tasks make them Applied in a plan that fails before Cobbler is configured, the address range
  is not updated by the next plan (`site.own`).
* A profile that was imported by a plan that then failed is still Initial, so an edit of it is
  neither refused (`_validate_os_profile` looks at Updated profiles) nor carried out (Puppet does
  not import what is there): nodes are installed from the old distro, in that plan and in all
  later ones. `ServedIsModelled` and `InstalledFromModel` are about the other profiles.
* With rhel6 the bootloader snippet comes first in `%pre`: when a disk is missing, all other disks
  of the node have been zeroed before the partition snippet notices. `MissingDiskStops` claims for
  rhel6 that the boot disk is not erased and that the installation ends.
* Only the boot disk is handed to Anaconda, so a root volume group of two disks is laid out on one
  Anaconda ignores; `Install` stops there. Of two comments in the code the one where the disks
  are written out says the same, an older one further up still speaks of all private disks.
* `_validate_boot_mode_on_cloud` dereferences the system of a node without one
  (`ValidateRaises`): the model is refused by an exception and not by the message of
  `_validate_system_exists`.
* A name that overlaps with another in a third one may lose its only backup (`AnamonBackup`).

## 4. Proofs

`NodeInstallProofs` proves, for every finite or infinite set of nodes, every number of
interfaces and all bounds:

* `Invariance`: `Spec => []IInv`, and from it `TypeCorrect`, `FreshPxeHolds`,
  `Reinstalled`, `Deregistered`, `Bootability` and `RetryAccepted`;
* `Implementation`: `Spec => ImplementsInstallService`;
* `StopsIfApart`: `Spec => XinetdStopsIfApart`, and `StopsForOne`: with one node
  `Spec => []XinetdStopsWithLastSystem`, because then nothing can overlap.

The only assumptions are those on the constants (`NIfacesAssumption`,
`MaxResetsAssumption`, `BoundsAssumption`), which TLC evaluates in the runs.

The properties are not inductive. `IInv` adds what keeps them:

* `TaskJob`: which commands a task can be at; in particular no command is in progress for
  a node that waits or is Applied, so nothing but its own tasks and its machine changes it;
* `Boots`: a comment stands for a boot since the record was added, because the removal
  drops the comment and the registration adds the record anew; a machine past its wipe has
  no old system, which is why the order in `%pre` matters;
* `Records`: how complete the record is at each command. `published` at the end of the
  register task is `Full`, because every later sync publishes the same record;
* `Phases`: while a node registers no other node waits or deregisters, and whichever syncs
  are running were asked for by nodes with a record;
* `XinetdUp`: no sync that has seen an empty list is on its way to stop xinetd while a node
  registers or waits to boot. Together with `Phases` this is why the race of run `xinetd`
  is harmless to a node that has still to boot.

Each action has its lemma with a step for each conjunct; `StepInv` puts them together. For
the refinement each action is mapped to a step of `InstallService` or to a stutter.

`XinetdStopsWithLastSystem` is false with two nodes (run `xinetd`), so what is proved is the
condition under which it holds: `XinetdStopsIfApart` has the premise `[]SyncsApart`, that no two
syncs are between their trigger and their last write at a time. `XinetdInv` is kept by every step
between two states of which that is true: xinetd is down when every node is installed, as far as
its tasks go; a deregistration's sync that is about to start xinetd has seen another node that
is not; one that is past the trigger has stopped xinetd, unless there is such a node. The premise is not empty: the mutant of that property is
refuted by a behaviour that satisfies it. With the run `xinetd` this says that overlapping
syncs, and nothing else, neither faults nor strays, leave the service up.

`PlanBuildProofs` proves, for any nodes, profiles, deployments and bounds, `Invariance` and from
it `TypeCorrect`, `Buildable`, `ConfigureIsPlanned`, `RegistrationsArePrepared`,
`DistrosAreModelled`, `InstallsAreCurrent`, `KickstartsAreCurrent`, `TasksComeFree` and
`Implementation`. `Nodes` has to be finite
(`PlanNodesAssumption`), because the code counts tasks. The inductive invariant:

* `PlanIsCurrent`: while a plan runs it is the one `create_configuration` would make now, since
  items change only between plans;
* `Effects`: what the tasks done so far have done is as the model has it;
* `Served`: how a profile's state, its version and the distro in Cobbler go together. This is
  where a failed plan leaves its mark: an Initial profile may already be imported, and if it is
  edited then (`unseen`) nothing is claimed of its distro any more;
* `Settings`: the service stays new until Cobbler is configured, from which `ConfigureAtHand`
  follows, and the network until it is configured as the network is now, unless `site.own`;
* `Installs`: a node that boots after its registration finds only current files, because a
  machine is started when all the service's tasks are done.

`TasksComeFree` is the part of `PlanEnds` that can be proved, that tasks never wait for one
another in a circle or for what no task provides. What may hold a task back comes in layers,
`cobbler::configure`, distros and files, profiles, registrations, waits for PXE, waits for
nodes; if no task can run, each layer is done, hence the next. The first layer is not in every
plan: there the argument is `Settings`. That a task which can run ends is the fairness TLC
assumes.

`Implementation` needs one fact more (`Waits`): a node that has been waited for was seen booting
and is registered no more, which stays so because no registration is repeated within a plan.
A node that becomes Applied, in a plan that failed as well, has had both waits done, since a
plan has them for every node that is not Applied (`PlanIsCurrent`).

`KickstartDisksProofs` proves, for any set of nodes and disks and any deployment that is
`WellFormed`: `TypeCorrect`, `ForeignKept`, `MissingStops`, the action property `DataKept`,
and `OwnErased` under the assumption `PartOf = {}`, that no serial number is a part of another
(run `disks_serial` shows what happens otherwise). The invariant says what an installation
knows at each stage, in the order of either kickstart (`PastChecks`, `PastMatch`, `PastScan`):
past the checks every disk it looks for is there, past the match the boot disk is (`Looked`);
neither the
array of disks to zero nor what has been erased has a foreign disk (`ForeignSpared`); every own
disk the scan has seen is in the array or erased (`ScannedInTurn`, `OwnZeroed`).

`AnamonBackupProofs` proves, for any nodes, names, rounds and faults: `TypeCorrect`,
`NewestStays` and `OneIsLeft`. What a task removes is out of date: a newer backup has been made
that its listing would show (`Outdated`). Of all that were ever made for a name that leads, the
newest is never out of date, so it is still there (`Kept`). For a name that is apart, what a
task has yet to remove is all of the node's backups but the last one (`OwnPruned`).

`NicResolutionProofs` proves, for any interfaces, any order of them and any number of edits and
plans: `TypeCorrect`, `Resolvable`, `BootCard`, `UdevNames`, the action property
`EditsDoNotMatter`, and `ImagesFit`. The invariant (`Invariance`) is that what is
registered is a function of what mattered: `record = RecordOf(seen, disk)` (`RecordKept`),
where the items of `seen` have names and addresses of their own (`SeenOK`). Behind it is one lemma,
`FoundIsRecordOf`: in a legal model from which nothing on the way to the card is being removed
(`Sound`), the three walks of the code end where the references lead. It comes from `CardOfIsLeast`, that a walk, whichever of
bridge, VLAN and bond it passes, ends at the least card below the item it starts from, and
`PathNics`, that the cards below the boot network's item are those of `BootPath`. Names being
unique, the first item in LITP's order is then the only one, and the order drops out.
`ImagesFit` adds the arithmetic for every size of the width (`ImageFitsM`, `ImageFitsG`).

All assumptions are named `ASSUME`s of the modules, on the constants only (and `PartOf = {}` in
the theorem that needs it); TLC evaluates them in the runs.

Only model-checked: liveness (`PlanTerminates`, `PlanEnds`), which is out of the prover's reach.
Every invariant and action property of the passing runs, and both refinements, are proved;
`XinetdStopsWithLastSystem` for one node, and under `SyncsApart` for any number.

## 5. What is not modelled

* wording, logging, keyboard, locale and time zone look-up, kernel options, packages, `%post`
  commands: data that no state depends on;
* manifests and settings templates but for the resources `PlanBuild` has, the ssh module,
  packaging, SELinux policy, acceptance tests: declarative, or not part of the program;
* the Puppet providers: third-party (puppet-cobbler). Importing a distro and making a profile
  are modelled as the plugin uses them; systems are not registered through them, and repos
  have no operation in the plugin;
* file systems and the boot partition's layout in the partition snippet: data. The sums of
  sizes in it are not checked against the disk;
* sizes that do not match the item type's pattern (the default of `convert_to_gigabytes`), and
  sizes beyond the width of `VirtualDisk`;
* exact times (3600 s for the node, `pxe_boot_timeout`): any poll may time out;
* a node that is removed from the model while a plan runs: LITP forbids it.

## 6. Plan

Done: all modules above. What could still be added:

1. `PlanBuild` with `NodeInstall` in place of its one step for a registration, and a refinement
   between the two: `PlanBuild` would be the abstract specification of a deployment's plan.
2. An abstract specification of what an installation does to the disks it sees, implemented by
   `KickstartDisks` snippet by snippet, and by the one step for wiping in `NodeMachine`.
3. Removal of nodes and interfaces across plans (`ForRemoval`), if other plugins' validation
   were at hand.
