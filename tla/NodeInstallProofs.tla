-------------------------- MODULE NodeInstallProofs --------------------------
(***************************************************************************)
(* Proofs about NodeInstall, for any set of nodes, any number of           *)
(* interfaces and any bounds.                                              *)
(*                                                                         *)
(* IInv is inductive: InitInv, one lemma for each action, and StepInv for  *)
(* all of them.  The safety properties follow from it, state by state.     *)
(* Then every step of NodeInstall is shown to be a step of InstallService  *)
(* or to leave its variables alone, and last comes what it takes for       *)
(* xinetd to stop, which two syncs at a time may prevent.                  *)
(***************************************************************************)
EXTENDS NodeInstall, TLAPS

\* StartPlan: No command of an earlier plan is in progress, so the new tasks
\* start alone.
LEMMA StartPlanStep ==
    ASSUME IInv, StartPlan
    PROVE  IInv'
<1>1. TypeOK'
  BY BoundsAssumption DEF IInv, TypeOK, CobblerTypeOK, MachineTypeOK,
     StartPlan, cobblerVars, machineVars, Tasks, Active, Jobs
<1>2. TaskJob'
  BY DEF IInv, TaskJob, StartPlan, NewStates, NewNodeSystems
<1>3. Boots'
  BY DEF IInv, Boots, StartPlan, cobblerVars, machineVars
<1>4. Records'
  BY DEF IInv, Records, RecordAt, StartPlan, cobblerVars, SyncJobs
<1>5. Phases'
  BY DEF IInv, Phases, StartPlan, SyncJobs
<1>6. XinetdUp'
  BY DEF IInv, XinetdUp, StartPlan
<1>. QED
  BY <1>1, <1>2, <1>3, <1>4, <1>5, <1>6 DEF IInv

\* StopPlan: A stop changes nothing but is_running().
LEMMA StopPlanStep ==
    ASSUME IInv, StopPlan
    PROVE  IInv'
<1>1. TypeOK'
  BY DEF IInv, TypeOK, CobblerTypeOK, MachineTypeOK, StopPlan, cobblerVars,
     machineVars, counters
<1>2. TaskJob'
  BY DEF IInv, TaskJob, StopPlan
<1>3. Boots'
  BY DEF IInv, Boots, StopPlan, cobblerVars, machineVars
<1>4. Records'
  BY DEF IInv, Records, RecordAt, StopPlan, cobblerVars
<1>5. Phases'
  BY DEF IInv, Phases, StopPlan, cobblerVars
<1>6. XinetdUp'
  BY DEF IInv, XinetdUp, StopPlan, cobblerVars
<1>. QED
  BY <1>1, <1>2, <1>3, <1>4, <1>5, <1>6 DEF IInv

\* OpenWaits: Every planned node is registered when the waits begin.
LEMMA OpenWaitsStep ==
    ASSUME IInv, OpenWaits
    PROVE  IInv'
<1>1. TypeOK'
  BY DEF IInv, TypeOK, CobblerTypeOK, MachineTypeOK, OpenWaits, cobblerVars,
     machineVars, counters, Tasks, Active
<1>2. TaskJob'
  BY DEF IInv, TaskJob, OpenWaits
<1>3. Boots'
  BY DEF IInv, Boots, OpenWaits, cobblerVars, machineVars
<1>4. Records'
  BY DEF IInv, Records, RecordAt, OpenWaits, cobblerVars
<1>5. Phases'
  BY DEF IInv, Phases, OpenWaits
<1>6. XinetdUp'
  BY DEF IInv, XinetdUp, OpenWaits, cobblerVars
<1>. QED
  BY <1>1, <1>2, <1>3, <1>4, <1>5, <1>6 DEF IInv

\* EndPlan: Nodes that are done become Applied.
LEMMA EndPlanStep ==
    ASSUME IInv, EndPlan
    PROVE  IInv'
<1>1. TypeOK'
  BY DEF IInv, TypeOK, CobblerTypeOK, MachineTypeOK, EndPlan, cobblerVars,
     machineVars, counters, Tasks, NewStates
<1>2. TaskJob'
  BY DEF IInv, TaskJob, EndPlan
<1>3. Boots'
  BY DEF IInv, Boots, EndPlan, cobblerVars, machineVars
<1>4. Records'
  BY DEF IInv, Records, RecordAt, EndPlan, cobblerVars
<1>5. Phases'
  BY DEF IInv, Phases, EndPlan
<1>6. XinetdUp'
  BY DEF IInv, XinetdUp, EndPlan
<1>. QED
  BY <1>1, <1>2, <1>3, <1>4, <1>5, <1>6 DEF IInv

\* CobblerdRestarts: A restart only loses comments.
LEMMA CobblerdRestartsStep ==
    ASSUME IInv, CobblerdRestarts
    PROVE  IInv'
<1>1. TypeOK'
  BY BoundsAssumption DEF IInv, TypeOK, CobblerTypeOK, MachineTypeOK,
     CobblerdRestarts, RestartCobblerd, machineVars
<1>2. TaskJob'
  BY DEF IInv, TaskJob, CobblerdRestarts
<1>3. Boots'
  BY DEF IInv, Boots, CobblerdRestarts, RestartCobblerd, machineVars
<1>4. Records'
  BY DEF IInv, Records, RecordAt, CobblerdRestarts, RestartCobblerd
<1>5. Phases'
  BY DEF IInv, Phases, CobblerdRestarts, RestartCobblerd
<1>6. XinetdUp'
  BY DEF IInv, XinetdUp, CobblerdRestarts, RestartCobblerd
<1>. QED
  BY <1>1, <1>2, <1>3, <1>4, <1>5, <1>6 DEF IInv

\* RequestReinstall: A request concerns an idle, deregistered node.
LEMMA RequestReinstallStep ==
    ASSUME IInv, NEW n \in Nodes, RequestReinstall(n)
    PROVE  IInv'
<1>1. TypeOK'
  BY BoundsAssumption DEF IInv, TypeOK, CobblerTypeOK, MachineTypeOK,
     RequestReinstall, cobblerVars, machineVars, NewStates
<1>2. TaskJob'
  BY DEF IInv, TaskJob, RequestReinstall
<1>3. Boots'
  BY DEF IInv, Boots, RequestReinstall, cobblerVars, machineVars
<1>4. Records'
  BY DEF IInv, Records, RecordAt, RequestReinstall, cobblerVars
<1>5. Phases'
  BY DEF IInv, Phases, RequestReinstall, cobblerVars
<1>6. XinetdUp'
  BY DEF IInv, XinetdUp, RequestReinstall, cobblerVars
<1>. QED
  BY <1>1, <1>2, <1>3, <1>4, <1>5, <1>6 DEF IInv

\* Backup: The backup leaves Cobbler alone.
LEMMA BackupStep ==
    ASSUME IInv, NEW n \in Nodes, Backup(n)
    PROVE  IInv'
<1>1. TypeOK'
  BY DEF IInv, TypeOK, CobblerTypeOK, MachineTypeOK, Backup, Then,
     cobblerVars, machineVars, counters, Jobs
<1>2. TaskJob'
  BY DEF IInv, TaskJob, Backup, Then, SyncJobs
<1>3. Boots'
  BY DEF IInv, Boots, Backup, cobblerVars, machineVars
<1>4. Records'
  BY DEF IInv, Records, RecordAt, Backup, Then, cobblerVars, SyncJobs
<1>5. Phases'
  BY DEF IInv, Phases, Backup, Then, cobblerVars, SyncJobs
<1>6. XinetdUp'
  BY DEF IInv, XinetdUp, Backup, Then, cobblerVars
<1>. QED
  BY <1>1, <1>2, <1>3, <1>4, <1>5, <1>6 DEF IInv

\* Remove: The record goes, and its comment with it.
LEMMA RemoveStep ==
    ASSUME IInv, NEW n \in Nodes, Remove(n)
    PROVE  IInv'
<1>1. TypeOK'
  BY NIfacesAssumption DEF IInv, TypeOK, CobblerTypeOK, MachineTypeOK,
     Remove, Then, RemoveSystem, SetRecord, machineVars, counters, Levels,
     Absent, Full, Jobs, SyncJobs
<1>2. TaskJob'
  BY DEF IInv, TypeOK, TaskJob, Remove, Then, SyncJobs
<1>3. Boots'
  BY DEF IInv, TypeOK, CobblerTypeOK, Boots, Remove, RemoveSystem, SetRecord,
     machineVars
<1>4. Records'
  BY DEF IInv, TypeOK, CobblerTypeOK, TaskJob, Records, RecordAt, Remove,
     Then, RemoveSystem, SetRecord, SyncJobs
<1>5. Phases'
  BY DEF IInv, TypeOK, Phases, Remove, Then, RemoveSystem, SetRecord,
     SyncJobs
<1>6. XinetdUp'
  BY DEF IInv, TypeOK, XinetdUp, Remove, Then, RemoveSystem, SetRecord
<1>. QED
  BY <1>1, <1>2, <1>3, <1>4, <1>5, <1>6 DEF IInv

\* Add: The record begins, and the history of its boots begins anew.
LEMMA AddStep ==
    ASSUME IInv, NEW n \in Nodes, Add(n)
    PROVE  IInv'
<1>1. TypeOK'
  BY NIfacesAssumption DEF IInv, TypeOK, CobblerTypeOK, MachineTypeOK, Add,
     Then, AddSystem, SetRecord, ForgetInstall, counters, Levels, Absent,
     Added, Full, Installed, Jobs
<1>2. TaskJob'
  BY DEF IInv, TaskJob, Add, Then, SyncJobs
<1>3. Boots'
  BY DEF IInv, TypeOK, MachineTypeOK, TaskJob, Boots, Add, AddSystem,
     SetRecord, ForgetInstall, SyncJobs
<1>4. Records'
  BY NIfacesAssumption DEF IInv, TypeOK, CobblerTypeOK, TaskJob, Records,
     RecordAt, Add, Then, AddSystem, SetRecord, Added, SyncJobs
<1>5. Phases'
  BY DEF IInv, Phases, Add, Then, AddSystem, SetRecord, SyncJobs
<1>6. XinetdUp'
  BY DEF IInv, XinetdUp, Add, Then, AddSystem, SetRecord
<1>. QED
  BY <1>1, <1>2, <1>3, <1>4, <1>5, <1>6 DEF IInv

\* Edit: The record grows by one interface with every edit; it is complete
\* when the loop ends.
LEMMA EditStep ==
    ASSUME IInv, NEW n \in Nodes, Edit(n)
    PROVE  IInv'
<1>1. TypeOK'
  BY NIfacesAssumption DEF IInv, TypeOK, CobblerTypeOK, MachineTypeOK,
     Records, RecordAt, Edit, Further, Then, EditSystem, SetRecord,
     machineVars, counters, Levels, Absent, Full, Jobs, SyncJobs
<1>2. TaskJob'
  BY DEF IInv, TaskJob, Edit, Then, SyncJobs
<1>3. Boots'
  BY NIfacesAssumption DEF IInv, TypeOK, Boots, Records, RecordAt, Edit,
     Further, EditSystem, SetRecord, machineVars, Absent, Full
<1>4. Records'
  <2>1. /\ n \in DOMAIN record /\ n \in DOMAIN edits /\ n \in DOMAIN job
        /\ edits[n] \in Nat /\ NIfaces \in Nat
        /\ record[n] = edits[n] + 1 /\ edits[n] < NIfaces
    BY NIfacesAssumption
       DEF IInv, TypeOK, CobblerTypeOK, Records, RecordAt, Edit
  <2>2. Further(record[n]) = edits[n] + 2
    BY <2>1 DEF Further, Full
  <2>3. record'[n] = edits[n] + 2
    BY <2>1, <2>2 DEF Edit, EditSystem, SetRecord
  <2>4. edits'[n] = edits[n] + 1 /\ UNCHANGED <<task, sysState>>
    BY <2>1 DEF Edit
  <2>5. job'[n] = IF task[n] # "register" THEN "idle"
                  ELSE IF edits[n] + 1 < NIfaces THEN "edit" ELSE "syncRead"
    BY <2>1 DEF Edit, Then
  <2>6. /\ task[n] \notin {"dereg", "registered", "pxe", "done"}
        /\ sysState[n] # "Applied"
    BY DEF IInv, TaskJob, Edit, SyncJobs
  <2>7. RecordAt(n)'
    BY <2>1, <2>3, <2>4, <2>5, <2>6 DEF RecordAt, Full, SyncJobs
  <2>8. \A m \in Nodes \ {n} : RecordAt(m)'
    BY DEF IInv, TypeOK, CobblerTypeOK, Records, RecordAt, Edit, Then,
           EditSystem, SetRecord
  <2>. QED
    BY <2>7, <2>8 DEF Records
<1>5. Phases'
  BY NIfacesAssumption DEF IInv, TypeOK, Records, RecordAt, Phases, Edit,
     Further, Then, EditSystem, SetRecord, Absent, Full
<1>6. XinetdUp'
  BY DEF IInv, XinetdUp, Edit, Then, EditSystem, SetRecord
<1>. QED
  BY <1>1, <1>2, <1>3, <1>4, <1>5, <1>6 DEF IInv

\* SyncRead: A registering node has a record, so its sync, or that of another
\* meanwhile, does not see an empty list.
LEMMA SyncReadStep ==
    ASSUME IInv, NEW n \in Nodes, SyncRead(n)
    PROVE  IInv'
<1>1. TypeOK'
  BY DEF IInv, TypeOK, CobblerTypeOK, MachineTypeOK, SyncRead, cobblerVars,
     machineVars, counters, Jobs, SyncJobs
<1>2. TaskJob'
  BY DEF IInv, TaskJob, SyncRead, SyncJobs
<1>3. Boots'
  BY DEF IInv, Boots, SyncRead, cobblerVars, machineVars
<1>4. Records'
  BY DEF IInv, Records, RecordAt, SyncRead, cobblerVars, SyncJobs
<1>5. Phases'
  BY DEF IInv, Phases, SyncRead, cobblerVars, SyncJobs
<1>6. XinetdUp'
  BY NIfacesAssumption DEF IInv, Records, RecordAt, Phases, XinetdUp,
     SyncRead, Systems, cobblerVars, Absent, Full, SyncJobs
<1>. QED
  BY <1>1, <1>2, <1>3, <1>4, <1>5, <1>6 DEF IInv

\* SyncXinetd: xinetd stops under no node that needs it.
LEMMA SyncXinetdStep ==
    ASSUME IInv, NEW n \in Nodes, SyncXinetd(n)
    PROVE  IInv'
<1>1. TypeOK'
  <2>1. xinetd' \in BOOLEAN /\ job' \in [Nodes -> Jobs]
    BY DEF IInv, TypeOK, SyncXinetd, StartXinetd, StopXinetd, Jobs, SyncJobs
  <2>. QED
    BY <2>1 DEF IInv, TypeOK, CobblerTypeOK, MachineTypeOK, SyncXinetd,
       StartXinetd, StopXinetd, machineVars, counters
<1>2. TaskJob'
  BY DEF IInv, TaskJob, SyncXinetd, SyncJobs
<1>3. Boots'
  BY DEF IInv, Boots, SyncXinetd, StartXinetd, StopXinetd, machineVars
<1>4. Records'
  BY DEF IInv, Records, RecordAt, SyncXinetd, StartXinetd, StopXinetd,
     SyncJobs
<1>5. Phases'
  BY DEF IInv, Phases, SyncXinetd, StartXinetd, StopXinetd, SyncJobs
<1>6. XinetdUp'
  BY DEF IInv, XinetdUp, SyncXinetd, StartXinetd
<1>. QED
  BY <1>1, <1>2, <1>3, <1>4, <1>5, <1>6 DEF IInv

\* SyncPublish: What is published is what the records are.
LEMMA SyncPublishStep ==
    ASSUME IInv, NEW n \in Nodes, SyncPublish(n)
    PROVE  IInv'
<1>1. TypeOK'
  BY DEF IInv, TypeOK, CobblerTypeOK, MachineTypeOK, SyncPublish,
     PublishSystems, machineVars, counters, Tasks, Jobs
<1>2. TaskJob'
  BY DEF IInv, TypeOK, TaskJob, SyncPublish
<1>3. Boots'
  BY DEF IInv, Boots, SyncPublish, PublishSystems, machineVars
<1>4. Records'
  BY DEF IInv, Records, RecordAt, SyncPublish, PublishSystems, SyncJobs
<1>5. Phases'
  BY DEF IInv, Phases, SyncPublish, PublishSystems, SyncJobs
<1>6. XinetdUp'
  BY DEF IInv, XinetdUp, SyncPublish, PublishSystems
<1>. QED
  BY <1>1, <1>2, <1>3, <1>4, <1>5, <1>6 DEF IInv

\* CallFails: A failed task keeps its command or loses it.
LEMMA CallFailsStep ==
    ASSUME IInv, NEW n \in Nodes, CallFails(n)
    PROVE  IInv'
<1>1. TypeOK'
  BY BoundsAssumption DEF IInv, TypeOK, CobblerTypeOK, MachineTypeOK,
     CallFails, cobblerVars, machineVars, Tasks, Jobs
<1>2. TaskJob'
  BY DEF IInv, TypeOK, TaskJob, CallFails
<1>3. Boots'
  BY DEF IInv, Boots, CallFails, cobblerVars, machineVars
<1>4. Records'
  BY DEF IInv, TypeOK, Records, RecordAt, CallFails, cobblerVars
<1>5. Phases'
  BY DEF IInv, TypeOK, Phases, CallFails, cobblerVars, SyncJobs
<1>6. XinetdUp'
  BY DEF IInv, TypeOK, XinetdUp, CallFails, cobblerVars
<1>. QED
  BY <1>1, <1>2, <1>3, <1>4, <1>5, <1>6 DEF IInv

\* XinetdFails: A trigger that fails ends the sync and the task.
LEMMA XinetdFailsStep ==
    ASSUME IInv, NEW n \in Nodes, XinetdFails(n)
    PROVE  IInv'
<1>1. TypeOK'
  BY BoundsAssumption DEF IInv, TypeOK, CobblerTypeOK, MachineTypeOK,
     XinetdFails, cobblerVars, machineVars, Tasks, Jobs
<1>2. TaskJob'
  BY DEF IInv, TypeOK, TaskJob, XinetdFails, Active
<1>3. Boots'
  BY DEF IInv, Boots, XinetdFails, cobblerVars, machineVars
<1>4. Records'
  BY DEF IInv, Records, RecordAt, XinetdFails, cobblerVars, SyncJobs
<1>5. Phases'
  BY DEF IInv, Phases, XinetdFails, cobblerVars, SyncJobs
<1>6. XinetdUp'
  BY DEF IInv, XinetdUp, XinetdFails
<1>. QED
  BY <1>1, <1>2, <1>3, <1>4, <1>5, <1>6 DEF IInv

\* PxeWait: The poll succeeds on a comment, and a comment stands for a boot.
LEMMA PxeWaitStep ==
    ASSUME IInv, NEW n \in Nodes, PxeWait(n)
    PROVE  IInv'
<1>1. TypeOK'
  BY DEF IInv, TypeOK, CobblerTypeOK, MachineTypeOK, PxeWait, PxeBooted,
     PxeStopped, PxeTimeout, TaskSteps, cobblerVars, machineVars, counters,
     Tasks
<1>2. TaskJob'
  BY DEF IInv, TypeOK, TaskJob, PxeWait, PxeBooted, PxeStopped, PxeTimeout,
     TaskSteps
<1>3. Boots'
  BY DEF IInv, TypeOK, Boots, PxeWait, PxeBooted, PxeStopped, PxeTimeout,
     TaskSteps, HasPxeCompleted, cobblerVars, machineVars
<1>4. Records'
  BY DEF IInv, TypeOK, Records, RecordAt, PxeWait, PxeBooted, PxeStopped,
     PxeTimeout, TaskSteps, cobblerVars
<1>5. Phases'
  BY DEF IInv, TypeOK, Phases, PxeWait, PxeBooted, PxeStopped, PxeTimeout,
     TaskSteps
<1>6. XinetdUp'
  BY DEF IInv, XinetdUp, PxeWait, PxeBooted, PxeStopped, PxeTimeout,
     TaskSteps, cobblerVars
<1>. QED
  BY <1>1, <1>2, <1>3, <1>4, <1>5, <1>6 DEF IInv

\* StartNodeWait: The second wait starts where the first has succeeded.
LEMMA StartNodeWaitStep ==
    ASSUME IInv, NEW n \in Nodes, StartNodeWait(n)
    PROVE  IInv'
<1>1. TypeOK'
  BY DEF IInv, TypeOK, CobblerTypeOK, MachineTypeOK, StartNodeWait,
     TaskSteps, cobblerVars, machineVars, counters, Tasks, Active
<1>2. TaskJob'
  BY DEF IInv, TaskJob, StartNodeWait, TaskSteps
<1>3. Boots'
  BY DEF IInv, Boots, StartNodeWait, TaskSteps, cobblerVars, machineVars
<1>4. Records'
  BY DEF IInv, Records, RecordAt, StartNodeWait, TaskSteps, cobblerVars
<1>5. Phases'
  BY DEF IInv, Phases, StartNodeWait, TaskSteps
<1>6. XinetdUp'
  BY DEF IInv, XinetdUp, StartNodeWait, TaskSteps, cobblerVars
<1>. QED
  BY <1>1, <1>2, <1>3, <1>4, <1>5, <1>6 DEF IInv

\* NodeWait: A node that answers goes on to its deregistration.
LEMMA NodeWaitStep ==
    ASSUME IInv, NEW n \in Nodes, NodeWait(n)
    PROVE  IInv'
<1>1. TypeOK'
  BY DEF IInv, TypeOK, CobblerTypeOK, MachineTypeOK, NodeWait, NodeUp,
     NodeStopped, NodeTimeout, TaskSteps, cobblerVars, machineVars, counters,
     Tasks, Active, Jobs
<1>2. TaskJob'
  BY DEF IInv, TypeOK, TaskJob, NodeWait, NodeUp, NodeStopped, NodeTimeout,
     TaskSteps
<1>3. Boots'
  BY DEF IInv, TypeOK, Boots, NodeWait, NodeUp, NodeStopped, NodeTimeout,
     TaskSteps, cobblerVars, machineVars
<1>4. Records'
  BY DEF IInv, TypeOK, Records, RecordAt, NodeWait, NodeUp, NodeStopped,
     NodeTimeout, TaskSteps, cobblerVars, SyncJobs
<1>5. Phases'
  BY DEF IInv, TypeOK, Phases, NodeWait, NodeUp, NodeStopped, NodeTimeout,
     TaskSteps
<1>6. XinetdUp'
  BY DEF IInv, TypeOK, XinetdUp, NodeWait, NodeUp, NodeStopped, NodeTimeout,
     TaskSteps, cobblerVars
<1>. QED
  BY <1>1, <1>2, <1>3, <1>4, <1>5, <1>6 DEF IInv

\* Machine: The machines change no record; the trigger comes after the wipe.
LEMMA MachineStepInv ==
    ASSUME IInv, NEW n \in Nodes, Machine(n)
    PROVE  IInv'
<1>1. UNCHANGED <<record, published, xinetd, plan, task, job, edits, sysState, counters>>
  BY DEF Machine, MachineStep, PowerOff, BootDisk, NetBoot, FetchKickstart,
         WipeDisks, PreTrigger, FinishInstall, SetComment, cobblerVars
<1>2. TypeOK'
  <2>1. comment' \in [Nodes -> BOOLEAN]
    <3>1. CASE PreTrigger(n)
      <4>1. comment' = [comment EXCEPT ![n] = comment[n] \/ record[n] # Absent]
        BY <3>1 DEF PreTrigger, SetComment
      <4>2. (comment[n] \/ record[n] # Absent) \in BOOLEAN
        OBVIOUS
      <4>3. comment \in [Nodes -> BOOLEAN]
        BY DEF IInv, TypeOK, CobblerTypeOK
      <4>. QED
        BY <4>1, <4>2, <4>3, Zenon
    <3>2. CASE ~PreTrigger(n)
      BY <3>2
         DEF IInv, TypeOK, CobblerTypeOK, Machine, MachineStep, PowerOff,
             BootDisk, NetBoot, FetchKickstart, WipeDisks, FinishInstall,
             cobblerVars
    <3>. QED
      BY <3>1, <3>2
  <2>5. resets' \in 0 .. MaxResets
    BY MaxResetsAssumption
       DEF IInv, TypeOK, MachineTypeOK, Machine, MachineStep, PowerOff,
           BootDisk, NetBoot, FetchKickstart, WipeDisks, PreTrigger,
           FinishInstall
  <2>2. mach' \in [Nodes -> Stages]
    BY DEF IInv, TypeOK, MachineTypeOK, Machine, MachineStep, PowerOff,
           BootDisk, NetBoot, FetchKickstart, WipeDisks, PreTrigger,
           FinishInstall, Stages
  <2>3. ks' \in [Nodes -> Kickstarts] /\ os' \in [Nodes -> Installed]
    BY DEF IInv, TypeOK, MachineTypeOK, Machine, MachineStep, PowerOff,
           BootDisk, NetBoot, FetchKickstart, WipeDisks, PreTrigger,
           FinishInstall, Kickstarts, Installed
  <2>4. booted' \in [Nodes -> {"no"} \union Kickstarts]
    BY DEF IInv, TypeOK, MachineTypeOK, Machine, MachineStep, PowerOff,
           BootDisk, NetBoot, FetchKickstart, WipeDisks, PreTrigger,
           FinishInstall
  <2>. QED
    BY <1>1, <2>1, <2>2, <2>3, <2>4, <2>5
       DEF IInv, TypeOK, CobblerTypeOK, MachineTypeOK, counters
<1>3. Boots'
  <2>1. CASE PreTrigger(n)
    BY <1>1, <2>1
       DEF IInv, TypeOK, CobblerTypeOK, MachineTypeOK, Kickstarts, Boots,
           PreTrigger, CallsTrigger, SetComment
  <2>2. CASE FinishInstall(n)
    BY <1>1, <2>2
       DEF IInv, TypeOK, MachineTypeOK, Kickstarts, Boots, FinishInstall,
           cobblerVars
  <2>3. CASE WipeDisks(n) \/ FetchKickstart(n)
    BY <1>1, <2>3
       DEF IInv, TypeOK, MachineTypeOK, Boots, WipeDisks, FetchKickstart,
           cobblerVars
  <2>4. CASE PowerOff(n) \/ BootDisk(n) \/ NetBoot(n)
    BY <1>1, <2>4
       DEF IInv, TypeOK, MachineTypeOK, Boots, PowerOff, BootDisk, NetBoot,
           cobblerVars
  <2>. QED
    BY <2>1, <2>2, <2>3, <2>4 DEF Machine, MachineStep
<1>4. TaskJob' /\ Records' /\ Phases' /\ XinetdUp'
  BY <1>1 DEF IInv, TaskJob, Records, RecordAt, Phases, XinetdUp
<1>. QED
  BY <1>2, <1>3, <1>4 DEF IInv
-----------------------------------------------------------------------------
\* The invariant holds at first.
LEMMA InitInv == Init => IInv
<1>. SUFFICES ASSUME Init PROVE IInv
  OBVIOUS
<1>1. TypeOK
  BY NIfacesAssumption, BoundsAssumption, MaxResetsAssumption
     DEF Init, CobblerInit, MachineInit, TypeOK, CobblerTypeOK, MachineTypeOK,
         Levels, Absent, Full, Stages, Kickstarts, Installed, Tasks, Jobs,
         NewStates
<1>2. TaskJob
  BY DEF Init, TaskJob
<1>3. Boots
  BY DEF Init, CobblerInit, MachineInit, Boots
<1>4. Records
  BY DEF Init, Records, RecordAt
<1>5. Phases
  BY DEF Init, Phases
<1>6. XinetdUp
  BY DEF Init, XinetdUp
<1>. QED
  BY <1>1, <1>2, <1>3, <1>4, <1>5, <1>6 DEF IInv

\* A step that changes no variable changes no part of the invariant.
LEMMA StutterInv == IInv /\ UNCHANGED vars => IInv'
BY DEF vars, cobblerVars, machineVars, counters, IInv, TypeOK, CobblerTypeOK,
       MachineTypeOK, TaskJob, Boots, Records, RecordAt, Phases, XinetdUp

\* Every step keeps the invariant.
LEMMA StepInv == IInv /\ [Next]_vars => IInv'
<1>. SUFFICES ASSUME IInv, Next PROVE IInv'
  BY StutterInv
<1>1. CASE StartPlan \/ StopPlan \/ OpenWaits \/ EndPlan \/ CobblerdRestarts
  BY <1>1, StartPlanStep, StopPlanStep, OpenWaitsStep, EndPlanStep,
     CobblerdRestartsStep
<1>2. ASSUME NEW n \in Nodes, Command(n) PROVE IInv'
  BY <1>2, BackupStep, RemoveStep, AddStep, EditStep, SyncReadStep,
     SyncXinetdStep, SyncPublishStep DEF Command
<1>3. ASSUME NEW n \in Nodes, CallFails(n) \/ XinetdFails(n) PROVE IInv'
  BY <1>3, CallFailsStep, XinetdFailsStep
<1>4. ASSUME NEW n \in Nodes, PxeWait(n) \/ StartNodeWait(n) \/ NodeWait(n)
      PROVE  IInv'
  BY <1>4, PxeWaitStep, StartNodeWaitStep, NodeWaitStep
<1>5. ASSUME NEW n \in Nodes, RequestReinstall(n) \/ Machine(n) PROVE IInv'
  BY <1>5, RequestReinstallStep, MachineStepInv
<1>. QED
  BY <1>1, <1>2, <1>3, <1>4, <1>5 DEF Next

\* The inductive invariant holds in every state the plans can reach.
THEOREM Invariance == Spec => []IInv
BY InitInv, StepInv, PTL DEF Spec
-----------------------------------------------------------------------------
\* Every variable keeps its type.
THEOREM TypeCorrect == Spec => []TypeOK
<1>1. IInv => TypeOK
  BY DEF IInv
<1>. QED
  BY <1>1, Invariance, PTL

\* A wait for PXE that succeeds has seen a boot of this registration: the
\* record is new, and its comment stands for a call of the trigger.
THEOREM FreshPxeHolds == Spec => []FreshPxe
<1>1. IInv => FreshPxe
  BY DEF IInv, Boots, FreshPxe
<1>. QED
  BY <1>1, Invariance, PTL

\* A node that is done holds no system from before its registration: a boot
\* with the node's own kickstart has wiped it before the trigger was called.
THEOREM Reinstalled == Spec => []DoneMeansReinstalled
<1>1. IInv => DoneMeansReinstalled
  BY DEF IInv, TypeOK, MachineTypeOK, Kickstarts, Boots, DoneMeansReinstalled
<1>. QED
  BY <1>1, Invariance, PTL

\* An installed node has no record and is not served.
THEOREM Deregistered == Spec => []DoneMeansDeregistered
<1>1. IInv => DoneMeansDeregistered
  BY DEF IInv, Records, RecordAt, DoneMeansDeregistered
<1>. QED
  BY <1>1, Invariance, PTL

\* A registered node can boot until its wait for PXE is over.
THEOREM Bootability == Spec => []RegisteredMeansBootable
<1>1. IInv => RegisteredMeansBootable
  BY DEF IInv, Records, RecordAt, XinetdUp, RegisteredMeansBootable
<1>. QED
  BY <1>1, Invariance, PTL

\* Cobbler refuses no command of a retry.
THEOREM RetryAccepted == Spec => []RetryNeverRefused
<1>1. IInv => RetryNeverRefused
  <2>. SUFFICES ASSUME IInv, NEW n \in Nodes, job[n] = "edit"
                PROVE  record[n] # Absent
    BY DEF IInv, Records, RecordAt, RetryNeverRefused
  <2>. QED
    BY DEF IInv, TypeOK, Records, RecordAt, Absent
<1>. QED
  BY <1>1, Invariance, PTL
-----------------------------------------------------------------------------
(* NodeInstall implements InstallService.                                  *)

\* The abstract service starts where the plugin does: nothing is offered.
LEMMA ServiceInit == Init => IS!Init
BY DEF Init, CobblerInit, MachineInit, IS!Init, Offered, Fresh, Applied, Absent

\* A step that only takes offers back is a withdrawal of the difference.
LEMMA Withdrawal ==
    ASSUME Offered' \subseteq Offered, UNCHANGED <<Fresh, Applied>>
    PROVE  IS!Next
<1>. DEFINE S == Offered \ Offered'
<1>1. S \in SUBSET Nodes
  BY DEF Offered
<1>2. IS!Withdraw(S)
  BY DEF IS!Withdraw
<1>. QED
  BY <1>1, <1>2 DEF IS!Next

\* Records and boot files decide what is offered, the history of boots what
\* is fresh, the model's states what is applied.
LEMMA Mapping ==
    /\ UNCHANGED <<record, published>> => UNCHANGED Offered
    /\ UNCHANGED booted => UNCHANGED Fresh
    /\ UNCHANGED sysState => UNCHANGED Applied
BY DEF Offered, Fresh, Applied

\* The end of a plan acknowledges the nodes that are done: each has booted,
\* and none is offered an installation.
LEMMA EndPlanService ==
    ASSUME IInv, EndPlan
    PROVE  IS!Next
<1>. DEFINE S == {n \in Nodes : task[n] = "done"}
<1>1. S \subseteq Fresh \ Offered
  BY DEF IInv, Boots, Records, RecordAt, Fresh, Offered
<1>2. Applied' = Applied \union S
  <2>1. \A n \in Nodes : sysState[n] = "Applied" => task[n] = "idle"
    BY DEF IInv, TaskJob
  <2>2. \A n \in Nodes :
           sysState'[n] = "Applied" <=> task[n] = "done" \/ sysState[n] = "Applied"
    BY <2>1 DEF EndPlan
  <2>. QED
    BY <2>2 DEF Applied
<1>3. UNCHANGED <<Offered, Fresh>>
  BY Mapping DEF EndPlan, cobblerVars, machineVars
<1>4. S \in SUBSET Nodes /\ IS!Acknowledge(S)
  BY <1>1, <1>2, <1>3 DEF IS!Acknowledge
<1>. QED
  BY <1>4 DEF IS!Next

\* An add offers an installation to a node that is not applied.
LEMMA AddService ==
    ASSUME IInv, NEW n \in Nodes, Add(n)
    PROVE  IS!Next
<1>1. n \notin Applied
  BY DEF IInv, TaskJob, Add, Applied
<1>2. Offered' = Offered \union {n}
  BY DEF IInv, TypeOK, CobblerTypeOK, Add, AddSystem, SetRecord, Offered,
         Absent, Added
<1>3. Fresh' = Fresh \ {n}
  BY DEF IInv, TypeOK, MachineTypeOK, Add, ForgetInstall, Fresh
<1>4. UNCHANGED Applied
  BY Mapping DEF Add
<1>. QED
  BY <1>1, <1>2, <1>3, <1>4 DEF IS!Next, IS!Offer

\* An edit keeps the offers: the record was there, and is.
LEMMA EditService ==
    ASSUME IInv, NEW n \in Nodes, Edit(n)
    PROVE  IS!Next
<1>1. record[n] # Absent
  BY DEF Edit, EditSystem
<1>2. Offered' \subseteq Offered
  BY <1>1 DEF IInv, TypeOK, CobblerTypeOK, Edit, EditSystem, SetRecord, Offered
<1>3. UNCHANGED <<Fresh, Applied>>
  BY Mapping DEF Edit, machineVars
<1>. QED
  BY <1>2, <1>3, Withdrawal

\* A removal may withdraw the node's offer.
LEMMA RemoveService ==
    ASSUME IInv, NEW n \in Nodes, Remove(n)
    PROVE  IS!Next
<1>1. Offered' \subseteq Offered
  BY DEF IInv, TypeOK, CobblerTypeOK, Remove, RemoveSystem, SetRecord, Offered
<1>2. UNCHANGED <<Fresh, Applied>>
  BY Mapping DEF Remove, machineVars
<1>. QED
  BY <1>1, <1>2, Withdrawal

\* A sync withdraws every offer that no record backs.
LEMMA SyncPublishService ==
    ASSUME NEW n \in Nodes, SyncPublish(n)
    PROVE  IS!Next
<1>1. Offered' \subseteq Offered
  BY DEF SyncPublish, PublishSystems, Offered
<1>2. UNCHANGED <<Fresh, Applied>>
  BY Mapping DEF SyncPublish, machineVars
<1>. QED
  BY <1>1, <1>2, Withdrawal

\* A machine boots when its trigger is called with a record to comment on.
LEMMA MachineService ==
    ASSUME IInv, NEW n \in Nodes, Machine(n)
    PROVE  IS!Next \/ UNCHANGED IS!svars
<1>1. CASE PreTrigger(n)
  <2>1. UNCHANGED <<Offered, Applied>>
    BY <1>1, Mapping DEF PreTrigger, SetComment, Machine
  <2>2. CASE record[n] # Absent
    <3>1. n \in Offered
      BY <2>2 DEF Offered
    <3>2. Fresh' = Fresh \union {n}
      BY <1>1, <2>2 DEF IInv, TypeOK, MachineTypeOK, Kickstarts, PreTrigger, Fresh
    <3>. QED
      BY <2>1, <3>1, <3>2 DEF IS!Next, IS!Boot
  <2>3. CASE record[n] = Absent
    <3>1. UNCHANGED Fresh
      BY <1>1, <2>3 DEF IInv, TypeOK, MachineTypeOK, PreTrigger, Fresh
    <3>. QED
      BY <2>1, <3>1 DEF IS!svars
  <2>. QED
    BY <2>2, <2>3
<1>2. CASE ~PreTrigger(n)
  <2>1. UNCHANGED <<record, published, booted, sysState>>
    BY <1>2 DEF Machine, MachineStep, PowerOff, BootDisk, NetBoot,
                FetchKickstart, WipeDisks, FinishInstall, cobblerVars
  <2>. QED
    BY <2>1, Mapping DEF IS!svars
<1>. QED
  BY <1>1, <1>2

\* A reinstallation is requested of an applied node.
LEMMA RequestService ==
    ASSUME IInv, NEW n \in Nodes, RequestReinstall(n)
    PROVE  IS!Next
<1>1. n \in Applied
  BY DEF RequestReinstall, Applied
<1>2. Applied' = Applied \ {n}
  BY DEF IInv, TypeOK, RequestReinstall, Applied
<1>3. UNCHANGED <<Offered, Fresh>>
  BY Mapping DEF RequestReinstall, cobblerVars, machineVars
<1>. QED
  BY <1>1, <1>2, <1>3 DEF IS!Next, IS!Request

\* What no other lemma names does not show in the abstract service.
LEMMA HiddenService ==
    ASSUME \/ StartPlan \/ StopPlan \/ OpenWaits \/ CobblerdRestarts
           \/ \E n \in Nodes :
                 \/ Backup(n) \/ SyncRead(n) \/ SyncXinetd(n)
                 \/ CallFails(n) \/ XinetdFails(n)
                 \/ PxeWait(n) \/ StartNodeWait(n) \/ NodeWait(n)
    PROVE  UNCHANGED IS!svars
<1>1. UNCHANGED <<record, published, booted, sysState>>
  BY DEF StartPlan, StopPlan, OpenWaits, CobblerdRestarts, RestartCobblerd,
         Backup, SyncRead, SyncXinetd, StartXinetd, StopXinetd, CallFails,
         XinetdFails, PxeWait, PxeBooted, PxeStopped, PxeTimeout,
         StartNodeWait, NodeWait, NodeUp, NodeStopped, NodeTimeout, TaskSteps,
         cobblerVars, machineVars
<1>. QED
  BY <1>1, Mapping DEF IS!svars

\* Every step is a step of the service or hidden from it.
LEMMA ServiceStep == IInv /\ [Next]_vars => [IS!Next]_(IS!svars)
<1>. SUFFICES ASSUME IInv, [Next]_vars
              PROVE  IS!Next \/ UNCHANGED IS!svars
  OBVIOUS
<1>1. CASE UNCHANGED vars
  BY <1>1, Mapping DEF vars, cobblerVars, machineVars, IS!svars
<1>2. CASE EndPlan
  BY <1>2, EndPlanService
<1>3. CASE StartPlan \/ StopPlan \/ OpenWaits \/ CobblerdRestarts
  BY <1>3, HiddenService
<1>4. ASSUME NEW n \in Nodes, Command(n)
      PROVE  IS!Next \/ UNCHANGED IS!svars
  <2>1. CASE Backup(n) \/ SyncRead(n) \/ SyncXinetd(n)
    BY <2>1, HiddenService
  <2>2. CASE Remove(n) \/ Add(n) \/ Edit(n) \/ SyncPublish(n)
    BY <2>2, RemoveService, AddService, EditService, SyncPublishService
  <2>. QED
    BY <1>4, <2>1, <2>2 DEF Command
<1>5. ASSUME NEW n \in Nodes,
             \/ CallFails(n) \/ XinetdFails(n)
             \/ PxeWait(n) \/ StartNodeWait(n) \/ NodeWait(n)
      PROVE  UNCHANGED IS!svars
  BY <1>5, HiddenService
<1>6. ASSUME NEW n \in Nodes, RequestReinstall(n) \/ Machine(n)
      PROVE  IS!Next \/ UNCHANGED IS!svars
  BY <1>6, RequestService, MachineService
<1>. QED
  BY <1>1, <1>2, <1>3, <1>4, <1>5, <1>6 DEF Next

\* The plugin, Cobbler and the machines implement the abstract service: a
\* node is acknowledged only after a boot that followed its registration, and
\* only when it is no longer offered an installation.
THEOREM Implementation == Spec => ImplementsInstallService
<1>1. Init => IS!Init
  BY ServiceInit
<1>2. IInv /\ [Next]_vars => [IS!Next]_(IS!svars)
  BY ServiceStep
<1>. QED
  BY <1>1, <1>2, Invariance, PTL DEF Spec, ImplementsInstallService, IS!Spec
-----------------------------------------------------------------------------
(* The service xinetd, when no two syncs overlap.                          *)

\* Installed, as far as the tasks go.
Clean(n) == task[n] = "done" \/ sysState[n] = "Applied"

(* A deregistration's sync that is about to start xinetd has seen the      *)
(* record of a node that is not clean; one that has dealt with xinetd has  *)
(* stopped it, if it is the last.                                          *)
XinetdInv ==
    /\ (\A n \in Nodes : Clean(n)) => ~xinetd
    /\ \A n \in Nodes :
          /\ task[n] = "dereg" /\ job[n] = "syncStart"
             => \E m \in Nodes \ {n} : ~Clean(m)
          /\ task[n] = "dereg" /\ job[n] = "syncPublish"
             => ~xinetd \/ \E m \in Nodes \ {n} : ~Clean(m)

\* What a deregistration's sync does to be where it is.
LEMMA CleanIsIdle ==
    ASSUME IInv, NEW n \in Nodes, Clean(n)
    PROVE  job[n] = "idle" /\ record[n] = Absent
BY DEF IInv, TaskJob, Records, RecordAt, Clean

\* Only the last command of a deregistration makes a node clean.
LEMMA CleanBySync ==
    ASSUME IInv, [Next]_vars, NEW n \in Nodes, ~Clean(n), Clean(n)'
    PROVE  SyncPublish(n) /\ task[n] = "dereg"
<1>. USE DEF Clean, IInv, TypeOK, TaskJob
<1>1. CASE StartPlan \/ StopPlan \/ OpenWaits \/ EndPlan \/ CobblerdRestarts
  BY <1>1 DEF StartPlan, StopPlan, OpenWaits, EndPlan, CobblerdRestarts
<1>2. CASE UNCHANGED <<task, sysState>>
  BY <1>2
<1>3. ASSUME NEW m \in Nodes, Command(m)
      PROVE  UNCHANGED <<task, sysState>> \/ (SyncPublish(m) /\ m = n /\ task[n] = "dereg")
  <2>1. CASE SyncPublish(m)
    BY <2>1 DEF SyncPublish
  <2>2. CASE ~SyncPublish(m)
    BY <1>3, <2>2 DEF Command, Backup, Remove, Add, Edit, SyncRead, SyncXinetd
  <2>. QED
    BY <2>1, <2>2
<1>4. ASSUME NEW m \in Nodes,
             \/ RequestReinstall(m) \/ CallFails(m) \/ XinetdFails(m)
             \/ PxeWait(m) \/ StartNodeWait(m) \/ NodeWait(m) \/ Machine(m)
      PROVE  FALSE
  BY <1>4 DEF RequestReinstall, CallFails, XinetdFails, PxeWait, PxeBooted,
     PxeStopped, PxeTimeout, StartNodeWait, NodeWait, NodeUp, NodeStopped,
     NodeTimeout, TaskSteps, Machine
<1>. QED
  BY <1>1, <1>2, <1>3, <1>4 DEF Next, vars

\* Only a sync that is about to starts the service.
LEMMA XinetdBySync ==
    ASSUME [Next]_vars, ~xinetd, xinetd'
    PROVE  \E m \in Nodes : job[m] = "syncStart" /\ SyncXinetd(m)
<1>1. UNCHANGED xinetd \/ \E m \in Nodes : SyncXinetd(m)
  BY DEF Next, vars, StartPlan, StopPlan, OpenWaits, EndPlan, CobblerdRestarts,
     RestartCobblerd, RequestReinstall, Command, Backup, Remove, RemoveSystem,
     Add, AddSystem, Edit, EditSystem, SetRecord, SyncRead, SyncPublish,
     PublishSystems, CallFails, XinetdFails, PxeWait, PxeBooted, PxeStopped,
     PxeTimeout, StartNodeWait, NodeWait, NodeUp, NodeStopped, NodeTimeout,
     TaskSteps, Machine, MachineStep, PowerOff, BootDisk, NetBoot,
     FetchKickstart, WipeDisks, PreTrigger, SetComment, FinishInstall,
     cobblerVars
<1>2. \A m \in Nodes : SyncXinetd(m) => job[m] = "syncStart"
  BY DEF SyncXinetd, StopXinetd
<1>. QED
  BY <1>1, <1>2

\* The way to a start, and past xinetd, in a deregistration.
LEMMA SyncInDereg ==
    ASSUME IInv, [Next]_vars, NEW n \in Nodes, task'[n] = "dereg"
    PROVE  /\ job'[n] = "syncStart"
              => task[n] = "dereg" /\ (job[n] = "syncStart" \/ SyncRead(n))
           /\ job'[n] = "syncPublish"
              => task[n] = "dereg" /\ (job[n] = "syncPublish" \/ SyncXinetd(n))
<1>. USE DEF IInv, TypeOK, TaskJob
<1>1. CASE StartPlan \/ StopPlan \/ OpenWaits \/ EndPlan \/ CobblerdRestarts
  BY <1>1 DEF StartPlan, StopPlan, OpenWaits, EndPlan, CobblerdRestarts
<1>2. CASE UNCHANGED <<task, job>>
  BY <1>2
<1>3. ASSUME NEW m \in Nodes, Command(m), m = n
      PROVE  /\ job'[n] = "syncStart" => task[n] = "dereg" /\ SyncRead(n)
             /\ job'[n] = "syncPublish" => task[n] = "dereg" /\ SyncXinetd(n)
  BY <1>3 DEF Command, Backup, Remove, Add, Edit, SyncRead, SyncXinetd,
     SyncPublish, Then
<1>4. ASSUME NEW m \in Nodes, Command(m), m # n
      PROVE  task'[n] = task[n] /\ job'[n] = job[n]
  BY <1>4 DEF Command, Backup, Remove, Add, Edit, SyncRead, SyncXinetd,
     SyncPublish, Then
<1>5. ASSUME NEW m \in Nodes,
             \/ RequestReinstall(m) \/ CallFails(m) \/ XinetdFails(m)
             \/ PxeWait(m) \/ StartNodeWait(m) \/ NodeWait(m) \/ Machine(m)
      PROVE  job'[n] \in SyncJobs => task'[n] = task[n] /\ job'[n] = job[n]
  BY <1>5 DEF RequestReinstall, CallFails, XinetdFails, PxeWait, PxeBooted,
     PxeStopped, PxeTimeout, StartNodeWait, NodeWait, NodeUp, NodeStopped,
     NodeTimeout, TaskSteps, Machine, SyncJobs
<1>. QED
  BY <1>1, <1>2, <1>3, <1>4, <1>5 DEF Next, vars, SyncJobs

LEMMA XinetdInvInit ==
    ASSUME Init, Nodes # {}
    PROVE  XinetdInv
BY DEF Init, XinetdInv, Clean

\* A node that is not clean stays so while the sync of another is under way.
LEMMA StaysUnclean ==
    ASSUME IInv, SyncsApart, [Next]_vars, NEW n \in Nodes,
           job[n] \in {"syncStart", "syncPublish"},
           \E m \in Nodes \ {n} : ~Clean(m)
    PROVE  \E m \in Nodes \ {n} : ~Clean(m)'
<1>1. PICK m \in Nodes \ {n} : ~Clean(m)
  OBVIOUS
<1>2. ~SyncPublish(m)
  BY DEF SyncsApart, SyncPublish
<1>. QED
  BY <1>1, <1>2, CleanBySync

LEMMA XinetdInvStep ==
    ASSUME IInv, SyncsApart, XinetdInv, [Next]_vars
    PROVE  XinetdInv'
<1>1. ASSUME \A n \in Nodes : Clean(n)', xinetd'
      PROVE  FALSE
  <2>1. CASE \A n \in Nodes : Clean(n)
    <3>1. ~xinetd
      BY <2>1 DEF XinetdInv
    <3>2. PICK m \in Nodes : job[m] = "syncStart"
      BY <1>1, <3>1, XinetdBySync
    <3>. QED
      BY <2>1, <3>2, CleanIsIdle
  <2>2. ASSUME NEW n \in Nodes, ~Clean(n)
        PROVE  FALSE
    <3>1. SyncPublish(n) /\ task[n] = "dereg"
      BY <1>1, <2>2, CleanBySync
    <3>2. xinetd' = xinetd /\ job[n] = "syncPublish"
      BY <3>1 DEF SyncPublish, PublishSystems
    <3>3. \E m \in Nodes \ {n} : ~Clean(m)
      BY <1>1, <3>1, <3>2 DEF XinetdInv
    <3>. QED
      BY <1>1, <3>2, <3>3, StaysUnclean
  <2>. QED
    BY <2>1, <2>2
<1>2. ASSUME NEW n \in Nodes, task'[n] = "dereg", job'[n] = "syncStart"
      PROVE  \E m \in Nodes \ {n} : ~Clean(m)'
  <2>1. task[n] = "dereg" /\ (job[n] = "syncStart" \/ SyncRead(n))
    BY <1>2, SyncInDereg
  <2>2. CASE job[n] = "syncStart"
    BY <2>1, <2>2, StaysUnclean DEF XinetdInv
  <2>3. CASE SyncRead(n)
    <3>1. job[n] = "syncRead" /\ UNCHANGED <<task, sysState>> /\ Systems # {}
      BY <1>2, <2>3 DEF SyncRead, IInv, TypeOK
    <3>2. PICK m \in Nodes : record[m] # Absent
      BY <3>1 DEF Systems
    <3>3. record[n] = Absent
      BY <2>1, <3>1 DEF IInv, Records, RecordAt, SyncJobs
    <3>4. m # n /\ ~Clean(m)
      BY <3>2, <3>3, CleanIsIdle
    <3>. QED
      BY <3>1, <3>4 DEF Clean
  <2>. QED
    BY <2>1, <2>2, <2>3
<1>3. ASSUME NEW n \in Nodes, task'[n] = "dereg", job'[n] = "syncPublish", xinetd'
      PROVE  \E m \in Nodes \ {n} : ~Clean(m)'
  <2>1. task[n] = "dereg" /\ (job[n] = "syncPublish" \/ SyncXinetd(n))
    BY <1>3, SyncInDereg
  <2>2. CASE job[n] = "syncPublish"
    <3>1. xinetd
      <4>1. ASSUME NEW m \in Nodes, job[m] = "syncStart"
            PROVE  FALSE
        BY <2>2, <4>1 DEF SyncsApart
      <4>. QED
        BY <1>3, <4>1, XinetdBySync
    <3>. QED
      BY <2>1, <2>2, <3>1, StaysUnclean DEF XinetdInv
  <2>3. CASE SyncXinetd(n)
    <3>1. job[n] = "syncStart"
      BY <1>3, <2>3 DEF SyncXinetd, StopXinetd
    <3>. QED
      BY <2>1, <3>1, StaysUnclean DEF XinetdInv
  <2>. QED
    BY <2>1, <2>2, <2>3
<1>. QED
  BY <1>1, <1>2, <1>3 DEF XinetdInv

(* With any number of nodes, plans and faults the service stops with the   *)
(* last system if no two syncs are ever under way at a time: that they are *)
(* is the one way for sync_pre_trigger.py to leave it running.             *)
THEOREM StopsIfApart ==
    ASSUME Nodes # {}
    PROVE  Spec => XinetdStopsIfApart
<1>1. Init => XinetdInv
  BY XinetdInvInit
<1>2. IInv /\ SyncsApart /\ XinetdInv /\ [Next]_vars => XinetdInv'
  BY XinetdInvStep
<1>3. XinetdInv => XinetdStopsWithLastSystem
  BY DEF XinetdInv, Clean, XinetdStopsWithLastSystem
<1>. QED
  BY <1>1, <1>2, <1>3, Invariance, PTL DEF Spec, XinetdStopsIfApart

(* In particular, with one node there is one sync at a time.               *)
THEOREM StopsForOne ==
    ASSUME NEW n, Nodes = {n}
    PROVE  Spec => []XinetdStopsWithLastSystem
<1>1. Nodes # {} /\ SyncsApart
  BY DEF SyncsApart
<1>. QED
  BY <1>1, StopsIfApart, PTL DEF XinetdStopsIfApart
==============================================================================
