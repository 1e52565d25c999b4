----------------------------- MODULE NodeInstall -----------------------------
(***************************************************************************)
(* The installation of managed nodes by the boot manager's plans.          *)
(*                                                                         *)
(* A plan has, for every node whose system is not Applied, the callback    *)
(* tasks of bootmgr_plugin.py:                                             *)
(*     register : back up the anamon logs, remove the old record, add it,  *)
(*                edit it once per interface, sync                         *)
(*     pxe      : poll Cobbler until the record says PXE_BOOTED            *)
(*     node     : ping the node until it answers, then deregister it:      *)
(*                remove its record, sync                                  *)
(* The tasks of different nodes run concurrently.  Every call to Cobbler   *)
(* goes through MCollective and may fail; the command behind a failed call *)
(* may still run (the agent's timeout does not reach into cobblerd).       *)
(*                                                                         *)
(* LITP, which orders and runs the tasks, is outside the repository.       *)
(* Assumed of it: a plan's register tasks all succeed before its waiting   *)
(* tasks start; a task runs after the tasks it requires; a failed task     *)
(* lets no later task have to start; the next plan's register tasks start  *)
(* after every command of the last plan has run its course (its            *)
(* configuration tasks, which take minutes, come first).                   *)
(***************************************************************************)
EXTENDS NodeMachine

CONSTANTS           \* bounds
    MaxPlans,       \* plans run
    MaxFaults,      \* failed calls, failed xinetd commands, cobblerd restarts
    MaxReinstalls   \* requests to install an Applied node again

ASSUME BoundsAssumption ==
    /\ MaxPlans \in Nat
    /\ MaxFaults \in Nat
    /\ MaxReinstalls \in Nat

VARIABLES
    plan,       \* is_running() is TRUE when plan = "running"
    task,       \* task[n]: where n's tasks are in the current plan
    job,        \* job[n]: n's command in progress on the management server
    edits,      \* edits[n]: interfaces n's register task has sent
    sysState,   \* sysState[n]: the model's state of n's system item
    plans, faults, reinstalls   \* counters for the bounds

counters == <<plans, faults, reinstalls>>
vars == <<cobblerVars, machineVars, plan, task, job, edits, sysState, counters>>

Active == {"register", "pxe", "node", "dereg"}
Tasks == Active \union {"idle", "registered", "pxed", "done", "failed"}
SyncJobs == {"syncRead", "syncStart", "syncStop", "syncPublish"}
Jobs == {"idle", "backup", "remove", "add", "edit"} \union SyncJobs
NewStates == {"Initial", "Applying", "Updated"}

NewNodeSystems == {n \in Nodes : sysState[n] \in NewStates}

TypeOK ==
    /\ CobblerTypeOK
    /\ MachineTypeOK
    /\ plan \in {"none", "running", "stopping"}
    /\ task \in [Nodes -> Tasks]
    /\ job \in [Nodes -> Jobs]
    /\ edits \in [Nodes -> 0 .. NIfaces]
    /\ sysState \in [Nodes -> NewStates \union {"Applied"}]
    /\ plans \in 0 .. MaxPlans
    /\ faults \in 0 .. MaxFaults
    /\ reinstalls \in 0 .. MaxReinstalls

Init ==
    /\ CobblerInit
    /\ MachineInit
    /\ plan = "none"
    /\ task = [n \in Nodes |-> "idle"]
    /\ job = [n \in Nodes |-> "idle"]
    /\ edits = [n \in Nodes |-> 0]
    /\ sysState = [n \in Nodes |-> "Initial"]
    /\ plans = 0 /\ faults = 0 /\ reinstalls = 0
-----------------------------------------------------------------------------
(* The plan.                                                               *)

StartPlan ==
    /\ plan = "none"
    /\ plans < MaxPlans
    /\ NewNodeSystems # {}
    /\ \A n \in Nodes : job[n] = "idle"
    /\ plan' = "running"
    /\ plans' = plans + 1
    /\ task' = [n \in Nodes |-> IF n \in NewNodeSystems THEN "register" ELSE "idle"]
    /\ job' = [n \in Nodes |-> IF n \in NewNodeSystems THEN "backup" ELSE "idle"]
    /\ UNCHANGED <<cobblerVars, machineVars, edits, sysState, faults, reinstalls>>

StopPlan ==
    /\ plan = "running"
    /\ plan' = "stopping"
    /\ UNCHANGED <<cobblerVars, machineVars, task, job, edits, sysState, counters>>

\* Every register task has succeeded.
OpenWaits ==
    /\ plan = "running"
    /\ \E n \in Nodes : task[n] = "registered"
    /\ \A n \in Nodes : task[n] \in {"idle", "registered"}
    /\ task' = [n \in Nodes |-> IF task[n] = "registered" THEN "pxe" ELSE task[n]]
    /\ UNCHANGED <<cobblerVars, machineVars, plan, job, edits, sysState, counters>>

\* No task is running, and none is bound to start.
AtRest ==
    /\ \A n \in Nodes : task[n] \notin Active
    /\ \/ plan = "stopping"
       \/ \E n \in Nodes : task[n] = "failed"
       \/ \A n \in Nodes : task[n] \in {"idle", "done"}

EndPlan ==
    /\ plan # "none"
    /\ AtRest
    /\ plan' = "none"
    /\ task' = [n \in Nodes |-> "idle"]
    /\ sysState' = [n \in Nodes |->
                      CASE task[n] = "done" -> "Applied"
                        [] task[n] # "done" /\ task[n] # "idle" /\ sysState[n] = "Initial" -> "Applying"
                        [] OTHER -> sysState[n]]
    /\ UNCHANGED <<cobblerVars, machineVars, job, edits, counters>>

\* The operator asks for an installed node to be installed again.
RequestReinstall(n) ==
    /\ plan = "none"
    /\ sysState[n] = "Applied"
    /\ reinstalls < MaxReinstalls
    /\ reinstalls' = reinstalls + 1
    /\ sysState' = [sysState EXCEPT ![n] = "Updated"]
    /\ UNCHANGED <<cobblerVars, machineVars, plan, task, job, edits, plans, faults>>
-----------------------------------------------------------------------------
(* The commands behind the tasks.  One whose task has failed ("stray")     *)
(* has its effect and leads to no other.                                   *)

\* The command of n's job has ended: the next one in task t, if n is at it.
Then(n, t, next) ==
    job' = [job EXCEPT ![n] = IF task[n] = t THEN next ELSE "idle"]

\* Faulty: the old record is not removed.
BackupThenAdd(n) ==
    /\ job[n] = "backup"
    /\ Then(n, "register", "add")
    /\ UNCHANGED <<cobblerVars, machineVars, plan, task, edits, sysState, counters>>

Backup(n) ==
    /\ job[n] = "backup"
    /\ Then(n, "register", "remove")
    /\ UNCHANGED <<cobblerVars, machineVars, plan, task, edits, sysState, counters>>

\* Faulty: the node is done without the sync.
RemoveWithoutSync(n) ==
    /\ job[n] = "remove"
    /\ RemoveSystem(n)
    /\ Then(n, "register", "add")
    /\ task' = [task EXCEPT ![n] = IF @ = "dereg" THEN "done" ELSE @]
    /\ UNCHANGED <<machineVars, plan, edits, sysState, counters>>

Remove(n) ==
    /\ job[n] = "remove"
    /\ RemoveSystem(n)
    /\ IF task[n] = "dereg" THEN Then(n, "dereg", "syncRead") ELSE Then(n, "register", "add")
    /\ UNCHANGED <<machineVars, plan, task, edits, sysState, counters>>

Add(n) ==
    /\ job[n] = "add"
    /\ AddSystem(n)
    /\ ForgetInstall(n)
    /\ edits' = [edits EXCEPT ![n] = 0]
    /\ Then(n, "register", "edit")
    /\ UNCHANGED <<plan, task, sysState, counters>>

\* Faulty: an edit too many.
EditOnceMore(n) ==
    /\ job[n] = "edit"
    /\ EditSystem(n)
    /\ edits' = [edits EXCEPT ![n] = @ + 1]
    /\ Then(n, "register", IF edits[n] < NIfaces THEN "edit" ELSE "syncRead")
    /\ UNCHANGED <<machineVars, plan, task, sysState, counters>>

\* Faulty: the interfaces after the first are forgotten.
EditFirstOnly(n) ==
    /\ job[n] = "edit"
    /\ EditSystem(n)
    /\ edits' = [edits EXCEPT ![n] = @ + 1]
    /\ Then(n, "register", "syncRead")
    /\ UNCHANGED <<machineVars, plan, task, sysState, counters>>

Edit(n) ==
    /\ job[n] = "edit"
    /\ EditSystem(n)
    /\ edits' = [edits EXCEPT ![n] = @ + 1]
    /\ Then(n, "register", IF edits[n] + 1 < NIfaces THEN "edit" ELSE "syncRead")
    /\ UNCHANGED <<machineVars, plan, task, sysState, counters>>

\* Faulty: the trigger does not look at the systems.
SyncAlwaysStarts(n) ==
    /\ job[n] = "syncRead"
    /\ job' = [job EXCEPT ![n] = "syncStart"]
    /\ UNCHANGED <<cobblerVars, machineVars, plan, task, edits, sysState, counters>>

SyncRead(n) ==
    /\ job[n] = "syncRead"
    /\ job' = [job EXCEPT ![n] = IF Systems = {} THEN "syncStop" ELSE "syncStart"]
    /\ UNCHANGED <<cobblerVars, machineVars, plan, task, edits, sysState, counters>>

SyncXinetd(n) ==
    /\ \/ job[n] = "syncStart" /\ StartXinetd
       \/ job[n] = "syncStop" /\ StopXinetd
    /\ job' = [job EXCEPT ![n] = "syncPublish"]
    /\ UNCHANGED <<machineVars, plan, task, edits, sysState, counters>>

\* The last command of both tasks.  Cobbler reads the records and writes the boot
\* files in one step; how it goes about it is outside the repository.
SyncPublish(n) ==
    /\ job[n] = "syncPublish"
    /\ PublishSystems
    /\ job' = [job EXCEPT ![n] = "idle"]
    /\ task' = [task EXCEPT ![n] = CASE @ = "register" -> "registered"
                                     [] @ = "dereg" -> "done"
                                     [] OTHER -> @]
    /\ UNCHANGED <<machineVars, plan, edits, sysState, counters>>

(***************************************************************************)
(* The RPC fails, times out, or reports an error: the task fails, and the  *)
(* command is lost or goes on.                                             *)
(***************************************************************************)
CallFails(n) ==
    /\ faults < MaxFaults
    /\ faults' = faults + 1
    /\ job[n] # "idle"
    /\ task[n] \in {"register", "dereg"}
    /\ task' = [task EXCEPT ![n] = "failed"]
    /\ \/ UNCHANGED job
       \/ job' = [job EXCEPT ![n] = "idle"]
    /\ UNCHANGED <<cobblerVars, machineVars, plan, edits, sysState, plans, reinstalls>>

\* `service xinetd start` or `stop` fails: the trigger stops the sync.
XinetdFails(n) ==
    /\ faults < MaxFaults
    /\ faults' = faults + 1
    /\ \/ job[n] = "syncStart" /\ ~xinetd
       \/ job[n] = "syncStop"
    /\ job' = [job EXCEPT ![n] = "idle"]
    /\ task' = [task EXCEPT ![n] = IF @ \in Active THEN "failed" ELSE @]
    /\ UNCHANGED <<cobblerVars, machineVars, plan, edits, sysState, plans, reinstalls>>

CobblerdRestarts ==
    /\ faults < MaxFaults
    /\ faults' = faults + 1
    /\ \E lost \in SUBSET Nodes : RestartCobblerd(lost)
    /\ UNCHANGED <<machineVars, plan, task, job, edits, sysState, plans, reinstalls>>
-----------------------------------------------------------------------------
(* The waiting tasks.  Time is not counted: a wait may time out at any     *)
(* poll, and a poll may miss an answer (ProtocolError, a lost ping).       *)

TaskSteps(n, t) ==
    /\ task' = [task EXCEPT ![n] = t]
    /\ UNCHANGED <<cobblerVars, machineVars, plan, edits, sysState, counters>>

\* The loop looks at is_running() first, then at Cobbler.
PxeBooted(n) ==
    /\ task[n] = "pxe"
    /\ plan = "running"
    /\ HasPxeCompleted(n)
    /\ TaskSteps(n, "pxed")
    /\ UNCHANGED job

PxeStopped(n) ==
    /\ task[n] = "pxe"
    /\ plan = "stopping"
    /\ TaskSteps(n, "failed")
    /\ UNCHANGED job

PxeTimeout(n) ==
    /\ task[n] = "pxe"
    /\ TaskSteps(n, "failed")
    /\ UNCHANGED job

\* Faulty: the wait for the node does not require the wait for PXE.
StartNodeWaitEarly(n) ==
    /\ task[n] \in {"pxe", "pxed"}
    /\ plan = "running"
    /\ TaskSteps(n, "node")
    /\ UNCHANGED job

StartNodeWait(n) ==
    /\ task[n] = "pxed"
    /\ plan = "running"
    /\ TaskSteps(n, "node")
    /\ UNCHANGED job

\* Faulty: syncs without removing the record.
NodeUpOnlySyncs(n) ==
    /\ task[n] = "node"
    /\ Answers(n)
    /\ job' = [job EXCEPT ![n] = "syncRead"]
    /\ TaskSteps(n, "dereg")

\* The loop looks at the node first, then at is_running(): an answer wins
\* over a stop, and the node is deregistered in a stopping plan.
NodeUp(n) ==
    /\ task[n] = "node"
    /\ Answers(n)
    /\ job' = [job EXCEPT ![n] = "remove"]
    /\ TaskSteps(n, "dereg")

NodeStopped(n) ==
    /\ task[n] = "node"
    /\ plan = "stopping"
    /\ TaskSteps(n, "failed")
    /\ UNCHANGED job

NodeTimeout(n) ==
    /\ task[n] = "node"
    /\ TaskSteps(n, "failed")
    /\ UNCHANGED job
-----------------------------------------------------------------------------
Command(n) ==
    \/ Backup(n) \/ Remove(n) \/ Add(n) \/ Edit(n)
    \/ SyncRead(n) \/ SyncXinetd(n) \/ SyncPublish(n)

\* Faulty: the loop never looks at the time.
PxeWaitForever(n) == PxeBooted(n) \/ PxeStopped(n)

PxeWait(n) == PxeBooted(n) \/ PxeStopped(n) \/ PxeTimeout(n)

NodeWait(n) == NodeUp(n) \/ NodeStopped(n) \/ NodeTimeout(n)

Machine(n) ==
    /\ MachineStep(n)
    /\ UNCHANGED <<plan, task, job, edits, sysState, counters>>

Next ==
    \/ StartPlan
    \/ StopPlan
    \/ OpenWaits
    \/ EndPlan
    \/ CobblerdRestarts
    \/ \E n \in Nodes :
          \/ RequestReinstall(n)
          \/ Command(n)
          \/ CallFails(n)
          \/ XinetdFails(n)
          \/ PxeWait(n)
          \/ StartNodeWait(n)
          \/ NodeWait(n)
          \/ Machine(n)

(***************************************************************************)
(* Fairness: commands end (the RPC timeout ends the call), the two polling *)
(* loops go round, LITP starts what it may start and ends a plan that has  *)
(* nothing left to run.  Nothing is assumed of the machines, of the        *)
(* operator or of the environment's faults.                                *)
(***************************************************************************)
Fairness ==
    /\ WF_vars(OpenWaits)
    /\ WF_vars(EndPlan)
    /\ \A n \in Nodes :
          /\ WF_vars(Command(n))
          /\ WF_vars(PxeWait(n))
          /\ WF_vars(StartNodeWait(n))
          /\ WF_vars(NodeWait(n))

Spec == Init /\ [][Next]_vars

FairSpec == Spec /\ Fairness
-----------------------------------------------------------------------------
(* Properties.                                                             *)

(* A wait-for-PXE task succeeds only when a kickstart has called the       *)
(* install pre-trigger since this registration added the node's record: a  *)
(* PXE_BOOTED comment left by an earlier plan never answers for this one   *)
(* (_add_system_callback, _has_pxe_completed).                             *)
FreshPxe ==
    \A n \in Nodes :
        task[n] \in {"pxed", "node", "dereg", "done"} => booted[n] # "no"

(* A node that answers the wait-for-node task, and any Applied node, does  *)
(* not hold a system from before its registration: the wait for PXE ahead  *)
(* of the ping keeps the old system from answering for the new one         *)
(* (_add_node_wait, kickstart.erb).  The exception is a boot that met the  *)
(* record between `add` and the first `edit`, and so ran the profile's     *)
(* kickstart, which does not wipe the disks before it calls the trigger.   *)
DoneMeansReinstalled ==
    \A n \in Nodes :
        task[n] \in {"dereg", "done"} \/ sysState[n] = "Applied"
        => os[n] # "old" \/ booted[n] = "profile"

(* Once its system is Applied, Cobbler neither has a record of a node nor  *)
(* serves it, whatever the other nodes' syncs did meanwhile: it is not     *)
(* installed by accident (_remove_from_cobbler).                           *)
DoneMeansDeregistered ==
    \A n \in Nodes :
        task[n] = "done" \/ sysState[n] = "Applied"
        => record[n] = Absent /\ published[n] = Absent

(* From the end of its registration to the end of its wait for PXE a node  *)
(* can boot from the network with its complete record, although other      *)
(* nodes sync, fail and deregister at the same time (_add_system_callback, *)
(* sync_pre_trigger.py).                                                   *)
RegisteredMeansBootable ==
    \A n \in Nodes :
        task[n] \in {"registered", "pxe"}
        => record[n] = Full /\ published[n] = Full /\ xinetd

(* Whatever an earlier plan's failed tasks left behind, Cobbler never      *)
(* refuses the commands of a retry: no `add` of a name that exists, no     *)
(* `edit` of one that does not (_add_system_callback).                     *)
RetryNeverRefused ==
    \A n \in Nodes :
        /\ job[n] = "add" => record[n] = Absent
        /\ job[n] = "edit" => record[n] # Absent

(* When every node is installed and nothing is going on, the service that  *)
(* serves installations is down: "If systems are not present it will stop  *)
(* the service" (sync_pre_trigger.py).                                     *)
XinetdStopsWithLastSystem ==
    /\ \A n \in Nodes : sysState[n] = "Applied" /\ job[n] = "idle"
    /\ plan = "none"
    => ~xinetd

SyncsApart ==
    \A n, m \in Nodes :
        {job[n], job[m]} \subseteq {"syncStart", "syncStop", "syncPublish"} => n = m

(* With several nodes it takes syncs that never overlap, which nothing in  *)
(* the code sees to, and it takes no more: faults, strays and the other    *)
(* nodes' registrations do not keep the service up (sync_pre_trigger.py).  *)
XinetdStopsIfApart == []SyncsApart => []XinetdStopsWithLastSystem

(* Every plan ends, even when no machine ever boots.                       *)
PlanTerminates == plan # "none" ~> plan = "none"
(* The plugin, Cobbler and the machines together do what InstallService    *)
(* says: in particular a node is acknowledged only after a boot that       *)
(* followed its registration, and once it is withdrawn.                    *)
Offered == {n \in Nodes : record[n] # Absent \/ published[n] # Absent}
Fresh == {n \in Nodes : booted[n] # "no"}
Applied == {n \in Nodes : sysState[n] = "Applied"}

IS == INSTANCE InstallService
        WITH offered <- Offered, fresh <- Fresh, applied <- Applied

ImplementsInstallService == IS!Spec
-----------------------------------------------------------------------------
(* The inductive invariant behind the safety properties.                   *)

\* Which commands a task can be at.
TaskJob ==
    \A n \in Nodes :
        /\ task[n] = "register" => job[n] # "idle"
        /\ task[n] = "dereg" => job[n] \in {"remove"} \union SyncJobs
        /\ task[n] \in {"registered", "pxe", "pxed", "node", "done"} => job[n] = "idle"
        /\ sysState[n] = "Applied" => task[n] = "idle" /\ job[n] = "idle"

\* What a comment, and a boot, stand for.
Boots ==
    \A n \in Nodes :
        /\ comment[n] => record[n] # Absent /\ booted[n] # "no"
        /\ \/ task[n] \in {"pxed", "node", "dereg", "done"}
           \/ sysState[n] = "Applied"
           => booted[n] # "no"
        /\ mach[n] = "wiped" => ks[n] = "node" /\ os[n] = "none"
        /\ booted[n] = "node" => os[n] # "old"

\* How far n's record is at each command, and after the last.
RecordAt(n) ==
    /\ job[n] = "add" => record[n] = Absent
    /\ job[n] = "edit" => record[n] = edits[n] + 1 /\ edits[n] < NIfaces
    /\ task[n] = "register" /\ job[n] \in SyncJobs => record[n] = Full
    /\ task[n] = "dereg" /\ job[n] \in SyncJobs => record[n] = Absent
    /\ task[n] \in {"registered", "pxe"} => record[n] = Full /\ published[n] = Full
    /\ task[n] = "done" \/ sysState[n] = "Applied"
       => record[n] = Absent /\ published[n] = Absent

Records == \A n \in Nodes : RecordAt(n)

\* While a node registers, no node is past that phase, and whichever syncs
\* run were asked for by nodes that have a record.
Phases ==
    \A n, m \in Nodes :
        task[n] = "register"
        => /\ task[m] \in {"idle", "register", "registered", "failed"}
           /\ job[m] \in SyncJobs => record[m] # Absent

\* No sync is about to stop xinetd under a node that needs it.
XinetdUp ==
    /\ \A n \in Nodes :
          \/ task[n] \in {"registered", "pxe"}
          \/ task[n] = "register" /\ job[n] = "syncPublish"
          => xinetd
    /\ \A n, m \in Nodes :
          job[m] = "syncStop" => task[n] \notin {"register", "registered", "pxe"}

IInv ==
    /\ TypeOK
    /\ TaskJob
    /\ Boots
    /\ Records
    /\ Phases
    /\ XinetdUp
==============================================================================
