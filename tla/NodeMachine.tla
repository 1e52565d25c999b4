----------------------------- MODULE NodeMachine -----------------------------
(***************************************************************************)
(* The machines that Cobbler installs.  A machine is powered off at any    *)
(* moment, boots from its disk or from the network, and when it boots from *)
(* the network runs the kickstart it fetches: the %pre section of          *)
(* kickstart.erb wipes the disks (partition and bootloader snippets)       *)
(* before kickstart_start calls the install pre-trigger.                   *)
(*                                                                         *)
(* A record that has only its profile serves the profile's kickstart,      *)
(* which is Cobbler's default.ks: it calls the trigger too, but it does    *)
(* not wipe first, and the system it installs has no MCollective.          *)
(***************************************************************************)
EXTENDS Cobbler

CONSTANT MaxResets      \* bound: how often machines lose power

ASSUME MaxResetsAssumption == MaxResets \in Nat

VARIABLES
    mach,       \* mach[n]: what the machine is doing
    ks,         \* ks[n]: the kickstart fetched last
    os,         \* os[n]: the system on its disks
    booted,     \* history: the kickstart that last called the trigger while
                \* there was a record, since the latest one was added
    resets      \* power losses so far

machineVars == <<mach, ks, os, booted, resets>>

Stages == {"off", "up", "netboot", "pre", "wiped", "installing"}
Kickstarts == {"profile", "node"}
Installed == {"none", "old", "new", "plain"}

PowerOff(n) ==
    /\ resets < MaxResets
    /\ mach[n] # "off"
    /\ mach' = [mach EXCEPT ![n] = "off"]
    /\ resets' = resets + 1
    /\ UNCHANGED <<ks, os, booted, cobblerVars>>

BootDisk(n) ==
    /\ mach[n] = "off"
    /\ os[n] # "none"
    /\ mach' = [mach EXCEPT ![n] = "up"]
    /\ UNCHANGED <<ks, os, booted, resets, cobblerVars>>

NetBoot(n) ==
    /\ mach[n] = "off"
    /\ Bootable(n)
    /\ mach' = [mach EXCEPT ![n] = "netboot"]
    /\ UNCHANGED <<ks, os, booted, resets, cobblerVars>>

(***************************************************************************)
(* The kickstart is rendered from the record of the moment; without a      *)
(* record there is none and the machine stops.                             *)
(***************************************************************************)
FetchKickstart(n) ==
    /\ mach[n] = "netboot"
    /\ \/ /\ record[n] = Absent
          /\ mach' = [mach EXCEPT ![n] = "off"]
          /\ UNCHANGED ks
       \/ /\ record[n] # Absent
          /\ mach' = [mach EXCEPT ![n] = "pre"]
          /\ ks' = [ks EXCEPT ![n] =
                      IF record[n] >= Keyed THEN "node" ELSE "profile"]
    /\ UNCHANGED <<os, booted, resets, cobblerVars>>

WipeDisks(n) ==
    /\ mach[n] = "pre"
    /\ ks[n] = "node"
    /\ mach' = [mach EXCEPT ![n] = "wiped"]
    /\ os' = [os EXCEPT ![n] = "none"]
    /\ UNCHANGED <<ks, booted, resets, cobblerVars>>

\* Where a kickstart calls the trigger: kickstart_start.
CallsTrigger(n) == mach[n] = IF ks[n] = "node" THEN "wiped" ELSE "pre"

PreTrigger(n) ==
    /\ CallsTrigger(n)
    /\ mach' = [mach EXCEPT ![n] = "installing"]
    /\ booted' = [booted EXCEPT ![n] = IF record[n] # Absent THEN ks[n] ELSE @]
    /\ SetComment(n)
    /\ UNCHANGED <<ks, os, resets>>

(***************************************************************************)
(* The installation ends in a reboot.  What it leaves is "new" when the    *)
(* trigger was called after the latest registration began.                 *)
(***************************************************************************)
FinishInstall(n) ==
    /\ mach[n] = "installing"
    /\ mach' = [mach EXCEPT ![n] = "off"]
    /\ os' = [os EXCEPT ![n] = CASE ks[n] = "profile" -> "plain"
                                 [] ks[n] = "node" /\ booted[n] # "no" -> "new"
                                 [] OTHER -> "old"]
    /\ UNCHANGED <<ks, booted, resets, cobblerVars>>

\* A registration makes everything installed before it old.
ForgetInstall(n) ==
    /\ booted' = [booted EXCEPT ![n] = "no"]
    /\ os' = [os EXCEPT ![n] = IF @ = "new" THEN "old" ELSE @]
    /\ UNCHANGED <<mach, ks, resets>>

\* What `mco ping` needs to get an answer.
Answers(n) == mach[n] = "up" /\ os[n] \in {"old", "new"}

MachineStep(n) ==
    \/ PowerOff(n)
    \/ BootDisk(n)
    \/ NetBoot(n)
    \/ FetchKickstart(n)
    \/ WipeDisks(n)
    \/ PreTrigger(n)
    \/ FinishInstall(n)

MachineInit ==
    /\ mach = [n \in Nodes |-> "off"]
    /\ ks = [n \in Nodes |-> "node"]
    /\ os \in [Nodes -> {"none", "old"}]
    /\ booted = [n \in Nodes |-> "no"]
    /\ resets = 0

MachineTypeOK ==
    /\ mach \in [Nodes -> Stages]
    /\ ks \in [Nodes -> Kickstarts]
    /\ os \in [Nodes -> Installed]
    /\ booted \in [Nodes -> {"no"} \union Kickstarts]
    /\ resets \in 0 .. MaxResets
==============================================================================
