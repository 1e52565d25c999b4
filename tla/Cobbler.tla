------------------------------- MODULE Cobbler -------------------------------
(***************************************************************************)
(* The management server's side of a PXE installation: the Cobbler system  *)
(* records, the boot configuration that `cobbler sync` publishes to the    *)
(* TFTP and DHCP servers, the xinetd service that serves it, and this      *)
(* repository's code on top of them: the MCollective agent (cobbler.rb)    *)
(* and the two Cobbler triggers (sync_pre_trigger.py, install_pre_pxe.py). *)
(*                                                                         *)
(* Each operator is one operation; the modules that extend this one say    *)
(* when it happens.  cobblerd itself is outside the repository: what is    *)
(* assumed of it is what the repository's code relies on, and where the    *)
(* code relies on nothing the operation is nondeterministic.               *)
(***************************************************************************)
EXTENDS Integers

CONSTANTS
    Nodes,      \* the managed nodes, each named by its hostname
    NIfaces     \* how many interfaces the plugin gives each system record

ASSUME NIfacesAssumption == NIfaces \in Nat \ {0}

VARIABLES
    record,     \* record[n]: how much of n's system record exists (Levels)
    comment,    \* comment[n]: the record carries the comment PXE_BOOTED
    published,  \* published[n]: the level of the record last written out
    xinetd      \* xinetd runs, so TFTP answers

cobblerVars == <<record, comment, published, xinetd>>

(***************************************************************************)
(* A record grows in steps: `system add` gives it its profile, the first   *)
(* `system edit` its hostname, its own kickstart and its first interface,  *)
(* every further one an interface more.                                    *)
(***************************************************************************)
Absent == 0
Added  == 1
Keyed  == 2              \* has a kickstart of its own and a MAC address
Full   == NIfaces + 1
Levels == Absent .. Full

Systems == {n \in Nodes : record[n] # Absent}

(***************************************************************************)
(* Saving or deleting a record may make cobblerd refresh that system's own *)
(* boot files at once; the plugin never counts on it, it always syncs.     *)
(***************************************************************************)
SetRecord(n, level) ==
    /\ record' = [record EXCEPT ![n] = level]
    /\ \/ UNCHANGED published
       \/ published' = [published EXCEPT ![n] = level]
    /\ UNCHANGED xinetd

\* Faulty: the record is emptied in place and keeps its comment.
RemoveKeepsComment(n) ==
    /\ SetRecord(n, Absent)
    /\ UNCHANGED comment

\* The agent turns "unknown system name" into success, so this never fails
\* for want of a record.
RemoveSystem(n) ==
    /\ comment' = [comment EXCEPT ![n] = FALSE]
    /\ SetRecord(n, Absent)

\* Cobbler refuses to add a name it has; the agent reports that as an error.
AddSystem(n) ==
    /\ record[n] = Absent
    /\ SetRecord(n, Added)
    /\ UNCHANGED comment

\* One more interface; an edit of a complete record changes nothing here.
Further(level) == IF level < Full THEN level + 1 ELSE Full

EditSystem(n) ==
    /\ record[n] # Absent
    /\ SetRecord(n, Further(record[n]))
    /\ UNCHANGED comment

(***************************************************************************)
(* `cobbler sync` runs the pre-sync trigger, which looks at the list of    *)
(* systems first and deals with xinetd afterwards, and then writes out     *)
(* every record.  A trigger that returns non-zero stops the sync.  The     *)
(* status check and the start are one step: starting a running service     *)
(* changes nothing, so nothing that happens between them shows.            *)
(***************************************************************************)
StartXinetd ==
    /\ xinetd' = TRUE
    /\ UNCHANGED <<record, comment, published>>

StopXinetd ==
    /\ xinetd' = FALSE
    /\ UNCHANGED <<record, comment, published>>

\* Faulty: writes the systems there are and never deletes a file.
PublishOnlyAdds ==
    /\ published' = [n \in Nodes |->
                       IF record[n] # Absent THEN record[n] ELSE published[n]]
    /\ UNCHANGED <<record, comment, xinetd>>

PublishSystems ==
    /\ published' = record
    /\ UNCHANGED <<record, comment, xinetd>>

(***************************************************************************)
(* The install pre-trigger sets the comment on the record in memory, if    *)
(* there is a record, and does not save it: a restart of cobblerd loses    *)
(* whichever comments no later save of the record has written to disk.     *)
(***************************************************************************)
SetComment(n) ==
    /\ comment' = [comment EXCEPT ![n] = @ \/ record[n] # Absent]
    /\ UNCHANGED <<record, published, xinetd>>

RestartCobblerd(lost) ==
    /\ comment' = [n \in Nodes |-> comment[n] /\ n \notin lost]
    /\ UNCHANGED <<record, published, xinetd>>

\* What the plugin asks: find_system(name, comment) != [].
HasPxeCompleted(n) == record[n] # Absent /\ comment[n]

\* A boot file is found under a MAC address, and TFTP has to be up.
Bootable(n) == xinetd /\ published[n] >= Keyed

CobblerInit ==
    /\ record = [n \in Nodes |-> Absent]
    /\ comment = [n \in Nodes |-> FALSE]
    /\ published = [n \in Nodes |-> Absent]
    /\ xinetd \in BOOLEAN

CobblerTypeOK ==
    /\ record \in [Nodes -> Levels]
    /\ comment \in [Nodes -> BOOLEAN]
    /\ published \in [Nodes -> Levels]
    /\ xinetd \in BOOLEAN
==============================================================================
