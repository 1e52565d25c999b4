---------------------------- MODULE AnamonBackup ----------------------------
(***************************************************************************)
(* _backup_anamon_logs: what a register task does first.  If the node has  *)
(* installation logs it copies them into a backup directory of their own,  *)
(* lists the backups whose name contains the hostname, and removes all of  *)
(* these but the newest, one command each.                                 *)
(*                                                                         *)
(* The register tasks of different nodes run at the same time, and the     *)
(* test is `hostname in x`: the listing of node1 has the backups of node10 *)
(* too.  A backup is named after its host and its time; time is counted in *)
(* backups, so two backups never have one time.                            *)
(***************************************************************************)
EXTENDS Integers, FiniteSets

CONSTANTS
    Nodes,
    Contains,       \* <<n, m>>: n's hostname is a part of m's
    MaxRounds,      \* bound: registrations of each node
    MaxFaults       \* bound: failed commands

ASSUME ContainsAssumption ==
    /\ Contains \subseteq Nodes \X Nodes
    /\ \A n \in Nodes : <<n, n>> \in Contains
    /\ \A n, m, k \in Nodes :
          <<n, m>> \in Contains /\ <<m, k>> \in Contains => <<n, k>> \in Contains

ASSUME BoundsAssumption == MaxRounds \in [Nodes -> Nat] /\ MaxFaults \in Nat

VARIABLES
    logs,       \* logs[n]: anamon/<n>/ has files
    dir,        \* anamon.backup/ exists
    backups,    \* what is in it
    clock,      \* backups made
    step,       \* step[n]: where n's register task is
    seen,       \* seen[n]: its listing, and then what it has yet to remove
    latest,     \* history: latest[n] is the time of n's last backup, 0 before
    rounds, faults

vars == <<logs, dir, backups, clock, step, seen, latest, rounds, faults>>

Backups == [host : Nodes, at : Nat]
Commands == {"mkdir", "rsync", "prune"}
Steps == Commands \union {"begin", "list", "newest", "done", "failed"}

TypeOK ==
    /\ logs \in [Nodes -> BOOLEAN]
    /\ dir \in BOOLEAN
    /\ backups \subseteq Backups
    /\ clock \in Nat
    /\ step \in [Nodes -> Steps]
    /\ seen \in [Nodes -> SUBSET Backups]
    /\ latest \in [Nodes -> Nat]
    /\ rounds \in [Nodes -> Nat] /\ \A n \in Nodes : rounds[n] <= MaxRounds[n]
    /\ faults \in 0 .. MaxFaults

Init ==
    /\ logs = [n \in Nodes |-> FALSE]
    /\ dir = FALSE
    /\ backups = {}
    /\ clock = 0
    /\ step = [n \in Nodes |-> "done"]
    /\ seen = [n \in Nodes |-> {}]
    /\ latest = [n \in Nodes |-> 0]
    /\ rounds = [n \in Nodes |-> 0]
    /\ faults = 0

GoTo(n, s) == step' = [step EXCEPT ![n] = s]

\* Another plan registers n; n may have been installed in between.
Register(n) ==
    /\ step[n] \in {"done", "failed"}
    /\ rounds[n] < MaxRounds[n]
    /\ rounds' = [rounds EXCEPT ![n] = @ + 1]
    /\ \E l \in {logs[n], TRUE} : logs' = [logs EXCEPT ![n] = l]
    /\ seen' = [seen EXCEPT ![n] = {}]
    /\ GoTo(n, "begin")
    /\ UNCHANGED <<dir, backups, clock, latest, faults>>

Begin(n) ==
    /\ step[n] = "begin"
    /\ GoTo(n, IF ~logs[n] THEN "done" ELSE IF dir THEN "rsync" ELSE "mkdir")
    /\ UNCHANGED <<logs, dir, backups, clock, seen, latest, rounds, faults>>

MakeDir(n) ==
    /\ step[n] = "mkdir"
    /\ dir' = TRUE
    /\ GoTo(n, "rsync")
    /\ UNCHANGED <<logs, backups, clock, seen, latest, rounds, faults>>

Copy(n) ==
    /\ clock' = clock + 1
    /\ backups' = backups \union {[host |-> n, at |-> clock + 1]}
    /\ latest' = [latest EXCEPT ![n] = clock + 1]

Rsync(n) ==
    /\ step[n] = "rsync"
    /\ Copy(n)
    /\ GoTo(n, "list")
    /\ UNCHANGED <<logs, dir, seen, rounds, faults>>

Matching(n) == {b \in backups : <<n, b.host>> \in Contains}

\* Faulty: the listing has names where paths are needed.
ListNames(n) ==
    /\ step[n] = "list"
    /\ seen' = [seen EXCEPT ![n] = {b.host : b \in Matching(n)}]
    /\ GoTo(n, IF Cardinality(Matching(n)) > 1 THEN "newest" ELSE "done")
    /\ UNCHANGED <<logs, dir, backups, clock, latest, rounds, faults>>

\* Faulty: one more backup is tolerated.
ListTwo(n) ==
    /\ step[n] = "list"
    /\ seen' = [seen EXCEPT ![n] = Matching(n)]
    /\ GoTo(n, IF Cardinality(Matching(n)) > 2 THEN "newest" ELSE "done")
    /\ UNCHANGED <<logs, dir, backups, clock, latest, rounds, faults>>

List(n) ==
    /\ step[n] = "list"
    /\ seen' = [seen EXCEPT ![n] = Matching(n)]
    /\ GoTo(n, IF Cardinality(Matching(n)) > 1 THEN "newest" ELSE "done")
    /\ UNCHANGED <<logs, dir, backups, clock, latest, rounds, faults>>

\* Faulty: keeps the oldest.
Oldest(B) == CHOOSE b \in B : \A c \in B : b.at <= c.at

Newest(B) == CHOOSE b \in B : \A c \in B : c.at <= b.at

(***************************************************************************)
(* getctime of every backup listed; it raises OSError, and the task fails, *)
(* for one that another node's task has removed since.                     *)
(***************************************************************************)
KeepNewest(n) ==
    /\ step[n] = "newest"
    /\ \/ /\ seen[n] \subseteq backups
          /\ seen' = [seen EXCEPT ![n] = @ \ {Newest(@)}]
          /\ GoTo(n, "prune")
       \/ /\ ~(seen[n] \subseteq backups)
          /\ GoTo(n, "failed")
          /\ UNCHANGED seen
    /\ UNCHANGED <<logs, dir, backups, clock, latest, rounds, faults>>

Prune(n) ==
    /\ step[n] = "prune"
    /\ \E b \in seen[n] :
          /\ backups' = backups \ {b}
          /\ seen' = [seen EXCEPT ![n] = @ \ {b}]
          /\ GoTo(n, IF seen[n] = {b} THEN "done" ELSE "prune")
    /\ UNCHANGED <<logs, dir, clock, latest, rounds, faults>>

\* A command fails, with or without its effect.
CommandFails(n) ==
    /\ faults < MaxFaults
    /\ faults' = faults + 1
    /\ step[n] \in Commands
    /\ GoTo(n, "failed")
    /\ \/ UNCHANGED <<dir, backups, clock, latest>>
       \/ step[n] = "mkdir" /\ dir' = TRUE /\ UNCHANGED <<backups, clock, latest>>
       \/ step[n] = "rsync" /\ Copy(n) /\ UNCHANGED dir
       \/ /\ step[n] = "prune"
          /\ \E b \in seen[n] : backups' = backups \ {b}
          /\ UNCHANGED <<dir, clock, latest>>
    /\ UNCHANGED <<logs, seen, rounds>>

Next ==
    \E n \in Nodes :
        \/ Register(n) \/ Begin(n) \/ MakeDir(n) \/ Rsync(n) \/ List(n)
        \/ KeepNewest(n) \/ Prune(n) \/ CommandFails(n)

Spec == Init /\ [][Next]_vars
-----------------------------------------------------------------------------
\* Of the names that are parts of one name, n's is a part of all the others.
Leads(n) ==
    \A k, m \in Nodes :
        <<n, k>> \in Contains /\ <<m, k>> \in Contains => <<n, m>> \in Contains

(* From its last backup on, a node whose name leads always has a backup as *)
(* new among those its listing would show: however the tasks of all the    *)
(* nodes interleave, fail and start again, such a backup goes only for a   *)
(* newer one (_backup_anamon_logs).  Were a and b both parts of ab, a task *)
(* of b could remove what a task of a kept in place of its own.            *)
NewestKept ==
    \A n \in Nodes :
        latest[n] > 0 /\ Leads(n) => \E b \in Matching(n) : b.at >= latest[n]

\* No other node's name is a part of n's, nor n's of another's.
Apart(n) ==
    \A m \in Nodes \ {n} : <<n, m>> \notin Contains /\ <<m, n>> \notin Contains

Own(n) == {b \in backups : b.host = n}

(* A node whose name is apart from all others has, whenever its register   *)
(* task has backed up its logs and is done, exactly its last backup,       *)
(* whatever earlier tasks that failed half way left behind.                *)
OneBackupEach ==
    \A n \in Nodes :
        /\ Apart(n)
        /\ step[n] = "done"
        /\ logs[n]
        => Own(n) = {[host |-> n, at |-> latest[n]]}

(* Backups are removed when there is more than one: a node that has been   *)
(* backed up has a backup ("Number of backups greater than {0} removing",  *)
(* _backup_anamon_logs).                                                   *)
BackupSurvives == \A n \in Nodes : latest[n] > 0 => Own(n) # {}
==============================================================================
