------------------------- MODULE AnamonBackupProofs -------------------------
(***************************************************************************)
(* The safety properties of AnamonBackup hold for any nodes, any way their *)
(* names contain each other, and any number of rounds and faults.          *)
(*                                                                         *)
(* The argument: what a task removes is out of date (Outdated), that is, a *)
(* newer backup has been made that its listing would show.  Whether that   *)
(* one is still there does not matter: of all that have ever been made for *)
(* a name that leads, the newest is never out of date, so it is never      *)
(* removed (Kept).                                                         *)
(***************************************************************************)
EXTENDS AnamonBackup, FiniteSetTheorems, TLAPS

\* Times differ, and latest has the last one of each host.
Times ==
    /\ \A b \in backups : b.at <= latest[b.host]
    /\ \A n \in Nodes : latest[n] <= clock
    /\ \A b, c \in backups : b.at = c.at => b = c

NewestExists ==
    \A S \in SUBSET backups : S # {} => \E c \in S : \A b \in S : b.at <= c.at

Outdated ==
    \A n \in Nodes :
        /\ \A b \in seen[n] : <<n, b.host>> \in Contains
        /\ step[n] = "prune" =>
              \A b \in seen[n] : \E k \in Nodes : <<n, k>> \in Contains /\ b.at < latest[k]

Kept ==
    \A n \in Nodes : latest[n] > 0 /\ Leads(n) =>
        \E b \in Matching(n) : \A k \in Nodes : <<n, k>> \in Contains => latest[k] <= b.at

IInv == TypeOK /\ IsFiniteSet(backups) /\ Times /\ NewestExists /\ Outdated /\ Kept

Last(n) == [host |-> n, at |-> latest[n]]

\* A task of a node whose name is apart, from its copy on.
OwnPruned ==
    \A n \in {m \in Nodes : Apart(m)} :
        /\ step[n] \in {"list", "newest", "prune"} => latest[n] > 0
        /\ step[n] = "newest" => seen[n] = Own(n)
        /\ step[n] = "prune" => Own(n) = seen[n] \union {Last(n)} /\ Last(n) \notin seen[n]
        /\ step[n] = "done" /\ logs[n] => Own(n) = {Last(n)}
-----------------------------------------------------------------------------
(* One step of one node.                                                   *)

NodeStep(n) ==
    \/ Register(n) \/ Begin(n) \/ MakeDir(n) \/ Rsync(n) \/ List(n)
    \/ KeepNewest(n) \/ Prune(n) \/ CommandFails(n)

\* A step that neither makes nor removes a backup.
Quiet == UNCHANGED <<backups, clock, latest>>

RemovesOne(n) ==
    /\ step[n] = "prune"
    /\ \E b \in seen[n] : backups' = backups \ {b}
    /\ UNCHANGED <<clock, latest>>

LEMMA Effect ==
    ASSUME TypeOK, NEW n \in Nodes, NodeStep(n)
    PROVE  Quiet \/ (step[n] = "rsync" /\ Copy(n)) \/ RemovesOne(n)
BY DEF NodeStep, Register, Begin, MakeDir, Rsync, List, KeepNewest, Prune, CommandFails,
       Quiet, RemovesOne

LEMMA TypeStep ==
    ASSUME TypeOK, NEW n \in Nodes, NodeStep(n)
    PROVE  TypeOK'
<1> USE DEF TypeOK, GoTo, Commands, Steps
<1>1. CASE Register(n)
  <2>1. rounds' \in [Nodes -> Nat] /\ \A m \in Nodes : rounds'[m] <= MaxRounds[m]
    <3>1. rounds' = [rounds EXCEPT ![n] = rounds[n] + 1] /\ rounds[n] < MaxRounds[n]
      BY <1>1 DEF Register
    <3>2. rounds[n] \in Nat /\ MaxRounds[n] \in Nat
      BY BoundsAssumption
    <3>3. \A m \in Nodes : rounds'[m] = IF m = n THEN rounds[n] + 1 ELSE rounds[m]
      BY <3>1
    <3> QED
      BY <3>1, <3>2, <3>3
  <2>2. PICK l \in {logs[n], TRUE} : logs' = [logs EXCEPT ![n] = l]
    BY <1>1 DEF Register
  <2>3. logs' \in [Nodes -> BOOLEAN]
    BY <2>2
  <2>4. /\ step' \in [Nodes -> Steps] /\ seen' \in [Nodes -> SUBSET Backups]
        /\ UNCHANGED <<dir, backups, clock, latest, faults>>
    BY <1>1 DEF Register
  <2> QED
    BY <2>1, <2>3, <2>4
<1>2. CASE Begin(n) \/ MakeDir(n)
  BY <1>2 DEF Begin, MakeDir
<1>3. ASSUME Copy(n)
      PROVE  /\ backups' \subseteq Backups /\ clock' \in Nat
             /\ latest' \in [Nodes -> Nat]
  BY <1>3 DEF Copy, Backups
<1>4. CASE Rsync(n)
  BY <1>3, <1>4 DEF Rsync
<1>5. CASE List(n)
  BY <1>5 DEF List, Matching
<1>6. CASE KeepNewest(n)
  BY <1>6 DEF KeepNewest
<1>7. CASE Prune(n)
  BY <1>7 DEF Prune
<1>8. CASE CommandFails(n)
  <2>1. /\ backups' \subseteq Backups /\ clock' \in Nat
        /\ latest' \in [Nodes -> Nat]
    BY <1>3, <1>8 DEF CommandFails
  <2>2. dir' \in BOOLEAN
    BY <1>8 DEF CommandFails
  <2>3. /\ faults' \in 0 .. MaxFaults /\ step' \in [Nodes -> Steps]
        /\ UNCHANGED <<logs, seen, rounds>>
    BY <1>8, BoundsAssumption DEF CommandFails
  <2> QED
    BY <2>1, <2>2, <2>3
<1> QED
  BY <1>1, <1>2, <1>4, <1>5, <1>6, <1>7, <1>8 DEF NodeStep

LEMMA LatestGrows ==
    ASSUME TypeOK, Times, NEW n \in Nodes, NodeStep(n)
    PROVE  \A k \in Nodes : latest[k] <= latest'[k]
BY Effect DEF TypeOK, Times, Quiet, RemovesOne, Copy

\* A new backup is newer than all.
LEMMA NewBackup ==
    ASSUME TypeOK, Times, NEW n \in Nodes, Copy(n)
    PROVE  /\ backups' = backups \union {[host |-> n, at |-> clock + 1]}
           /\ \A b \in backups : b.at < clock + 1 /\ b.at \in Nat /\ b.host \in Nodes
           /\ \A k \in Nodes : latest'[k] = IF k = n THEN clock + 1 ELSE latest[k]
           /\ \A k \in Nodes : latest[k] < clock + 1 /\ latest[k] \in Nat
           /\ clock' = clock + 1 /\ clock \in Nat
<1>1. \A b \in backups : b.at \in Nat /\ b.host \in Nodes
  BY DEF TypeOK, Backups
<1>2. \A k \in Nodes : latest[k] < clock + 1 /\ latest[k] \in Nat
  BY DEF TypeOK, Times
<1>3. \A b \in backups : b.at < clock + 1
  BY <1>1, <1>2 DEF TypeOK, Times
<1> QED
  BY <1>1, <1>2, <1>3 DEF Copy, TypeOK

LEMMA TimesStep ==
    ASSUME TypeOK, Times, NEW n \in Nodes, NodeStep(n)
    PROVE  Times'
<1>1. CASE Quiet
  BY <1>1 DEF Quiet, Times
<1>2. CASE Copy(n)
  <2>1. \A k \in Nodes : latest'[k] <= clock'
    BY <1>2, NewBackup
  <2>2. \A b \in backups' : b.at <= latest'[b.host]
    BY <1>2, NewBackup DEF Times
  <2>3. \A b, c \in backups' : b.at = c.at => b = c
    BY <1>2, NewBackup DEF Times
  <2> QED
    BY <2>1, <2>2, <2>3 DEF Times
<1>3. CASE RemovesOne(n)
  BY <1>3 DEF RemovesOne, Times
<1> QED
  BY <1>1, <1>2, <1>3, Effect

\* Newest is well defined for what backups there are.
LEMMA NewestExistsStep ==
    ASSUME TypeOK, Times, NewestExists, NEW n \in Nodes, NodeStep(n)
    PROVE  NewestExists'
<1>1. CASE Quiet
  BY <1>1 DEF Quiet, NewestExists
<1>2. CASE Copy(n)
  <2> DEFINE new == [host |-> n, at |-> clock + 1]
  <2>1. \A b \in backups' : b.at <= new.at
    BY <1>2, NewBackup
  <2>2. ASSUME NEW S \in SUBSET backups', S # {}
        PROVE  \E c \in S : \A b \in S : b.at <= c.at
    <3>1. CASE new \in S
      BY <2>1, <3>1
    <3>2. CASE new \notin S
      <4>1. S \in SUBSET backups
        BY <1>2, <3>2, NewBackup
      <4> QED
        BY <2>2, <4>1 DEF NewestExists
    <3> QED
      BY <3>1, <3>2
  <2> QED
    BY <2>2 DEF NewestExists
<1>3. CASE RemovesOne(n)
  <2>1. backups' \subseteq backups
    BY <1>3 DEF RemovesOne
  <2> QED
    BY <2>1 DEF NewestExists
<1> QED
  BY <1>1, <1>2, <1>3, Effect

LEMMA FiniteStep ==
    ASSUME TypeOK, IsFiniteSet(backups), NEW n \in Nodes, NodeStep(n)
    PROVE  IsFiniteSet(backups')
<1>1. CASE Quiet
  BY <1>1 DEF Quiet
<1>2. CASE Copy(n)
  BY <1>2, FS_AddElement DEF Copy
<1>3. CASE RemovesOne(n)
  BY <1>3, FS_Subset DEF RemovesOne
<1> QED
  BY <1>1, <1>2, <1>3, Effect

LEMMA NewestIsNewest ==
    ASSUME NewestExists, NEW S \in SUBSET backups, S # {}
    PROVE  Newest(S) \in S /\ \A b \in S : b.at <= Newest(S).at
BY DEF NewestExists, Newest

LEMMA OthersStay ==
    ASSUME TypeOK, NEW n \in Nodes, NodeStep(n)
    PROVE  \A m \in Nodes \ {n} :
              step'[m] = step[m] /\ seen'[m] = seen[m] /\ logs'[m] = logs[m]
<1> USE DEF TypeOK, GoTo
<1>1. CASE Register(n)
  <2>1. PICK l \in {logs[n], TRUE} : logs' = [logs EXCEPT ![n] = l]
    BY <1>1 DEF Register
  <2> QED
    BY <1>1, <2>1 DEF Register
<1>2. CASE Begin(n) \/ MakeDir(n) \/ Rsync(n)
  BY <1>2 DEF Begin, MakeDir, Rsync
<1>3. CASE List(n) \/ KeepNewest(n) \/ Prune(n) \/ CommandFails(n)
  BY <1>3 DEF List, KeepNewest, Prune, CommandFails
<1> QED
  BY <1>1, <1>2, <1>3 DEF NodeStep

(* What a task has in hand was in its listing, and once it removes things  *)
(* there is a newer backup than any of them.                               *)
LEMMA OutdatedStep ==
    ASSUME IInv, NEW n \in Nodes, NodeStep(n)
    PROVE  Outdated'
<1> USE DEF IInv
<1> DEFINE Listing(m) == \A b \in seen[m] : <<m, b.host>> \in Contains
           Newer(m) == \A b \in seen[m] : \E k \in Nodes :
                           <<m, k>> \in Contains /\ b.at < latest[k]
<1>1. \A k \in Nodes : latest[k] <= latest'[k] /\ latest[k] \in Nat /\ latest'[k] \in Nat
  BY LatestGrows, TypeStep DEF TypeOK
<1>2. \A m \in Nodes : \A b \in seen[m] : b.at \in Nat
  BY DEF TypeOK, Backups
<1>3. ASSUME NEW m \in Nodes, seen'[m] \subseteq seen[m]
      PROVE  Listing(m)' /\ (step[m] = "prune" => Newer(m)')
  <2>1. Listing(m)'
    BY <1>3 DEF Outdated
  <2>2. ASSUME step[m] = "prune", NEW b \in seen'[m]
        PROVE  \E k \in Nodes : <<m, k>> \in Contains /\ b.at < latest'[k]
    <3>1. b \in seen[m] /\ b.at \in Nat
      BY <1>2, <1>3
    <3>2. PICK k \in Nodes : <<m, k>> \in Contains /\ b.at < latest[k]
      BY <2>2, <3>1 DEF Outdated
    <3>3. b.at < latest'[k]
      BY <1>1, <3>1, <3>2
    <3> QED
      BY <3>2, <3>3
  <2> QED
    BY <2>1, <2>2
<1>4. \A m \in Nodes \ {n} : Listing(m)' /\ (step'[m] = "prune" => Newer(m)')
  BY <1>3, OthersStay
<1>5. CASE List(n)
  BY <1>4, <1>5 DEF List, GoTo, Matching, TypeOK, Outdated
<1>6. CASE KeepNewest(n) /\ seen[n] \subseteq backups
  <2>1. seen'[n] = seen[n] \ {Newest(seen[n])} /\ UNCHANGED <<backups, latest>>
    BY <1>6 DEF KeepNewest, TypeOK
  <2> DEFINE c == Newest(seen[n])
  <2>2. Newer(n)'
    <3> SUFFICES ASSUME NEW b \in seen[n], b # c
                 PROVE  \E k \in Nodes : <<n, k>> \in Contains /\ b.at < latest'[k]
      BY <2>1
    <3>1. c \in seen[n] /\ b.at <= c.at
      BY <1>6, NewestIsNewest
    <3>2. b.at # c.at /\ c.at <= latest[c.host] /\ c.host \in Nodes /\ c.at \in Nat
      BY <1>6, <3>1 DEF Times, TypeOK, Backups
    <3>3. <<n, c.host>> \in Contains
      BY <3>1 DEF Outdated
    <3>4. b.at < latest'[c.host]
      BY <1>1, <1>2, <2>1, <3>1, <3>2
    <3> QED
      BY <3>2, <3>3, <3>4
  <2> QED
    BY <1>3, <1>4, <2>1, <2>2 DEF Outdated
<1>7. CASE ~List(n) /\ ~(KeepNewest(n) /\ seen[n] \subseteq backups)
  <2>1. seen'[n] \subseteq seen[n] /\ (step'[n] = "prune" => step[n] = "prune")
    BY <1>7 DEF NodeStep, GoTo, TypeOK, Register, Begin, MakeDir, Rsync, KeepNewest, Prune,
       CommandFails, Commands
  <2> QED
    BY <1>3, <1>4, <2>1 DEF Outdated
<1> QED
  BY <1>5, <1>6, <1>7

(* The newest of all backups ever made for a name that leads stays.        *)
LEMMA KeptStep ==
    ASSUME IInv, ContainsAssumption, NEW n \in Nodes, NodeStep(n)
    PROVE  Kept'
<1> USE DEF IInv
<1> SUFFICES ASSUME NEW m \in Nodes, latest'[m] > 0, Leads(m)
             PROVE  \E b \in Matching(m)' :
                       \A k \in Nodes : <<m, k>> \in Contains => latest'[k] <= b.at
  BY DEF Kept
<1>1. CASE Quiet
  BY <1>1 DEF Quiet, Kept, Matching
<1>2. CASE Copy(n) /\ <<m, n>> \in Contains
  <2>1. [host |-> n, at |-> clock + 1] \in Matching(m)'
    BY <1>2, NewBackup DEF Matching
  <2>2. \A k \in Nodes : latest'[k] <= clock + 1
    BY <1>2, NewBackup
  <2> QED
    BY <2>1, <2>2
<1>3. CASE Copy(n) /\ <<m, n>> \notin Contains
  <2>1. m # n
    BY <1>3, ContainsAssumption
  <2>2. latest[m] > 0
    BY <1>3, <2>1, NewBackup
  <2>3. PICK b \in Matching(m) : \A k \in Nodes : <<m, k>> \in Contains => latest[k] <= b.at
    BY <2>2 DEF Kept
  <2>4. b \in Matching(m)'
    BY <1>3, NewBackup DEF Matching
  <2>5. \A k \in Nodes : <<m, k>> \in Contains => latest'[k] <= b.at
    BY <1>3, <2>3, NewBackup
  <2> QED
    BY <2>4, <2>5
<1>4. CASE RemovesOne(n)
  <2>1. PICK b \in Matching(m) : \A k \in Nodes : <<m, k>> \in Contains => latest[k] <= b.at
    BY <1>4 DEF RemovesOne, Kept
  <2>2. PICK c \in seen[n] : backups' = backups \ {c}
    BY <1>4 DEF RemovesOne
  <2>3. b # c
    <3> SUFFICES ASSUME b = c PROVE FALSE
      OBVIOUS
    <3>1. b \in backups /\ <<m, b.host>> \in Contains /\ b.host \in Nodes /\ b.at \in Nat
      BY DEF Matching, TypeOK, Backups
    <3>2. <<n, b.host>> \in Contains
      BY DEF Outdated
    <3>3. <<m, n>> \in Contains
      BY <3>1, <3>2 DEF Leads
    <3>4. PICK k \in Nodes : <<n, k>> \in Contains /\ b.at < latest[k]
      BY <1>4 DEF RemovesOne, Outdated
    <3>5. <<m, k>> \in Contains
      BY <3>3, <3>4, ContainsAssumption
    <3>6. latest[k] \in Nat
      BY DEF TypeOK
    <3> QED
      BY <2>1, <3>1, <3>4, <3>5, <3>6
  <2>4. b \in Matching(m)' /\ latest' = latest
    BY <1>4, <2>2, <2>3 DEF RemovesOne, Matching
  <2> QED
    BY <2>1, <2>4
<1> QED
  BY <1>1, <1>2, <1>3, <1>4, Effect

LEMMA StepKeepsIInv ==
    ASSUME IInv, NEW n \in Nodes, NodeStep(n)
    PROVE  IInv'
BY TypeStep, FiniteStep, TimesStep, NewestExistsStep, OutdatedStep, KeptStep,
   ContainsAssumption DEF IInv

LEMMA InitImpliesIInv ==
    ASSUME Init
    PROVE  IInv
<1>1. TypeOK
  <2>1. logs \in [Nodes -> BOOLEAN] /\ dir \in BOOLEAN
    BY DEF Init
  <2>2. /\ step \in [Nodes -> Steps] /\ rounds \in [Nodes -> Nat] /\ \A n \in Nodes : rounds[n] <= MaxRounds[n]
        /\ faults \in 0 .. MaxFaults
    BY BoundsAssumption DEF Init, Steps
  <2>3. /\ backups \subseteq Backups /\ clock \in Nat
        /\ seen \in [Nodes -> SUBSET Backups] /\ latest \in [Nodes -> Nat]
    BY DEF Init
  <2> QED
    BY <2>1, <2>2, <2>3 DEF TypeOK
<1>2. IsFiniteSet(backups)
  BY FS_EmptySet DEF Init
<1>3. Times /\ NewestExists /\ Outdated /\ Kept
  BY DEF Init, Times, NewestExists, Outdated, Kept
<1> QED
  BY <1>1, <1>2, <1>3 DEF IInv

LEMMA StutterKeepsIInv ==
    ASSUME IInv, UNCHANGED vars
    PROVE  IInv'
BY DEF IInv, vars, TypeOK, Times, NewestExists, Outdated, Kept, Matching

(* IInv holds in every state AnamonBackup reaches.                         *)
THEOREM Invariance == Spec => []IInv
<1>1. Init => IInv
  BY InitImpliesIInv
<1>2. IInv /\ [Next]_vars => IInv'
  BY StepKeepsIInv, StutterKeepsIInv DEF Next, NodeStep
<1> QED
  BY <1>1, <1>2, PTL DEF Spec
-----------------------------------------------------------------------------
(* A node whose name is apart from all others.                             *)

\* Its listing is its own backups, and nobody else has them in hand.
LEMMA ApartOwns ==
    ASSUME IInv, ContainsAssumption, NEW n \in Nodes, Apart(n)
    PROVE  /\ Matching(n) = Own(n)
           /\ \A m \in Nodes \ {n} : \A b \in seen[m] : b.host # n
           /\ Leads(n)
<1>1. \A k \in Nodes : <<n, k>> \in Contains \/ <<k, n>> \in Contains <=> k = n
  BY ContainsAssumption DEF Apart
<1>2. Matching(n) = Own(n)
  BY <1>1 DEF Matching, Own, IInv, TypeOK, Backups
<1>3. \A m \in Nodes \ {n} : \A b \in seen[m] : b.host # n
  BY <1>1 DEF IInv, Outdated
<1>4. Leads(n)
  BY <1>1 DEF Leads
<1> QED
  BY <1>2, <1>3, <1>4

LEMMA LastIsKept ==
    ASSUME IInv, ContainsAssumption, NEW n \in Nodes, Apart(n), latest[n] > 0
    PROVE  /\ Last(n) \in Own(n)
           /\ \A b \in Own(n) : b.at <= Last(n).at
           /\ \A b \in Own(n) : b.at = Last(n).at => b = Last(n)
<1> USE DEF IInv
<1>1. PICK b \in Matching(n) : \A k \in Nodes : <<n, k>> \in Contains => latest[k] <= b.at
  BY ApartOwns DEF Kept
<1>2. b \in backups /\ b.host = n /\ b.at \in Nat /\ b = [host |-> n, at |-> b.at]
  BY ApartOwns DEF Own, TypeOK, Backups
<1>3. b.at <= latest[n] /\ latest[n] <= b.at /\ latest[n] \in Nat
  BY <1>1, <1>2, ContainsAssumption DEF Times, TypeOK
<1>4. b = Last(n)
  BY <1>2, <1>3 DEF Last
<1>5. \A c \in Own(n) : c.at <= latest[n]
  BY DEF Own, Times
<1>6. Last(n) \in Own(n) /\ Last(n).at = latest[n]
  BY <1>2, <1>4 DEF Own, Last
<1> QED
  BY <1>5, <1>6 DEF Own, Times

\* What the others do to the backups of n is nothing.
LEMMA OwnStays ==
    ASSUME IInv, ContainsAssumption, NEW n \in Nodes, Apart(n),
           NEW m \in Nodes \ {n}, NodeStep(m)
    PROVE  Own(n)' = Own(n) /\ latest'[n] = latest[n]
<1>1. CASE Quiet
  BY <1>1 DEF Quiet, Own
<1>2. CASE Copy(m)
  BY <1>2 DEF Copy, Own, IInv, TypeOK
<1>3. CASE RemovesOne(m)
  BY <1>3, ApartOwns DEF RemovesOne, Own
<1> QED
  BY <1>1, <1>2, <1>3, Effect DEF IInv

\* One backup, or more.
LEMMA OneOrMore ==
    ASSUME NEW S, IsFiniteSet(S), NEW b \in S, ~(Cardinality(S) > 1)
    PROVE  S = {b}
<1>1. IsFiniteSet(S \ {b}) /\ Cardinality(S \ {b}) = Cardinality(S) - 1
  BY FS_RemoveElement
<1>2. Cardinality(S) \in Nat /\ Cardinality(S \ {b}) \in Nat
  BY <1>1, FS_CardinalityType
<1>3. Cardinality(S \ {b}) = 0
  BY <1>1, <1>2
<1>4. S \ {b} = {}
  BY <1>1, <1>3, FS_EmptySet
<1> QED
  BY <1>4

\* OwnPruned, of one node.
PrunedAt(n) ==
    /\ step[n] \in {"list", "newest", "prune"} => latest[n] > 0
    /\ step[n] = "newest" => seen[n] = Own(n)
    /\ step[n] = "prune" => Own(n) = seen[n] \union {Last(n)} /\ Last(n) \notin seen[n]
    /\ step[n] = "done" /\ logs[n] => Own(n) = {Last(n)}

LEMMA OwnStep ==
    ASSUME IInv, ContainsAssumption, NEW n \in Nodes, Apart(n), PrunedAt(n), NodeStep(n)
    PROVE  PrunedAt(n)'
<1> USE DEF IInv, TypeOK, GoTo
<1>1. CASE Register(n)
  BY <1>1 DEF Register, PrunedAt
<1>2. CASE Begin(n)
  BY <1>2 DEF Begin, PrunedAt
<1>3. CASE MakeDir(n)
  BY <1>3 DEF MakeDir, PrunedAt
<1>4. CASE Rsync(n)
  <2>1. step'[n] = "list" /\ latest'[n] > 0
    BY <1>4, NewBackup DEF Rsync
  <2> QED
    BY <2>1 DEF PrunedAt
<1>5. CASE List(n)
  <2>1. latest[n] > 0 /\ Matching(n) = Own(n)
    BY <1>5, ApartOwns DEF List, PrunedAt
  <2>2. Last(n) \in Own(n)
    BY <2>1, LastIsKept
  <2>3. IsFiniteSet(Own(n))
    BY FS_Subset DEF Own
  <2>4. UNCHANGED <<backups, latest>> /\ Own(n)' = Own(n) /\ Last(n)' = Last(n)
    BY <1>5 DEF List, Own, Last
  <2>5. CASE Cardinality(Own(n)) > 1
    BY <1>5, <2>1, <2>4, <2>5 DEF List, PrunedAt
  <2>6. CASE ~(Cardinality(Own(n)) > 1)
    <3>1. Own(n) = {Last(n)}
      BY <2>2, <2>3, <2>6, OneOrMore
    <3> QED
      BY <1>5, <2>1, <2>4, <2>6, <3>1 DEF List, PrunedAt
  <2> QED
    BY <2>5, <2>6
<1>6. CASE KeepNewest(n)
  <2>1. latest[n] > 0 /\ seen[n] = Own(n)
    BY <1>6 DEF KeepNewest, PrunedAt
  <2>2. seen[n] \subseteq backups /\ seen[n] # {}
    BY <2>1, LastIsKept DEF Own
  <2> DEFINE c == Newest(seen[n])
  <2>3. c \in Own(n) /\ Last(n).at <= c.at /\ c.at <= Last(n).at
    BY <2>1, <2>2, NewestIsNewest, LastIsKept
  <2>4. c.at \in Nat /\ Last(n).at \in Nat
    BY <2>3 DEF Own, Backups, Last
  <2>5. c = Last(n)
    BY <2>1, <2>3, <2>4, LastIsKept
  <2>6. seen'[n] = seen[n] \ {c} /\ step'[n] = "prune" /\ UNCHANGED <<backups, latest>>
    BY <1>6, <2>2 DEF KeepNewest
  <2>7. Own(n)' = Own(n) /\ Last(n)' = Last(n)
    BY <2>6 DEF Own, Last
  <2> QED
    BY <2>1, <2>3, <2>5, <2>6, <2>7 DEF PrunedAt
<1>7. CASE Prune(n)
  <2>1. PICK b \in seen[n] :
          /\ backups' = backups \ {b} /\ seen'[n] = seen[n] \ {b}
          /\ step'[n] = IF seen[n] = {b} THEN "done" ELSE "prune"
    BY <1>7 DEF Prune
  <2>2. latest' = latest /\ step[n] = "prune"
    BY <1>7 DEF Prune
  <2>3. Own(n)' = Own(n) \ {b} /\ Last(n)' = Last(n)
    BY <2>1, <2>2 DEF Own, Last
  <2> QED
    BY <2>1, <2>2, <2>3 DEF PrunedAt
<1>8. CASE CommandFails(n)
  BY <1>8 DEF CommandFails, PrunedAt
<1> QED
  BY <1>1, <1>2, <1>3, <1>4, <1>5, <1>6, <1>7, <1>8 DEF NodeStep

LEMMA OwnPrunedStep ==
    ASSUME IInv, OwnPruned, NEW n \in Nodes, NodeStep(n)
    PROVE  OwnPruned'
<1> SUFFICES ASSUME NEW m \in Nodes, Apart(m)
             PROVE  PrunedAt(m)'
  BY DEF OwnPruned, PrunedAt, Apart
<1>1. PrunedAt(m)
  BY DEF OwnPruned, PrunedAt
<1>2. CASE m = n
  BY <1>1, <1>2, OwnStep, ContainsAssumption
<1>3. CASE m # n
  <2>1. Own(m)' = Own(m) /\ latest'[m] = latest[m]
    BY <1>3, OwnStays, ContainsAssumption
  <2>2. step'[m] = step[m] /\ seen'[m] = seen[m] /\ logs'[m] = logs[m]
    BY <1>3, OthersStay DEF IInv
  <2> QED
    BY <1>1, <2>1, <2>2 DEF PrunedAt, Last
<1> QED
  BY <1>2, <1>3
-----------------------------------------------------------------------------
(* The properties.                                                         *)

(* Every variable keeps its type: a listing has backups in it, not names.  *)
THEOREM TypeCorrect == Spec => []TypeOK
<1>1. IInv => TypeOK
  BY DEF IInv
<1> QED
  BY <1>1, Invariance, PTL

(* A node whose name leads always has a backup as new as its last one:     *)
(* what is pruned, by whomever, is out of date (_backup_anamon_logs).      *)
THEOREM NewestStays == Spec => []NewestKept
<1>1. IInv => NewestKept
  <2> SUFFICES ASSUME IInv, NEW n \in Nodes, latest[n] > 0, Leads(n)
               PROVE  \E b \in Matching(n) : b.at >= latest[n]
    BY DEF NewestKept
  <2>1. PICK b \in Matching(n) : \A k \in Nodes : <<n, k>> \in Contains => latest[k] <= b.at
    BY DEF IInv, Kept
  <2>2. b.at \in Nat /\ latest[n] \in Nat
    BY DEF Matching, IInv, TypeOK, Backups
  <2> QED
    BY <2>1, <2>2, ContainsAssumption
<1> QED
  BY <1>1, Invariance, PTL

(* A node whose name is apart has its last backup and no other when its    *)
(* register task is done: it finds all its own backups in its listing, and *)
(* the one that it keeps is the one that it has just made.                 *)
THEOREM OneIsLeft == Spec => []OneBackupEach
<1>1. Init => OwnPruned
  BY DEF Init, OwnPruned
<1>2. IInv /\ OwnPruned /\ [Next]_vars => OwnPruned'
  <2>1. ASSUME OwnPruned, UNCHANGED vars
        PROVE  OwnPruned'
    BY <2>1 DEF vars, OwnPruned, Own, Last, Apart
  <2> QED
    BY <2>1, OwnPrunedStep DEF Next, NodeStep
<1>3. OwnPruned => OneBackupEach
  BY DEF OwnPruned, OneBackupEach, Last
<1> QED
  BY <1>1, <1>2, <1>3, Invariance, PTL DEF Spec
=============================================================================
