-------------------------- MODULE MCKickstartDisks --------------------------
(***************************************************************************)
(* Deployments of two nodes, n1 with boot disk a and n2 with boot disk b,  *)
(* and a disk c that is n1's, n2's, both's, fencing or in no model.  n1    *)
(* varies; n2 is plain.  Disk d, in some instances, is another disk of     *)
(* n1's own.                                                               *)
(***************************************************************************)
EXTENDS KickstartDisks, TLC

CONSTANTS n1, n2, a, b, c, d

MCNodes == {n1, n2}

Of(x, y) == (n1 :> x) @@ (n2 :> y)

\* Whose c is: n1's, n2's, a fencing disk.
Owners == {<<{}, {}, {}>>, <<{c}, {}, {}>>, <<{}, {c}, {}>>, <<{c}, {c}, {}>>,
           <<{}, {}, {c}>>}

\* How n1 and n2 write c's uuid, and for which of them the plan fills it in.
Writings == {"lower", "UPPER", "kgb"} \X {"lower", "kgb"}
            \X {{}, {<<n1, c>>}, {<<n1, c>>, <<n2, c>>}}
PlainWriting == <<"lower", "lower", {}>>

\* The version n1 gets, whether it is a reinstallation, whether c is marked.
Jobs == {<<"rhel7", {}, {}>>, <<"rhel6", {}, {}>>, <<"rhel7", {n1}, {}>>,
         <<"rhel7", {n1}, {<<n1, c>>}>>}

\* The paths from n1 to a and to c, and whether a is on Fibre Channel.
Hardware == {<<1, 1, {}>>, <<0, 1, {}>>, <<1, 0, {}>>, <<2, 1, {}>>, <<2, 1, {a}>>}
PlainHardware == <<1, 1, {}>>

\* The volume groups found on a and on c.
OldGroups == {<<"none", "none">>, <<"vg_root", "vg_data">>, <<"vg_data", "vg_root">>,
              <<"vg_root", "vg_root_data">>}

SiteOf(own, root, boot, writing, job, hw, old) ==
    [disks |-> Of({a} \union (Disks \intersect {d}) \union own[1], {b} \union own[2]),
     boot |-> Of(a, b),
     root |-> Of(root, {b}),
     uuid |-> [i \in MCNodes \X Disks |->
                 CASE i = <<n1, a>> -> boot
                   [] i = <<n1, c>> -> writing[1]
                   [] i = <<n2, c>> -> writing[2]
                   [] OTHER -> "lower"],
     late |-> writing[3],
     marked |-> job[3],
     fencing |-> own[3],
     reinstall |-> job[2],
     version |-> Of(job[1], "rhel7"),
     paths |-> Of([e \in Disks |-> CASE e = a -> hw[1] [] e = b -> 0
                                     [] e = c -> hw[2] [] OTHER -> 1],
                  [e \in Disks |-> IF e = b \/ e \in own[2] \union own[3]
                                   THEN 1 ELSE 0]),
     fc |-> hw[3],
     old |-> [e \in Disks |-> CASE e = a -> old[1] [] e = c -> old[2]
                                [] OTHER -> "none"]]

\* n1 departs from the plain case in one respect at a time.
Cases ==
    {k \in {{a}, {a, c}} \X {"lower", "kgb"} \X Writings \X Hardware :
        \/ k[3] = PlainWriting /\ k[4] = PlainHardware
        \/ k[1] = {a} /\ (k[3] = PlainWriting \/ k[4] = PlainHardware)}

MCSites ==
    {s \in {SiteOf(own, k[1], k[2], k[3], job, k[4], old) :
               own \in Owners, k \in Cases, job \in Jobs, old \in OldGroups} :
        WellFormed(s)}

\* A disk of both nodes, written alike, whose uuid the plan fills in.
BothHave(s) == c \in s.disks[n1] /\ c \in s.disks[n2]
LateSites == {s \in MCSites : BothHave(s) /\ s.uuid[<<n1, c>>] = "lower" /\ s.late # {}}

\* Two disks of n1's own, the serial number of c a part of that of d.
PartSites == {s \in MCSites : s.disks[n1] = {a, c, d} /\ c \notin s.disks[n2]}
MCPartOf == {<<c, d>>}

NoPartOf == {}
=============================================================================
