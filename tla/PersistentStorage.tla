-------------------------- MODULE PersistentStorage --------------------------
(***************************************************************************)
(* The first boots of a CargOS machine: rc_preprocess in etc/rc, which     *)
(* mounts the volumes or starts the setup, and create_persistent in        *)
(* etc/rc.bootstrap, with commands that fail, disks that turn up late and  *)
(* power losses.                                                           *)
(*                                                                         *)
(* What a step of the setup leaves on the disks is a set of facts.  No     *)
(* step looks at the result of another one, so what it leaves depends on   *)
(* the facts it finds.  The volume "pkg" stands for pkg, root, home and    *)
(* docker.  LVM and mkfs are external: pvcreate, vgcreate and lvcreate     *)
(* refuse to create what exists, mkfs.xfs refuses a file system, and       *)
(* without its partition table a disk has nothing that anybody sees.       *)
(* Disks that are late when the volumes are mounted have turned up by the  *)
(* time somebody has answered the dialogues.                               *)
(***************************************************************************)
EXTENDS Naturals, Sequences

CONSTANTS Disks, MaxFaults, MaxBoots

ASSUME BoundsAssumption == MaxFaults \in Nat /\ MaxBoots \in Nat \ {0}

VARIABLES
    kept,       \* facts about the disks
    nodes,      \* volumes that have a node in /dev/cargos
    mounted,    \* volumes that are mounted
    pc,         \* "off", "boot", "setup", a step of the setup, or "up"
    selected,   \* ${_sdisks}
    faulty,     \* something went wrong since the machine was switched on
    faults, boots

vars == <<kept, nodes, mounted, pc, selected, faulty, faults, boots>>

Volumes == {"etc", "pkg"}
\* The file systems before the volumes.
StepsSwapped == <<"dd", "fdisk", "mkfs_boot", "pvcreate", "vgcreate", "mkfs_lvm",
                  "lvcreate", "mount", "bootstrap", "random-seed", "configure">>
Steps == <<"dd", "fdisk", "mkfs_boot", "pvcreate", "vgcreate", "lvcreate",
           "mkfs_lvm", "mount", "bootstrap", "random-seed", "configure">>
Stepping == {Steps[i] : i \in DOMAIN Steps}
Setup == pc \in Stepping \cup {"setup"}

\* fact <<k, x>>: x has its partition table, is a physical volume, a disk of the
\* volume group, a logical volume, a file system; or file x is on etc or pkg.
Table(d) == <<"table", d>>
PV(d) == <<"pv", d>>
VG(d) == <<"vg", d>>
LV(v) == <<"lv", v>>
FS(v) == <<"fs", v>>
File(v, x) == <<v, x>>
EtcFiles == {"dirs", "seed", "config"}
DiskFacts == {Table(d) : d \in Disks} \cup {PV(d) : d \in Disks} \cup {VG(d) : d \in Disks}
VolumeFacts == {LV(v) : v \in Volumes} \cup {FS(v) : v \in Volumes}
                   \cup {File("etc", x) : x \in EtcFiles} \cup {File("pkg", "packages")}
Facts == DiskFacts \cup VolumeFacts

\* The disks of the volume group; it is seen on one, and active with all.
Group == {d \in Disks : VG(d) \in kept}
HasGroup == \E d \in Group : Table(d) \in kept
Cut == \E d \in Group : Table(d) \notin kept
Active == Group # {} /\ ~ Cut
Existing == {v \in Volumes : Active /\ LV(v) \in kept}
Mountable == {v \in nodes : FS(v) \in kept}
Installed == VolumeFacts \subseteq kept
Complete == Active /\ Installed

\* /etc is on the volume when the overlay has been mounted above it.
EtcIsKept == "etc" \in mounted /\ File("etc", "dirs") \in kept

Fault == faults < MaxFaults /\ faults' = faults + 1 /\ faulty' = TRUE
NoFault == UNCHANGED <<faults, faulty>>

Init ==
    /\ kept = {} /\ nodes = {} /\ mounted = {} /\ pc = "off" /\ selected = {}
    /\ faulty = FALSE /\ faults = 0 /\ boots = 0

------------------------------------------------------------------------------
(* etc/rc *)

\* The machine is switched on; vgchange activates the volume group, unless it
\* fails or the disks have not turned up yet.
PowerOn ==
    /\ pc = "off" /\ boots < MaxBoots
    /\ boots' = boots + 1
    /\ pc' = "boot"
    /\ \/ nodes' = Existing /\ faulty' = FALSE /\ UNCHANGED faults
       \/ Existing # {} /\ nodes' = {} /\ Fault
    /\ UNCHANGED <<kept, mounted, selected>>

\* if [ ! -e /dev/cargos/etc ]
StartSetup ==
    /\ pc = "boot" /\ "etc" \notin nodes
    /\ pc' = "setup"
    /\ UNCHANGED <<kept, nodes, mounted, selected, faulty, faults, boots>>

\* The five mounts and the overlay of a machine that has been set up; nobody
\* looks whether they succeed.
MountAll ==
    /\ pc = "boot" /\ "etc" \in nodes
    /\ \/ mounted' = Mountable /\ NoFault
       \/ mounted' \in (SUBSET Mountable) \ {Mountable} /\ Fault
    /\ pc' = "up"
    /\ UNCHANGED <<kept, nodes, selected, boots>>

\* Disks turn up late, while the setup is asking, and are activated.
LateDisks ==
    /\ pc = "setup" /\ ~ Existing \subseteq nodes
    /\ nodes' = nodes \cup Existing
    /\ UNCHANGED <<kept, mounted, pc, selected, faulty, faults, boots>>

------------------------------------------------------------------------------
(* etc/rc.bootstrap *)

\* prompt_welcome is answered with No, or prompt_disk finds no disk.
Decline ==
    /\ pc = "setup"
    /\ pc' = "up"
    /\ UNCHANGED <<kept, nodes, mounted, selected, faulty, faults, boots>>

\* prompt_disk, or all disks in a cloud.
SelectDisks ==
    /\ pc = "setup"
    /\ selected' \in (SUBSET Disks) \ {{}}
    /\ pc' = Head(Steps)
    /\ UNCHANGED <<kept, nodes, mounted, faulty, faults, boots>>

\* mkfs.xfs -f makes a new file system on any volume.
MakeFsForced == {FS(v) : v \in nodes}
MakeFs == {FS(v) : v \in nodes} \ kept

\* What a step leaves when none of its commands fails but for what it finds.
When(condition, facts) == IF condition THEN facts ELSE {}
Gives(step) ==
    When(step = "fdisk", {Table(d) : d \in selected})
    \cup When(step = "pvcreate",
              {PV(d) : d \in {d \in selected : VG(d) \notin kept /\ Table(d) \in kept}})
    \cup When(step = "vgcreate" /\ ~ HasGroup
                  /\ \A d \in selected : {PV(d), Table(d)} \subseteq kept,
              {VG(d) : d \in selected})
    \cup When(step = "lvcreate" /\ Active, {LV(v) : v \in Volumes} \ kept)
    \cup When(step = "mkfs_lvm", MakeFs)
    \cup When(step = "mount" /\ "etc" \in Mountable, {File("etc", "dirs")})
    \cup When(step = "bootstrap" /\ "pkg" \in mounted, {File("pkg", "packages")})
    \cup When(step = "random-seed" /\ EtcIsKept, {File("etc", "seed")})
    \cup When(step = "configure" /\ EtcIsKept, {File("etc", "config")})

\* What a step takes away: dd the tables.
Takes(step) == IF step = "dd" THEN {Table(d) : d \in selected} ELSE {}

\* A new group has no volumes, a new file system is empty.
Kept(given) ==
    given \cup {f \in kept :
        /\ f[1] \in Volumes => FS(f[1]) \notin given
        /\ (\E d \in Disks : VG(d) \in given) => f[1] \in {"table", "pv"}}

\* One step of create_persistent, or the configuration after it.  The volumes
\* that lvcreate has made get their nodes; a failing command of the step is not
\* noticed.  A power loss leaves some of what the step does.
NextStep ==
    LET i == CHOOSE j \in DOMAIN Steps : Steps[j] = pc
    IN  IF i = Len(Steps) THEN "up" ELSE Steps[i + 1]
Effect(given, taken, mounts) ==
    /\ kept' = Kept(given) \ taken
    /\ nodes' = nodes \cup {v \in Volumes : LV(v) \in given}
    /\ mounted' = mounted \cup mounts
RunStep ==
    /\ pc \in Stepping
    /\ LET given == Gives(pc)
           taken == Takes(pc)
           mounts == IF pc = "mount" THEN Mountable ELSE {}
       IN  \/ Effect(given, taken, mounts) /\ NoFault
           \/ /\ Fault
              /\ \E g \in SUBSET given, t \in SUBSET taken, m \in SUBSET mounts :
                    <<g, t, m>> # <<given, taken, mounts>> /\ Effect(g, t, m)
    /\ pc' = NextStep
    /\ UNCHANGED <<selected, boots>>

PowerOff(given, taken) ==
    /\ kept' = Kept(given) \ taken
    /\ pc' = "off" /\ nodes' = {} /\ mounted' = {} /\ selected' = {}
    /\ UNCHANGED boots
PowerLoss ==
    /\ pc # "off" /\ Fault
    /\ \E g \in SUBSET Gives(pc), t \in SUBSET Takes(pc) : PowerOff(g, t)
ShutDown == pc = "up" /\ NoFault /\ PowerOff({}, {})

Next ==
    \/ PowerOn \/ StartSetup \/ MountAll \/ LateDisks \/ Decline \/ SelectDisks
    \/ RunStep \/ PowerLoss \/ ShutDown
Spec == Init /\ [][Next]_vars

------------------------------------------------------------------------------
(* Properties *)

TypeOK ==
    /\ kept \subseteq Facts /\ nodes \subseteq Volumes /\ mounted \subseteq Volumes
    /\ Setup \/ pc \in {"off", "boot", "up"}
    /\ selected \subseteq Disks
    /\ faulty \in BOOLEAN /\ faults \in 0..MaxFaults /\ boots \in 0..MaxBoots

\* create_persistent, which checks nothing, leaves a complete machine when no
\* command fails by itself, whatever an earlier setup that was interrupted has
\* left: pvcreate and vgcreate then fail, and the steps after them succeed.  The
\* exception is a group that such a setup has left without a table: a disk that
\* is not selected again stays cut off, and what was on the others is not active.
FinishedIsComplete ==
    pc = "up" /\ selected # {} /\ ~ faulty => Complete \/ Cut \/ nodes # Existing

\* A machine that was set up before it was switched on uses its volumes, at every
\* boot in which nothing goes wrong, and asks for no setup again.
CompleteIsUsed ==
    Complete /\ ~ faulty /\ selected = {} =>
        /\ pc # "setup"
        /\ pc = "up" => mounted = Volumes /\ EtcIsKept

\* Both, for the whole of the setup. (rc:39-51, rc.bootstrap:531-632)
MachineIsComplete == FinishedIsComplete /\ CompleteIsUsed

\* What is on the disks is a state of Installation: a setup that runs again,
\* because the volumes had not turned up, destroys nothing that was complete
\* unless a power loss has left one of its disks without a table, and outside a
\* setup nothing changes.
Abstract == INSTANCE Installation WITH
    status <- IF Installed THEN 3
              ELSE IF \A v \in Volumes : FS(v) \in kept THEN 2
              ELSE IF \A v \in Volumes : LV(v) \in kept THEN 1 ELSE 0,
    running <- Setup,
    cut <- Cut
ImplementsInstallation == Abstract!Spec
==============================================================================
