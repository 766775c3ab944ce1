---------------------- MODULE PersistentStorage_proofs ----------------------
(***************************************************************************)
(* The setup of a machine, for any disks, failures and number of boots:    *)
(* its variables keep their types, and what is on the disks changes only   *)
(* as Installation allows.                                                 *)
(***************************************************************************)
EXTENDS PersistentStorage, TLAPS

(***************************************************************************)
(* That a new volume group replaces nothing but one that is cut off needs  *)
(* to be known of the states before: without a group there are no volumes  *)
(* and nothing on them, and only a volume of a group has a node or is      *)
(* mounted.                                                                *)
(***************************************************************************)
OnVolumes == kept \cap VolumeFacts
NoGroupNoVolumes == Group = {} => OnVolumes = {} /\ nodes = {} /\ mounted = {}
IInv == TypeOK /\ NoGroupNoVolumes

Status ==
    IF Installed THEN 3
    ELSE IF \A v \in Volumes : FS(v) \in kept THEN 2
    ELSE IF \A v \in Volumes : LV(v) \in kept THEN 1 ELSE 0

LEMMA SteppingIs ==
    Stepping = {"dd", "fdisk", "mkfs_boot", "pvcreate", "vgcreate", "lvcreate",
                "mkfs_lvm", "mount", "bootstrap", "random-seed", "configure"}
<1>1. DOMAIN Steps = 1 .. 11 /\ Len(Steps) = 11
  BY DEF Steps
<1>2. DOMAIN Steps = {1, 2, 3, 4, 5, 6, 7, 8, 9, 10, 11}
  BY <1>1
<1> QED
  BY <1>2 DEF Stepping, Steps

LEMMA NextStepIs == ASSUME pc \in Stepping PROVE NextStep \in Stepping \cup {"up"}
<1>1. DOMAIN Steps = 1 .. 11 /\ Len(Steps) = 11
  BY DEF Steps
<1> DEFINE i == CHOOSE j \in DOMAIN Steps : Steps[j] = pc
<1>2. i \in DOMAIN Steps
  BY DEF Stepping
<1>3. i # Len(Steps) => i + 1 \in DOMAIN Steps
  BY <1>1, <1>2
<1> QED
  BY <1>3 DEF NextStep, Stepping

\* What a step leaves, by its kind.
LEMMA GivesKinds ==
    ASSUME NEW g, g \in SUBSET Gives(pc), TypeOK
    PROVE  \/ g = {}
           \/ pc \in {"fdisk", "pvcreate"} /\ \A f \in g : \E d \in Disks : f \in {Table(d), PV(d)}
           \/ /\ pc = "vgcreate" /\ ~ HasGroup /\ \A d \in selected : Table(d) \in kept
              /\ \A f \in g : \E d \in selected : f = VG(d)
           \/ pc = "lvcreate" /\ Active /\ \A f \in g : \E v \in Volumes : f = LV(v)
           \/ pc = "mkfs_lvm" /\ \A f \in g : f \notin kept /\ \E v \in nodes : f = FS(v)
           \/ pc = "mount" /\ g \subseteq {File("etc", "dirs")} /\ nodes # {}
           \/ pc = "bootstrap" /\ g \subseteq {File("pkg", "packages")} /\ mounted # {}
           \/ pc \in {"random-seed", "configure"} /\ mounted # {}
              /\ g \subseteq {File("etc", "seed"), File("etc", "config")}
<1>1. CASE pc = "fdisk"
  BY <1>1 DEF Gives, When, TypeOK
<1>2. CASE pc = "pvcreate"
  BY <1>2 DEF Gives, When, TypeOK
<1>3. CASE pc = "vgcreate"
  BY <1>3 DEF Gives, When, TypeOK
<1>4. CASE pc = "lvcreate"
  BY <1>4 DEF Gives, When
<1>5. CASE pc = "mkfs_lvm"
  BY <1>5 DEF Gives, When, MakeFs
<1>6. CASE pc = "mount"
  BY <1>6 DEF Gives, When, Mountable
<1>7. CASE pc = "bootstrap"
  BY <1>7 DEF Gives, When
<1>8. CASE pc \in {"random-seed", "configure"}
  BY <1>8 DEF Gives, When, EtcIsKept
<1>9. CASE pc \notin {"fdisk", "pvcreate", "vgcreate", "lvcreate", "mkfs_lvm", "mount",
                      "bootstrap", "random-seed", "configure"}
  BY <1>9 DEF Gives, When
<1> QED
  BY <1>1, <1>2, <1>3, <1>4, <1>5, <1>6, <1>7, <1>8, <1>9

\* The kind of a fact is its first component.
LEMMA Shapes ==
    ASSUME NEW x, NEW y
    PROVE  /\ Table(x)[1] = "table" /\ PV(x)[1] = "pv" /\ VG(x)[1] = "vg"
           /\ LV(x)[1] = "lv" /\ FS(x)[1] = "fs" /\ File(x, y)[1] = x
           /\ FS(x) = FS(y) => x = y
           /\ VG(x) = VG(y) => x = y
BY DEF Table, PV, VG, LV, FS, File

LEMMA VolumeFactShapes ==
    \A f \in VolumeFacts : f[1] \in {"lv", "fs", "etc", "pkg"}
BY DEF VolumeFacts, Volumes, EtcFiles, LV, FS, File

\* What is on the volumes can only be got further.
LEMMA StatusGrows ==
    ASSUME OnVolumes \subseteq kept'
    PROVE  Status' >= Status
<1>1. VolumeFacts' = VolumeFacts
  BY DEF VolumeFacts, EtcFiles, Volumes, LV, FS, File
<1>2. Installed => Installed'
  BY <1>1 DEF Installed, OnVolumes
<1>3. \A v \in Volumes : FS(v) \in VolumeFacts /\ LV(v) \in VolumeFacts
  BY DEF VolumeFacts
<1>4. ASSUME NEW v \in Volumes PROVE FS(v) \in kept => FS(v) \in kept'
  BY <1>3 DEF OnVolumes
<1>5. ASSUME NEW v \in Volumes PROVE LV(v) \in kept => LV(v) \in kept'
  BY <1>3 DEF OnVolumes
<1> DEFINE AllFS == \A v \in Volumes : FS(v) \in kept
           AllLV == \A v \in Volumes : LV(v) \in kept
<1>6. (AllFS => AllFS') /\ (AllLV => AllLV')
  BY <1>4, <1>5 DEF Volumes, FS, LV
<1>7. Installed => AllFS /\ AllLV
  BY <1>3 DEF Installed
<1>8. Status = IF Installed THEN 3 ELSE IF AllFS THEN 2 ELSE IF AllLV THEN 1 ELSE 0
  BY DEF Status
<1>9. Status' = IF Installed' THEN 3 ELSE IF AllFS' THEN 2 ELSE IF AllLV' THEN 1 ELSE 0
  BY DEF Status
<1> HIDE DEF AllFS, AllLV
<1> QED
  BY <1>2, <1>6, <1>7, <1>8, <1>9

\* A step that makes neither a group nor a file system only adds.
LEMMA KeptMore ==
    ASSUME NEW g, \A d \in Disks : VG(d) \notin g, \A v \in Volumes : FS(v) \notin g
    PROVE  Kept(g) = g \cup kept
BY DEF Kept

\* What a step, or the part of it that a power loss lets happen, does to the
\* disks: the status grows, but for a new group in place of one that is cut off;
\* and a group stays.
LEMMA EffectOnDisks ==
    ASSUME IInv,
           NEW g \in SUBSET Gives(pc), NEW t \in SUBSET Takes(pc),
           kept' = Kept(g) \ t
    PROVE  /\ kept' \subseteq Facts
           /\ Group' = {} => Group = {} /\ OnVolumes' = {} /\ g \cap VolumeFacts = {}
           /\ Status' >= Status \/ (Cut /\ Status' = 0 /\ ~ Cut')
<1>0. TypeOK /\ NoGroupNoVolumes /\ kept \subseteq Facts
  BY DEF IInv, TypeOK
<1>1. \A f \in t : \E d \in Disks : f = Table(d)
  BY <1>0 DEF Takes, TypeOK
<1>2. \A d \in Disks : VG(d) \notin t
  BY <1>1, Shapes
<1>3. t \cap VolumeFacts = {}
  BY <1>1, Shapes, VolumeFactShapes
<1>4. /\ Facts = DiskFacts \cup VolumeFacts
      /\ VolumeFacts' = VolumeFacts
      /\ nodes # {} \/ mounted # {} => Group # {}
  BY <1>0 DEF Facts, VolumeFacts, EtcFiles, Volumes, LV, FS, File, NoGroupNoVolumes
<1>5. ASSUME Kept(g) = g \cup kept, g \subseteq Facts, \A d \in Disks : VG(d) \notin g,
             Group # {} \/ g \cap VolumeFacts = {}
      PROVE  /\ kept' \subseteq Facts
             /\ Group' = {} => Group = {} /\ OnVolumes' = {} /\ g \cap VolumeFacts = {}
             /\ Status' >= Status
  <2>1. kept' = (g \cup kept) \ t
    BY <1>5
  <2>2. OnVolumes \subseteq kept'
    BY <2>1, <1>3 DEF OnVolumes
  <2>3. Group' = Group
    BY <2>1, <1>2, <1>5 DEF Group, VG
  <2>4. Group = {} => OnVolumes = {} /\ g \cap VolumeFacts = {}
    BY <1>0, <1>5 DEF NoGroupNoVolumes
  <2>5. Group = {} => OnVolumes' = {}
    BY <2>1, <2>4, <1>4 DEF OnVolumes
  <2> QED
    BY <2>1, <2>2, <2>3, <2>4, <2>5, <1>0, <1>5, StatusGrows
<1>6. CASE g = {}
  BY <1>5, <1>6, KeptMore
<1>7. CASE pc \in {"fdisk", "pvcreate"} /\ \A f \in g : \E d \in Disks : f \in {Table(d), PV(d)}
  <2>1. \A f \in g : f[1] \in {"table", "pv"} /\ f \in DiskFacts
    BY <1>7, Shapes DEF DiskFacts
  <2>2. g \cap VolumeFacts = {}
    BY <2>1, VolumeFactShapes
  <2>3. /\ \A d \in Disks : VG(d) \notin g
        /\ \A v \in Volumes : FS(v) \notin g
    BY <2>1, Shapes
  <2> QED
    BY <2>1, <2>2, <2>3, <1>4, <1>5, KeptMore
<1>8. CASE pc = "lvcreate" /\ Active /\ \A f \in g : \E v \in Volumes : f = LV(v)
  <2>1. \A f \in g : f[1] = "lv" /\ f \in VolumeFacts
    BY <1>8, Shapes DEF VolumeFacts
  <2>2. /\ \A d \in Disks : VG(d) \notin g
        /\ \A v \in Volumes : FS(v) \notin g
    BY <2>1, Shapes
  <2> QED
    BY <1>8, <2>1, <2>2, <1>4, <1>5, KeptMore DEF Active
<1>9. CASE /\ pc \in {"mount", "bootstrap", "random-seed", "configure"}
           /\ nodes # {} \/ mounted # {}
           /\ g \subseteq {File("etc", "dirs"), File("pkg", "packages"),
                           File("etc", "seed"), File("etc", "config")}
  <2>1. \A f \in g : f[1] \in {"etc", "pkg"} /\ f \in VolumeFacts
    BY <1>9, Shapes DEF VolumeFacts, EtcFiles
  <2>2. /\ \A d \in Disks : VG(d) \notin g
        /\ \A v \in Volumes : FS(v) \notin g
    BY <2>1, Shapes
  <2> QED
    BY <1>9, <2>1, <2>2, <1>4, <1>5, KeptMore
\* A file system is made where there is none: not all of them are there, and no
\* volume is touched.
<1>10. CASE pc = "mkfs_lvm" /\ g # {} /\ \A f \in g : f \notin kept /\ \E v \in nodes : f = FS(v)
  <2>1. nodes \subseteq Volumes /\ Group # {} /\ t = {}
    BY <1>0, <1>4, <1>10 DEF TypeOK, Takes
  <2>2. \A f \in g : f[1] = "fs" /\ f \in VolumeFacts /\ f \notin kept
    BY <1>10, <2>1, Shapes DEF VolumeFacts
  <2>3. \A d \in Disks : VG(d) \notin g
    BY <2>2, Shapes
  <2>4. kept' = g \cup {f \in kept : f[1] \in Volumes => FS(f[1]) \notin g}
    BY <2>1, <2>3 DEF Kept
  <2>5. kept' \subseteq Facts
    BY <2>2, <2>4, <1>0, <1>4
  <2>6. Group \subseteq Group'
    BY <2>4, Shapes DEF Group, Volumes
  <2>7. \E v \in Volumes : FS(v) \notin kept
    BY <1>10, <2>1
  <2>8. \A v \in Volumes : LV(v) \in kept => LV(v) \in kept'
    BY <2>4, Shapes DEF Volumes
  <2>9. Status \in {0, 1}
    BY <2>7 DEF Status, Installed, VolumeFacts
  <2>10. Status = 1 => \A v \in Volumes : LV(v) \in kept'
    BY <2>7, <2>8, <2>9 DEF Status
  <2>11. (\A v \in Volumes : LV(v) \in kept') => Status' >= 1
    BY DEF Status, Volumes, LV
  <2>12. Status' >= 0
    BY DEF Status
  <2> QED
    BY <2>1, <2>5, <2>6, <2>9, <2>10, <2>11, <2>12
\* A new group has no volumes.  It is made when the tables of the old one cannot
\* be seen: there is none, or it is cut off.
<1>11. CASE /\ pc = "vgcreate" /\ g # {} /\ ~ HasGroup /\ \A d \in selected : Table(d) \in kept
            /\ \A f \in g : \E d \in selected : f = VG(d)
  <2>1. t = {} /\ selected \subseteq Disks
    BY <1>0, <1>11 DEF TypeOK, Takes
  <2>2. \A f \in g : f[1] = "vg" /\ f \in DiskFacts
    <3> SUFFICES ASSUME NEW f \in g PROVE f[1] = "vg" /\ f \in DiskFacts
      OBVIOUS
    <3>1. PICK d \in Disks : f = VG(d)
      BY <1>11, <2>1
    <3> QED
      BY <3>1, Shapes DEF DiskFacts
  <2>3. \E d \in Disks : VG(d) \in g
    BY <1>11, <2>1
  <2>4. \A v : FS(v) \notin g
    BY <2>2, Shapes
  <2>5. kept' = g \cup {f \in kept : f[1] \in {"table", "pv"}}
    BY <2>1, <2>3, <2>4 DEF Kept
  <2>6. kept' \subseteq Facts
    BY <2>2, <2>5, <1>0, <1>4
  <2>7. kept' \cap VolumeFacts = {}
    BY <2>2, <2>5, VolumeFactShapes
  <2>8. Group' # {}
    BY <2>3, <2>5 DEF Group, VG
  <2>9. Status' = 0
    BY <2>7, <1>4 DEF Status, Installed, VolumeFacts, Volumes, LV, FS
  <2>10. \A d \in Group' : d \in selected
    BY <1>11, <2>5, Shapes DEF Group, VG
  <2>11. ~ Cut'
    BY <1>11, <2>5, <2>10, Shapes DEF Cut, Table
  <2>12. Group # {} => Cut
    BY <1>11 DEF HasGroup, Cut
  <2>13. Group = {} => Status = 0
    BY <1>0 DEF NoGroupNoVolumes, OnVolumes, Status, Installed, VolumeFacts, Volumes
  <2> QED
    BY <2>6, <2>8, <2>9, <2>11, <2>12, <2>13
<1> QED
  BY <1>0, <1>6, <1>7, <1>8, <1>9, <1>10, <1>11, GivesKinds

-----------------------------------------------------------------------------
LEMMA InitIsSound == Init => IInv
<1> SUFFICES ASSUME Init PROVE IInv
  OBVIOUS
<1>1. faulty \in BOOLEAN /\ faults = 0 /\ boots = 0
  BY DEF Init
<1>2. faults \in 0..MaxFaults /\ boots \in 0..MaxBoots
  BY <1>1, BoundsAssumption
<1>3. TypeOK
  BY <1>1, <1>2 DEF Init, TypeOK
<1>4. NoGroupNoVolumes
  BY DEF Init, NoGroupNoVolumes, OnVolumes
<1> QED
  BY <1>3, <1>4 DEF IInv

\* A step of the setup is the effect of some of what it does.
LEMMA RunStepEffect ==
    ASSUME RunStep, TypeOK
    PROVE  \E g \in SUBSET Gives(pc), t \in SUBSET Takes(pc), m \in SUBSET nodes : Effect(g, t, m)
<1> DEFINE mounts == IF pc = "mount" THEN Mountable ELSE {}
<1>1. mounts \subseteq nodes
  BY DEF Mountable
<1>2. \/ Effect(Gives(pc), Takes(pc), mounts)
      \/ \E g \in SUBSET Gives(pc), t \in SUBSET Takes(pc), m \in SUBSET mounts : Effect(g, t, m)
  BY DEF RunStep
<1> QED
  BY <1>1, <1>2

LEMMA FaultsBounded ==
    ASSUME TypeOK, Fault \/ NoFault
    PROVE  faults' \in 0..MaxFaults /\ faulty' \in BOOLEAN
<1>1. faulty' \in BOOLEAN
  BY DEF TypeOK, Fault, NoFault
<1>2. faults \in 0..MaxFaults
  BY DEF TypeOK
<1>3. faults' = faults \/ (faults < MaxFaults /\ faults' = faults + 1)
  BY DEF Fault, NoFault
<1> QED
  BY <1>1, <1>2, <1>3, BoundsAssumption

\* The facts on the disks, and with them the group, stay as they are.
LEMMA SameDisks ==
    ASSUME kept' = kept
    PROVE  /\ Group' = Group /\ OnVolumes' = OnVolumes /\ Cut' = Cut
           /\ Status' = Status /\ Existing' = Existing
<1>1. Group' = Group
  BY DEF Group, VG
<1>2. VolumeFacts' = VolumeFacts
  BY DEF VolumeFacts, EtcFiles, Volumes, LV, FS, File
<1>3. Cut' = Cut /\ OnVolumes' = OnVolumes
  BY <1>1, <1>2 DEF Cut, Table, OnVolumes
<1>4. Status' = Status
  BY <1>2 DEF Status, Installed, Volumes, FS, LV
<1>5. Existing' = Existing
  BY <1>1, <1>3 DEF Existing, Active, Volumes, LV
<1> QED
  BY <1>1, <1>3, <1>4, <1>5

\* A volume exists only in a group.
LEMMA ExistingIsInGroup == Existing \subseteq Volumes /\ (Group = {} => Existing = {})
BY DEF Existing, Active

LEMMA StepKeepsInvariant == IInv /\ [Next]_vars => IInv'
<1> SUFFICES ASSUME IInv, [Next]_vars PROVE IInv'
  OBVIOUS
<1> USE DEF IInv
<1>0. TypeOK /\ NoGroupNoVolumes
  OBVIOUS
<1>1. CASE UNCHANGED vars
  <2>1. kept' = kept
    BY <1>1 DEF vars
  <2>2. Facts' = Facts /\ (Setup <=> Setup')
    BY <1>1 DEF vars, Facts, DiskFacts, VolumeFacts, EtcFiles, Volumes, Table, PV, VG, LV, FS, File, Setup, Stepping, Steps
  <2> QED
    BY <1>0, <1>1, <2>1, <2>2, SameDisks DEF vars, TypeOK, NoGroupNoVolumes, Volumes
<1>2. ASSUME kept' = kept, nodes' \subseteq nodes \cup Existing, mounted' \subseteq mounted \cup nodes,
             pc' \in Stepping \cup {"off", "boot", "setup", "up"}, selected' \subseteq Disks,
             faulty' \in BOOLEAN, faults' \in 0..MaxFaults, boots' \in 0..MaxBoots
      PROVE  IInv'
  <2>1. Facts' = Facts /\ Volumes' = Volumes
    BY DEF Facts, DiskFacts, VolumeFacts, EtcFiles, Volumes, Table, PV, VG, LV, FS, File
  <2>2. Setup' \/ pc' \in {"off", "boot", "up"}
    BY <1>2 DEF Setup, Stepping, Steps
  <2>3. TypeOK'
    BY <1>0, <1>2, <2>1, <2>2, ExistingIsInGroup DEF TypeOK
  <2>4. NoGroupNoVolumes'
    BY <1>0, <1>2, SameDisks, ExistingIsInGroup DEF NoGroupNoVolumes
  <2> QED
    BY <2>3, <2>4
<1>3. pc \in Stepping \cup {"off", "boot", "setup", "up"}
  BY <1>0 DEF TypeOK, Setup
<1>4. CASE PowerOn
  <2>1. boots \in 0..MaxBoots /\ boots < MaxBoots /\ boots' = boots + 1
    BY <1>0, <1>4 DEF PowerOn, TypeOK
  <2>2. boots' \in 0..MaxBoots
    BY <2>1, BoundsAssumption
  <2>3. faulty' \in BOOLEAN /\ faults' \in 0..MaxFaults
    BY <1>0, <1>4, FaultsBounded DEF PowerOn, TypeOK
  <2>4. nodes' \subseteq Existing /\ kept' = kept /\ pc' = "boot" /\ UNCHANGED <<mounted, selected>>
    BY <1>4 DEF PowerOn
  <2> QED
    BY <1>0, <1>2, <2>2, <2>3, <2>4 DEF TypeOK
<1>5. CASE StartSetup
  BY <1>0, <1>2, <1>5 DEF StartSetup, TypeOK
<1>6. CASE MountAll
  <2>1. mounted' \subseteq nodes
    BY <1>6 DEF MountAll, Mountable
  <2> QED
    BY <1>0, <1>2, <1>6, <2>1, FaultsBounded DEF MountAll, TypeOK
<1>7. CASE LateDisks
  BY <1>0, <1>2, <1>7 DEF LateDisks, TypeOK
<1>8. CASE Decline
  BY <1>0, <1>2, <1>8 DEF Decline, TypeOK
<1>9. CASE SelectDisks
  <2>1. Head(Steps) \in Stepping
    BY SteppingIs DEF Steps
  <2> QED
    BY <1>0, <1>2, <1>9, <2>1 DEF SelectDisks, TypeOK
<1>10. CASE ShutDown
  <2>1. kept' = kept
    BY <1>10 DEF ShutDown, PowerOff, Kept
  <2> QED
    BY <1>0, <1>2, <1>10, <2>1 DEF ShutDown, PowerOff, NoFault, TypeOK
<1>11. CASE RunStep
  <2>1. PICK g \in SUBSET Gives(pc), t \in SUBSET Takes(pc), m \in SUBSET nodes : Effect(g, t, m)
    BY <1>0, <1>11, RunStepEffect
  <2>2. /\ kept' \subseteq Facts
        /\ Group' = {} => Group = {} /\ OnVolumes' = {} /\ g \cap VolumeFacts = {}
    BY <2>1, EffectOnDisks DEF Effect
  <2>3. pc' \in Stepping \cup {"up"}
    BY <1>11, NextStepIs DEF RunStep
  <2>4. Facts' = Facts /\ Volumes' = Volumes
    BY DEF Facts, DiskFacts, VolumeFacts, EtcFiles, Volumes, Table, PV, VG, LV, FS, File
  <2>5. Setup' \/ pc' \in {"off", "boot", "up"}
    BY <2>3 DEF Setup, Stepping, Steps
  <2>6. faults' \in 0..MaxFaults /\ faulty' \in BOOLEAN
    BY <1>0, <1>11, FaultsBounded DEF RunStep
  <2>7. TypeOK'
    BY <1>0, <1>11, <2>1, <2>2, <2>4, <2>5, <2>6 DEF TypeOK, RunStep, Effect
  <2>8. g \cap VolumeFacts = {} => {v \in Volumes : LV(v) \in g} = {}
    BY DEF VolumeFacts
  <2>9. NoGroupNoVolumes'
    BY <1>0, <2>1, <2>2, <2>8 DEF NoGroupNoVolumes, Effect
  <2> QED
    BY <2>7, <2>9
<1>12. CASE PowerLoss
  <2>1. PICK g \in SUBSET Gives(pc), t \in SUBSET Takes(pc) : PowerOff(g, t)
    BY <1>12 DEF PowerLoss
  <2>2. kept' \subseteq Facts /\ (Group' = {} => OnVolumes' = {})
    BY <2>1, EffectOnDisks DEF PowerOff
  <2>3. Facts' = Facts
    BY DEF Facts, DiskFacts, VolumeFacts, EtcFiles, Volumes, Table, PV, VG, LV, FS, File
  <2>4. TypeOK'
    BY <1>0, <1>12, <2>1, <2>2, <2>3, FaultsBounded DEF TypeOK, PowerLoss, PowerOff
  <2>5. NoGroupNoVolumes'
    BY <2>1, <2>2 DEF NoGroupNoVolumes, PowerOff
  <2> QED
    BY <2>4, <2>5
<1> QED
  BY <1>1, <1>4, <1>5, <1>6, <1>7, <1>8, <1>9, <1>10, <1>11, <1>12 DEF Next

\* The variables keep their types and no volume is there without its group,
\* whatever fails and whenever the power does. (etc/rc, etc/rc.bootstrap)
THEOREM SetupIsSound == Spec => []IInv
BY InitIsSound, StepKeepsInvariant, PTL DEF Spec

-----------------------------------------------------------------------------
\* A step of the machine is a step of the installation, or none.
LEMMA StepIsAbstractStep == IInv /\ [Next]_vars => [Abstract!Next]_(Abstract!ivars)
<1> SUFFICES ASSUME IInv, [Next]_vars PROVE [Abstract!Next]_(Abstract!ivars)
  OBVIOUS
<1>0. TypeOK /\ Abstract!Stages = 0..3
  BY DEF IInv, Abstract!Stages
<1>1. Setup \in BOOLEAN /\ Setup' \in BOOLEAN /\ Cut' \in BOOLEAN /\ Status' \in 0..3
  BY DEF Setup, Cut, Status
<1>2. Setup = (pc \in Stepping \cup {"setup"}) /\ Setup' = (pc' \in Stepping \cup {"setup"})
  BY DEF Setup, Stepping, Steps
<1>3. ASSUME kept' = kept, Setup' = Setup
      PROVE  UNCHANGED Abstract!ivars
  <2>1. Status' = Status /\ Cut' = Cut
    BY <1>3, SameDisks
  <2>2. Abstract!ivars = <<Status, Setup, Cut>>
    BY DEF Abstract!ivars, Status
  <2>3. Abstract!ivars' = <<Status', Setup', Cut'>>
    BY DEF Abstract!ivars, Status
  <2> QED
    BY <1>3, <2>1, <2>2, <2>3
<1>4. ASSUME Setup, Status' >= Status \/ (Cut /\ Status' = 0 /\ ~ Cut')
      PROVE  Abstract!Next
  BY <1>0, <1>1, <1>4 DEF Abstract!Next, Abstract!Advance, Abstract!Replace, Status
<1>5. CASE UNCHANGED vars
  BY <1>2, <1>3, <1>5 DEF vars
<1>6. CASE PowerOn \/ MountAll \/ ShutDown
  <2>1. kept' = kept
    BY <1>6 DEF PowerOn, MountAll, ShutDown, PowerOff, Kept
  <2> QED
    BY <1>2, <1>3, <1>6, <2>1, SteppingIs DEF PowerOn, MountAll, ShutDown, PowerOff
<1>7. CASE StartSetup
  <2>1. ~ Setup /\ Setup' /\ kept' = kept
    BY <1>2, <1>7, SteppingIs DEF StartSetup
  <2>2. Status' = Status /\ Cut' = Cut /\ Setup' = TRUE
    BY <1>1, <2>1, SameDisks
  <2>3. Abstract!Begin
    BY <2>1, <2>2 DEF Abstract!Begin, Status
  <2> QED
    BY <2>3 DEF Abstract!Next
<1>8. CASE LateDisks \/ SelectDisks
  <2>1. Head(Steps) \in Stepping
    BY SteppingIs DEF Steps
  <2> QED
    BY <1>2, <1>3, <1>8, <2>1, SteppingIs DEF LateDisks, SelectDisks
<1>9. CASE Decline
  <2>1. Setup /\ kept' = kept
    BY <1>2, <1>9 DEF Decline
  <2> QED
    BY <1>1, <1>4, <2>1, SameDisks DEF Status
<1>10. CASE RunStep
  <2>1. PICK g \in SUBSET Gives(pc), t \in SUBSET Takes(pc), m \in SUBSET nodes : Effect(g, t, m)
    BY <1>0, <1>10, RunStepEffect
  <2>2. Status' >= Status \/ (Cut /\ Status' = 0 /\ ~ Cut')
    BY <2>1, EffectOnDisks DEF Effect
  <2> QED
    BY <1>2, <1>4, <1>10, <2>2 DEF RunStep
\* Outside a setup there is nothing that a power loss could stop halfway.
<1>11. CASE PowerLoss
  <2>1. PICK g \in SUBSET Gives(pc), t \in SUBSET Takes(pc) : PowerOff(g, t)
    BY <1>11 DEF PowerLoss
  <2>2. Status' >= Status \/ (Cut /\ Status' = 0 /\ ~ Cut')
    BY <2>1, EffectOnDisks DEF PowerOff
  <2>3. CASE Setup
    BY <1>4, <2>2, <2>3
  <2>4. CASE ~ Setup
    <3>1. pc \in {"boot", "up"}
      BY <1>0, <1>11, <2>4 DEF TypeOK, PowerLoss
    <3>2. Gives(pc) = {} /\ Takes(pc) = {}
      BY <3>1 DEF Gives, When, Takes
    <3>3. kept' = kept
      BY <2>1, <3>2 DEF PowerOff, Kept
    <3> QED
      BY <1>1, <1>2, <1>3, <2>1, <2>4, <3>3, SteppingIs DEF PowerOff
  <2> QED
    BY <2>3, <2>4
<1> QED
  BY <1>5, <1>6, <1>7, <1>8, <1>9, <1>10, <1>11 DEF Next

LEMMA InitIsAbstractInit == Init => Abstract!Init
<1> SUFFICES ASSUME Init PROVE Abstract!Init
  OBVIOUS
<1>1. Status = 0
  BY DEF Init, Status, Installed, VolumeFacts, Volumes
<1>2. ~ Setup /\ ~ Cut
  BY SteppingIs DEF Init, Setup, Cut, Group
<1> QED
  BY <1>1, <1>2 DEF Abstract!Init, Status

\* What is installed gets lost only by a setup that follows one which was
\* stopped after it had cut a disk off: for any disks, failures and power losses
\* the machine is an Installation. (rc:39-51, rc.bootstrap:531-632)
THEOREM InstallationIsImplemented == Spec => ImplementsInstallation
<1>1. IInv /\ [Next]_vars => [Abstract!Next]_(Abstract!ivars)
  BY StepIsAbstractStep
<1>2. Init => Abstract!Init
  BY InitIsAbstractInit
<1> QED
  BY <1>1, <1>2, SetupIsSound, PTL DEF Spec, Abstract!Spec, ImplementsInstallation

-----------------------------------------------------------------------------
(***************************************************************************)
(* The setup leaves a complete machine.  What every step has done is still *)
(* there after the steps that follow, provided that no command has failed  *)
(* by itself.                                                              *)
(***************************************************************************)
FromConfigure == {"configure", "up"}
FromSeed == FromConfigure \cup {"random-seed"}
FromBootstrap == FromSeed \cup {"bootstrap"}
FromMount == FromBootstrap \cup {"mount"}
FromMkfs == FromMount \cup {"mkfs_lvm"}
FromLvcreate == FromMkfs \cup {"lvcreate"}
FromVgcreate == FromLvcreate \cup {"vgcreate"}
FromBoot == FromVgcreate \cup {"pvcreate", "mkfs_boot"}

Etc(x) == "etc" \in nodes => File("etc", x) \in kept
Progress ==
    /\ pc \in FromBoot => \A d \in selected : Table(d) \in kept
    /\ pc \in FromVgcreate => \A d \in selected : PV(d) \in kept \/ VG(d) \in kept
    /\ pc \in FromLvcreate => Group # {}
    /\ pc \in FromMkfs => (Active => \A v \in Volumes : LV(v) \in kept)
    /\ pc \in FromMount => \A v \in nodes : FS(v) \in kept
    /\ pc \in FromBootstrap => nodes \subseteq mounted /\ Etc("dirs")
    /\ pc \in FromSeed => ("pkg" \in nodes => File("pkg", "packages") \in kept)
    /\ pc \in FromConfigure => Etc("seed")
    /\ pc = "up" => Etc("config")

\* Before a setup runs, the nodes are those of the volumes that are there.
Starts ==
    /\ pc \in {"off", "boot", "setup"} => selected = {}
    /\ pc \in Stepping => selected # {}
    /\ pc = "boot" /\ ~ faulty => nodes = Existing
MInv == IInv /\ Starts /\ CompleteIsUsed /\ (selected # {} /\ ~ faulty => Progress)

LEMMA Order ==
    /\ pc = "dd" => NextStep = "fdisk"
    /\ pc = "fdisk" => NextStep = "mkfs_boot"
    /\ pc = "mkfs_boot" => NextStep = "pvcreate"
    /\ pc = "pvcreate" => NextStep = "vgcreate"
    /\ pc = "vgcreate" => NextStep = "lvcreate"
    /\ pc = "lvcreate" => NextStep = "mkfs_lvm"
    /\ pc = "mkfs_lvm" => NextStep = "mount"
    /\ pc = "mount" => NextStep = "bootstrap"
    /\ pc = "bootstrap" => NextStep = "random-seed"
    /\ pc = "random-seed" => NextStep = "configure"
    /\ pc = "configure" => NextStep = "up"
<1>1. DOMAIN Steps = {1, 2, 3, 4, 5, 6, 7, 8, 9, 10, 11} /\ Len(Steps) = 11
  BY DEF Steps
<1>2. /\ Steps[1] = "dd" /\ Steps[2] = "fdisk" /\ Steps[3] = "mkfs_boot" /\ Steps[4] = "pvcreate"
      /\ Steps[5] = "vgcreate" /\ Steps[6] = "lvcreate" /\ Steps[7] = "mkfs_lvm" /\ Steps[8] = "mount"
      /\ Steps[9] = "bootstrap" /\ Steps[10] = "random-seed" /\ Steps[11] = "configure"
  BY DEF Steps
<1> HIDE DEF Steps
<1> DEFINE i == CHOOSE j \in DOMAIN Steps : Steps[j] = pc
<1>3. NextStep = IF i = Len(Steps) THEN "up" ELSE Steps[i + 1]
  BY DEF NextStep
<1>4. ASSUME NEW j \in DOMAIN Steps, Steps[j] = pc PROVE i = j
  BY <1>1, <1>2, <1>4
<1> HIDE DEF i
<1> QED
  BY <1>1, <1>2, <1>3, <1>4

\* A step in which nothing goes wrong keeps what the steps before have done.
LEMMA StepKeepsProgress ==
    ASSUME IInv, Progress, selected # {}, selected' = selected,
           pc \in Stepping, pc' = NextStep,
           Effect(Gives(pc), Takes(pc), IF pc = "mount" THEN Mountable ELSE {})
    PROVE  Progress'
<1> DEFINE given == Gives(pc)
<1>0. TypeOK /\ nodes \subseteq Volumes /\ selected \subseteq Disks
  BY DEF IInv, TypeOK
<1>1. kept' = Kept(given) \ Takes(pc) /\ nodes' = nodes \cup {v \in Volumes : LV(v) \in given}
  BY DEF Effect
<1>2. mounted' = mounted \cup (IF pc = "mount" THEN Mountable ELSE {})
  BY DEF Effect
<1>3. pc # "dd" => Takes(pc) = {}
  BY DEF Takes
\* The steps that only add facts, and no volumes.
<1>4. ASSUME \A f \in given : f[1] \in {"table", "pv", "etc", "pkg"}, pc # "dd"
      PROVE  kept' = given \cup kept /\ nodes' = nodes
  <2>1. \A x : VG(x) \notin given /\ FS(x) \notin given /\ LV(x) \notin given
    BY <1>4, Shapes
  <2> QED
    BY <1>1, <1>3, <1>4, <2>1, KeptMore
<1>5. ASSUME \A f \in given : f[1] \in {"etc", "pkg"}, pc # "dd"
      PROVE  Group' = Group /\ (Active' => Active)
  <2>1. \A d \in Disks : (VG(d) \in kept' <=> VG(d) \in kept) /\ (Table(d) \in kept' <=> Table(d) \in kept)
    BY <1>4, <1>5, Shapes
  <2> QED
    BY <2>1 DEF Group, VG, Table, Active, Cut
<1>6. CASE pc = "dd"
  <2>1. pc' = "fdisk"
    BY <1>6, Order
  <2> QED
    BY <2>1 DEF Progress, FromConfigure, FromSeed, FromBootstrap, FromMount, FromMkfs, FromLvcreate,
             FromVgcreate, FromBoot
<1>7. CASE pc = "fdisk"
  <2>1. pc' = "mkfs_boot"
    BY <1>7, Order
  <2>2. given = {Table(d) : d \in selected}
    BY <1>7 DEF Gives, When
  <2>3. kept' = given \cup kept
    BY <1>4, <1>7, <2>2, Shapes
  <2>4. \A d \in selected : Table(d) \in kept'
    BY <2>2, <2>3
  <2> QED
    BY <2>1, <2>4 DEF Progress, FromConfigure, FromSeed, FromBootstrap, FromMount, FromMkfs, FromLvcreate,
             FromVgcreate, FromBoot, Table
<1>8. CASE pc = "mkfs_boot"
  <2>1. pc' = "pvcreate"
    BY <1>8, Order
  <2>2. given = {}
    BY <1>8 DEF Gives, When
  <2>3. kept' = kept
    BY <1>4, <1>8, <2>2
  <2>4. \A d \in selected : Table(d) \in kept'
    BY <1>8, <2>3 DEF Progress, FromBoot
  <2> QED
    BY <2>1, <2>4 DEF Progress, FromConfigure, FromSeed, FromBootstrap, FromMount, FromMkfs, FromLvcreate,
             FromVgcreate, FromBoot, Table
<1>9. CASE pc = "pvcreate"
  <2>1. pc' = "vgcreate"
    BY <1>9, Order
  <2>2. given = {PV(d) : d \in {d \in selected : VG(d) \notin kept /\ Table(d) \in kept}}
    BY <1>9 DEF Gives, When
  <2>3. kept' = given \cup kept
    <3>1. \A f \in given : \E d \in selected : f = PV(d)
      BY <2>2
    <3>2. \A f \in given : f[1] = "pv"
      BY <3>1, Shapes
    <3> QED
      BY <1>4, <1>9, <3>2
  <2>4. \A d \in selected : Table(d) \in kept
    BY <1>9 DEF Progress, FromBoot
  <2>5. \A d \in selected : Table(d) \in kept' /\ (PV(d) \in kept' \/ VG(d) \in kept')
    BY <2>2, <2>3, <2>4
  <2> QED
    BY <2>1, <2>5 DEF Progress, FromConfigure, FromSeed, FromBootstrap, FromMount, FromMkfs, FromLvcreate,
             FromVgcreate, FromBoot, Table, PV, VG
\* Had a selected disk been in a group, that would have been seen: it has a table.
<1>10. CASE pc = "vgcreate"
  <2>1. pc' = "lvcreate" /\ Takes(pc) = {}
    BY <1>3, <1>10, Order
  <2>2. \A d \in selected : Table(d) \in kept /\ (PV(d) \in kept \/ VG(d) \in kept)
    BY <1>10 DEF Progress, FromBoot, FromVgcreate
  <2>3. ~ HasGroup => \A d \in selected : PV(d) \in kept
    BY <1>0, <2>2 DEF HasGroup, Group
  <2>4. given = IF HasGroup THEN {} ELSE {VG(d) : d \in selected}
    BY <1>10, <2>2, <2>3 DEF Gives, When
  <2>5. \A f \in given : f[1] = "vg"
    BY <2>4, Shapes
  <2>6. \A x : FS(x) \notin given
    BY <2>5, Shapes
  <2>7. \A f \in kept : f[1] \in {"table", "pv"} => f \in kept'
    BY <1>1, <2>1, <2>6 DEF Kept
  <2>8. given \subseteq kept'
    BY <1>1, <2>1 DEF Kept
  <2>9. HasGroup => kept' = kept
    BY <1>1, <2>1, <2>4 DEF Kept
  <2>10. Group' # {}
    <3>1. CASE HasGroup
      BY <2>9, <3>1 DEF HasGroup, Group, VG
    <3>2. CASE ~ HasGroup
      <4>1. PICK d \in selected : VG(d) \in given
        BY <2>4, <3>2
      <4> QED
        BY <1>0, <2>8, <4>1 DEF Group, VG
    <3> QED
      BY <3>1, <3>2
  <2>11. \A d \in selected : Table(d) \in kept'
    BY <2>2, <2>7, Shapes
  <2>12. \A d \in selected : PV(d) \in kept' \/ VG(d) \in kept'
    BY <2>2, <2>3, <2>7, <2>9, Shapes
  <2> QED
    BY <2>1, <2>10, <2>11, <2>12 DEF Progress, FromConfigure, FromSeed, FromBootstrap, FromMount, FromMkfs,
             FromLvcreate, FromVgcreate, FromBoot, Table, PV, VG
<1>11. CASE pc \in {"lvcreate", "mkfs_lvm"}
  <2>0. Takes(pc) = {}
    BY <1>3, <1>11
  <2>1. \A f \in given : f[1] \in {"lv", "fs"}
    <3>1. pc = "lvcreate" => given \subseteq {LV(v) : v \in Volumes}
      BY DEF Gives, When
    <3>2. pc = "mkfs_lvm" => given \subseteq {FS(v) : v \in nodes}
      BY DEF Gives, When, MakeFs
    <3> QED
      BY <1>11, <3>1, <3>2, Shapes
  <2>2. \A d \in Disks : VG(d) \notin given
    BY <2>1, Shapes
  <2>3. kept' = given \cup {f \in kept : f[1] \in Volumes => FS(f[1]) \notin given}
    BY <1>1, <2>0, <2>2 DEF Kept
  <2>4. \A f \in kept : f[1] \in {"table", "pv", "vg", "lv", "fs"} => f \in kept'
    BY <2>3 DEF Volumes
  <2>5. \A x : (VG(x) \in kept' <=> VG(x) \in kept) /\ (Table(x) \in kept' <=> Table(x) \in kept)
    BY <2>1, <2>3, <2>4, Shapes
  <2>6. Group' = Group /\ Active' = Active
    BY <2>5 DEF Group, VG, Table, Active, Cut
  <2>7. /\ \A d \in selected : Table(d) \in kept' /\ (PV(d) \in kept' \/ VG(d) \in kept')
        /\ Group' # {}
    <3>1. /\ \A d \in selected : Table(d) \in kept /\ (PV(d) \in kept \/ VG(d) \in kept)
          /\ Group # {}
      BY <1>11 DEF Progress, FromBoot, FromVgcreate, FromLvcreate, FromMkfs
    <3> QED
      BY <2>4, <2>6, <3>1, Shapes
  <2>8. Active => \A v \in Volumes : LV(v) \in kept'
    <3>1. CASE pc = "lvcreate"
      <4>1. Active => given = {LV(v) : v \in Volumes} \ kept
        BY <3>1 DEF Gives, When
      <4> QED
        BY <2>3, <2>4, <4>1, Shapes
    <3>2. CASE pc = "mkfs_lvm"
      <4>1. Active => \A v \in Volumes : LV(v) \in kept
        BY <3>2 DEF Progress, FromMkfs
      <4> QED
        BY <2>4, <4>1, Shapes
    <3> QED
      BY <1>11, <3>1, <3>2
  <2>9. CASE pc = "lvcreate"
    <3>1. pc' = "mkfs_lvm"
      BY <2>9, Order
    <3> QED
      BY <2>6, <2>7, <2>8, <3>1 DEF Progress, FromConfigure, FromSeed, FromBootstrap, FromMount, FromMkfs,
             FromLvcreate, FromVgcreate, FromBoot, Table, PV, VG, Volumes, LV
  <2>10. CASE pc = "mkfs_lvm"
    <3>1. pc' = "mount"
      BY <2>10, Order
    <3>2. given = {FS(v) : v \in nodes} \ kept
      BY <2>10 DEF Gives, When, MakeFs
    <3>3. \A x : LV(x) \notin given
      <4>1. \A f \in given : f[1] = "fs"
        BY <3>2, Shapes
      <4> QED
        BY <4>1, Shapes
    <3>4. nodes' = nodes
      BY <1>1, <3>3
    <3>5. \A v \in nodes' : FS(v) \in kept'
      <4>1. ASSUME NEW v \in nodes, FS(v) \in kept PROVE FS(v) \in kept'
        BY <2>4, <4>1, Shapes
      <4>2. given \subseteq kept'
        BY <2>3
      <4>3. ASSUME NEW v \in nodes, FS(v) \notin kept PROVE FS(v) \in kept'
        BY <3>2, <4>2, <4>3
      <4> QED
        BY <3>4, <4>1, <4>3
    <3> QED
      BY <2>6, <2>7, <2>8, <3>1, <3>5 DEF Progress, FromConfigure, FromSeed, FromBootstrap, FromMount,
             FromMkfs, FromLvcreate, FromVgcreate, FromBoot, Table, PV, VG, Volumes, LV, FS
  <2> QED
    BY <1>11, <2>9, <2>10
\* The last steps add files to the volumes, and to nothing else.
<1>12. CASE pc \in {"mount", "bootstrap", "random-seed", "configure"}
  <2>1. \A f \in given : f[1] \in {"etc", "pkg"}
    BY <1>12, Shapes DEF Gives, When
  <2>2. kept' = given \cup kept /\ nodes' = nodes /\ Group' = Group /\ (Active' => Active)
    BY <1>4, <1>5, <1>12, <2>1
  <2>3. /\ \A d \in selected : Table(d) \in kept /\ (PV(d) \in kept \/ VG(d) \in kept)
        /\ Group # {} /\ (Active => \A v \in Volumes : LV(v) \in kept)
        /\ \A v \in nodes : FS(v) \in kept
    BY <1>12 DEF Progress, FromBoot, FromVgcreate, FromLvcreate, FromMkfs, FromMount, FromBootstrap, FromSeed,
             FromConfigure
  <2>4. /\ \A d \in selected' : Table(d)' \in kept' /\ (PV(d)' \in kept' \/ VG(d)' \in kept')
        /\ Group' # {} /\ (Active' => \A v \in Volumes' : LV(v)' \in kept')
        /\ \A v \in nodes' : FS(v)' \in kept'
    BY <2>2, <2>3 DEF Table, PV, VG, LV, FS, Volumes
  <2>5. CASE pc = "mount"
    <3>1. pc' = "bootstrap" /\ mounted' = mounted \cup Mountable
      BY <1>2, <2>5, Order
    <3>2. Mountable = nodes
      BY <2>3 DEF Mountable
    <3>3. "etc" \in nodes => File("etc", "dirs") \in given
      BY <2>5, <3>2 DEF Gives, When
    <3>4. nodes' \subseteq mounted' /\ Etc("dirs")'
      BY <2>2, <3>1, <3>2, <3>3 DEF Etc, File
    <3> QED
      BY <2>4, <3>1, <3>4 DEF Progress, FromConfigure, FromSeed, FromBootstrap, FromMount, FromMkfs,
             FromLvcreate, FromVgcreate, FromBoot
  <2>6. CASE pc # "mount"
    <3>1. mounted' = mounted /\ nodes \subseteq mounted /\ Etc("dirs")
      BY <1>2, <1>12, <2>6 DEF Progress, FromBootstrap, FromSeed, FromConfigure
    <3>2. nodes' \subseteq mounted' /\ Etc("dirs")'
      BY <2>2, <3>1 DEF Etc, File
    <3>3. "etc" \in nodes => EtcIsKept
      BY <3>1 DEF EtcIsKept, Etc
    <3>4. CASE pc = "bootstrap"
      <4>1. pc' = "random-seed"
        BY <3>4, Order
      <4>2. "pkg" \in nodes' => File("pkg", "packages")' \in kept'
        BY <2>2, <3>1, <3>4 DEF Gives, When, File
      <4> QED
        BY <2>4, <3>2, <4>1, <4>2 DEF Progress, FromConfigure, FromSeed, FromBootstrap, FromMount, FromMkfs,
             FromLvcreate, FromVgcreate, FromBoot
    <3>5. CASE pc \in {"random-seed", "configure"}
      <4>1. "pkg" \in nodes' => File("pkg", "packages")' \in kept'
        BY <2>2, <3>5 DEF Progress, FromSeed, FromConfigure, File
      <4>2. pc = "random-seed" => pc' = "configure" /\ Etc("seed")'
        BY <2>2, <3>3, Order DEF Gives, When, Etc, File
      <4>3. pc = "configure" => pc' = "up" /\ Etc("config")'
        BY <2>2, <3>3, Order DEF Gives, When, Etc, File
      <4>4. pc = "configure" => Etc("seed")'
        BY <2>2 DEF Progress, FromConfigure, Etc, File
      <4> QED
        BY <2>4, <3>2, <3>5, <4>1, <4>2, <4>3, <4>4 DEF Progress, FromConfigure, FromSeed, FromBootstrap,
             FromMount, FromMkfs, FromLvcreate, FromVgcreate, FromBoot
    <3> QED
      BY <1>12, <2>6, <3>4, <3>5
  <2> QED
    BY <2>5, <2>6
<1> QED
  BY <1>6, <1>7, <1>8, <1>9, <1>10, <1>11, <1>12, SteppingIs

\* After the last step, with all disks and all nodes there, nothing is missing.
LEMMA ProgressIsEnough ==
    ASSUME IInv, Progress, pc = "up"
    PROVE  Complete \/ Cut \/ nodes # Existing
<1> SUFFICES ASSUME ~ Cut, nodes = Existing PROVE Complete
  OBVIOUS
<1>1. pc \in FromLvcreate /\ pc \in FromMkfs /\ pc \in FromMount /\ pc \in FromBootstrap /\ pc \in FromSeed
      /\ pc \in FromConfigure
  BY DEF FromLvcreate, FromMkfs, FromMount, FromBootstrap, FromSeed, FromConfigure
<1>2. Active
  BY <1>1 DEF Progress, Active
<1>3. \A v \in Volumes : LV(v) \in kept
  BY <1>1, <1>2 DEF Progress
<1>4. nodes = Volumes
  BY <1>2, <1>3 DEF Existing
<1>5. /\ \A v \in Volumes : FS(v) \in kept
      /\ \A x \in EtcFiles : File("etc", x) \in kept
      /\ File("pkg", "packages") \in kept
  BY <1>1, <1>4 DEF Progress, Etc, Volumes, EtcFiles
<1> QED
  BY <1>2, <1>3, <1>5 DEF Complete, Installed, VolumeFacts

\* A machine that is complete has all its nodes when all its volumes exist.
LEMMA CompleteHasVolumes == ASSUME Complete PROVE Existing = Volumes
BY DEF Complete, Installed, Existing, VolumeFacts

\* Completeness is a matter of the disks.
LEMMA SameComplete == ASSUME kept' = kept PROVE Complete' = Complete
<1>1. VolumeFacts' = VolumeFacts /\ Group' = Group /\ Cut' = Cut
  BY SameDisks DEF VolumeFacts, EtcFiles, Volumes, LV, FS, File
<1> QED
  BY <1>1 DEF Complete, Active, Installed

LEMMA StartsKept == ASSUME MInv, [Next]_vars PROVE Starts'
<1>0. /\ TypeOK /\ Starts
      /\ Stepping' = Stepping
  BY DEF MInv, IInv, Stepping, Steps
<1>1. CASE UNCHANGED vars
  BY <1>0, <1>1, SameDisks DEF vars, Starts
<1>2. CASE PowerOn
  <2>1. faulty' \/ nodes' = Existing
    BY <1>2 DEF PowerOn, Fault
  <2> QED
    BY <1>0, <1>2, <2>1, SteppingIs, SameDisks DEF PowerOn, Starts
<1>3. CASE StartSetup \/ LateDisks
  BY <1>0, <1>3, SteppingIs DEF StartSetup, LateDisks, Starts
<1>4. CASE MountAll \/ Decline
  BY <1>0, <1>4, SteppingIs DEF MountAll, Decline, Starts
<1>5. CASE SelectDisks
  <2>1. Head(Steps) \in Stepping
    BY SteppingIs DEF Steps
  <2> QED
    BY <1>0, <1>5, <2>1, SteppingIs DEF SelectDisks, Starts
<1>6. CASE RunStep
  <2>1. pc' \in Stepping \cup {"up"} /\ selected' = selected /\ selected # {}
    BY <1>0, <1>6, NextStepIs DEF RunStep, Starts
  <2> QED
    BY <1>0, <2>1, SteppingIs DEF Starts
<1>7. CASE PowerLoss \/ ShutDown
  <2>1. pc' = "off" /\ selected' = {}
    BY <1>7 DEF PowerLoss, ShutDown, PowerOff
  <2> QED
    BY <1>0, <2>1, SteppingIs DEF Starts
<1> QED
  BY <1>1, <1>2, <1>3, <1>4, <1>5, <1>6, <1>7 DEF Next

LEMMA CompleteIsUsedKept == ASSUME MInv, [Next]_vars PROVE CompleteIsUsed'
<1>0. TypeOK /\ Starts /\ CompleteIsUsed
  BY DEF MInv, IInv
<1>1. CASE UNCHANGED vars
  <2>1. Complete' = Complete /\ Volumes' = Volumes /\ EtcIsKept' = EtcIsKept
    BY <1>1, SameComplete DEF vars, Volumes, EtcIsKept, File
  <2> QED
    BY <1>0, <1>1, <2>1 DEF vars, CompleteIsUsed
<1>2. CASE PowerOn \/ PowerLoss \/ ShutDown
  <2>1. pc' \in {"off", "boot"}
    BY <1>2 DEF PowerOn, PowerLoss, ShutDown, PowerOff
  <2> QED
    BY <2>1 DEF CompleteIsUsed
\* A setup starts when the node is missing, which it is not.
<1>3. CASE StartSetup
  <2>1. kept' = kept /\ faulty' = faulty /\ pc = "boot" /\ "etc" \notin nodes
    BY <1>3 DEF StartSetup
  <2>2. ~ faulty => ~ Complete
    BY <1>0, <2>1, CompleteHasVolumes DEF Starts, Volumes
  <2> QED
    BY <2>1, <2>2, SameComplete DEF CompleteIsUsed
<1>4. CASE MountAll
  <2>1. kept' = kept /\ pc = "boot" /\ pc' = "up"
    BY <1>4 DEF MountAll
  <2>2. ~ faulty' => ~ faulty /\ mounted' = Mountable
    BY <1>4 DEF MountAll, Fault, NoFault
  <2>3. Complete /\ ~ faulty => nodes = Volumes
    BY <1>0, <2>1, CompleteHasVolumes DEF Starts
  <2>4. Complete => (\A v \in Volumes : FS(v) \in kept) /\ File("etc", "dirs") \in kept
    BY DEF Complete, Installed, VolumeFacts, EtcFiles
  <2>5. Complete /\ ~ faulty => Mountable = Volumes
    BY <2>3, <2>4 DEF Mountable
  <2>6. Complete /\ ~ faulty' => mounted' = Volumes' /\ EtcIsKept'
    BY <2>1, <2>2, <2>4, <2>5 DEF EtcIsKept, Volumes, File
  <2> QED
    BY <2>1, <2>6, SameComplete DEF CompleteIsUsed
<1>5. CASE LateDisks \/ Decline
  <2>1. kept' = kept /\ faulty' = faulty /\ selected' = selected /\ pc = "setup"
    BY <1>5 DEF LateDisks, Decline
  <2> QED
    BY <1>0, <2>1, SameComplete DEF CompleteIsUsed
<1>6. CASE SelectDisks \/ RunStep
  <2>1. selected' # {}
    BY <1>0, <1>6 DEF SelectDisks, RunStep, Starts
  <2> QED
    BY <2>1 DEF CompleteIsUsed
<1> QED
  BY <1>1, <1>2, <1>3, <1>4, <1>5, <1>6 DEF Next

LEMMA ProgressKept ==
    ASSUME MInv, [Next]_vars, selected' # {}, ~ faulty'
    PROVE  Progress'
<1>0. TypeOK /\ Starts /\ (selected # {} /\ ~ faulty => Progress)
  BY DEF MInv, IInv
<1>1. CASE UNCHANGED vars
  <2>1. Progress
    BY <1>0, <1>1 DEF vars
  <2>2. Group' = Group /\ Active' = Active
    BY <1>1 DEF vars, Group, VG, Active, Cut, Table
  <2> QED
    BY <1>1, <2>1, <2>2 DEF vars, Progress, FromConfigure, FromSeed, FromBootstrap, FromMount, FromMkfs,
             FromLvcreate, FromVgcreate, FromBoot, Etc, Table, PV, VG, LV, FS, File, Volumes
<1>2. CASE SelectDisks
  <2>1. pc' = "dd"
    BY <1>2 DEF SelectDisks, Steps
  <2> QED
    BY <2>1 DEF Progress, FromConfigure, FromSeed, FromBootstrap, FromMount, FromMkfs,
             FromLvcreate, FromVgcreate, FromBoot
<1>3. CASE RunStep
  <2>1. selected' = selected /\ pc \in Stepping /\ pc' = NextStep
    BY <1>3 DEF RunStep
  <2>2. ~ faulty /\ Effect(Gives(pc), Takes(pc), IF pc = "mount" THEN Mountable ELSE {})
    BY <1>3 DEF RunStep, Fault, NoFault
  <2> QED
    BY <1>0, <2>1, <2>2, StepKeepsProgress DEF MInv
\* Nothing else happens to a machine with selected disks before it is off.
<1>4. CASE PowerOn \/ StartSetup \/ MountAll \/ LateDisks \/ Decline \/ PowerLoss \/ ShutDown
  <2>1. selected' = {}
    BY <1>0, <1>4 DEF PowerOn, StartSetup, MountAll, LateDisks, Decline, PowerLoss, ShutDown, PowerOff, Starts
  <2> QED
    BY <2>1
<1> QED
  BY <1>1, <1>2, <1>3, <1>4 DEF Next

\* A machine that has been set up without a failure of its own is complete and
\* uses its volumes at every later boot. (rc:39-51, rc.bootstrap:531-632)
THEOREM MachineIsSound == Spec => []MachineIsComplete
<1>1. Init => MInv
  <2> SUFFICES ASSUME Init PROVE MInv
    OBVIOUS
  <2>1. selected = {} /\ pc = "off" /\ pc \notin Stepping
    BY SteppingIs DEF Init
  <2>2. Starts /\ CompleteIsUsed
    BY <2>1 DEF Starts, CompleteIsUsed
  <2> QED
    BY <2>1, <2>2, InitIsSound DEF MInv
<1>2. MInv /\ [Next]_vars => MInv'
  BY StepKeepsInvariant, StartsKept, CompleteIsUsedKept, ProgressKept DEF MInv
<1>3. MInv => MachineIsComplete
  BY ProgressIsEnough DEF MInv, MachineIsComplete, FinishedIsComplete
<1> QED
  BY <1>1, <1>2, <1>3, PTL DEF Spec
=============================================================================
