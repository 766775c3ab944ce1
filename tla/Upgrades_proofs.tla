--------------------------- MODULE Upgrades_proofs ---------------------------
(***************************************************************************)
(* cargos-upgrade on any number of disks: what one run after the other,    *)
(* with commands that fail and power losses, leaves on them; and any       *)
(* number of instances at once, with their pid file.                       *)
(***************************************************************************)
EXTENDS Upgrades, Sequences, FiniteSetTheorems, TLAPS

\* The commands that follow the question, those of one pass of the loop, and
\* those between the first change of a disk and its umount.
Asked == {"menucfg", "download", "fsck", "mount", "test", "loader", "menu", "copy", "clean", "umount"}
InPass == {"fsck", "mount", "test", "loader", "menu", "copy", "clean", "umount"}
Changing == {"menu", "copy", "clean", "umount"}
InWork == u_pc \in Changing /\ boot # Upgrade!Ram

\* /boot is the current disk or nothing, and then a command has failed.
Control ==
    /\ boot # Upgrade!Ram => boot = cur /\ u_pc \in InPass \ {"fsck", "mount"}
    /\ boot = Upgrade!Ram /\ u_pc \in InPass \ {"fsck", "mount"} => silent = TRUE /\ faults # 0
    /\ u_pc \in Asked => rver # cver
    /\ u_pc \in Asked \ {"menucfg"} /\ (world # "tmpfull" \/ ~ silent \/ faults = 0) => tmpmenu = TRUE
    /\ u_pc \in Asked /\ faults = 0 => rver # Upgrade!NoVersion
    /\ u_pc \in {"failed", "notboot", "off"} => faults # 0
HaveMenus == \A d \in Upgrade!Disks : disks[d][Upgrade!Menu] # "absent"
DisksTyped ==
    /\ disks \in [Upgrade!Disks -> [Upgrade!Files -> Upgrade!States]]
    /\ menu \in [Upgrade!Disks -> Seq(Upgrade!Versions \cup {Upgrade!NoVersion})]
    /\ boot \in Upgrade!Disks \cup {Upgrade!Ram} /\ dirty \subseteq Upgrade!Files
    /\ cver \in Upgrade!Versions /\ remote \in Upgrade!Versions
    /\ rver \in Upgrade!Versions \cup {Upgrade!NoVersion}
    /\ u_pc \in Upgrade!Labels /\ cur \in Upgrade!Disks /\ todo \in Seq(Upgrade!Images) /\ faults \in Nat
UpgradeTyped == DisksTyped /\ Control /\ HaveMenus

Whole(d, f) == disks[d][f] = "whole"
Left == {todo[i] : i \in DOMAIN todo}
Needed == {f \in Upgrade!Images : f[2] \in {rver, cver}}

\* What the commands of a pass have made of the current disk, each if it and
\* those before it have not failed.
ImagesArrive ==
    /\ u_pc = "copy" => \A f \in Needed : f \in Left \/ Whole(cur, f)
    /\ u_pc \in {"clean", "umount"} => \A f \in Needed : Whole(cur, f)
GoesWell ==
    /\ u_pc \in Changing => Whole(cur, Upgrade!Loader)
    /\ u_pc \in Changing \ {"menu"} => Whole(cur, Upgrade!Menu) /\ menu[cur] = <<rver, cver>>
    /\ ImagesArrive

------------------------------------------------------------------------------
\* Every disk that cannot be started has been paid for by a fault, except the
\* one that is being changed; and that one starts again at its umount.
Broken == {d \in Upgrade!Disks : ~ Upgrade!Bootable(d)}
Charged == Cardinality(Broken \cup {cur}) <= faults
Spared ==
    world # "tmpfull" =>
        /\ ~ InWork => Cardinality(Broken) <= faults
        /\ boot = Upgrade!Ram /\ u_pc \in {"test", "loader"} => Charged
        /\ InWork => Charged \/ (GoesWell /\ Cardinality(Broken \ {cur}) <= faults)

\* A run in which no unchecked command fails upgrades one disk after the other.
Upgraded(d) ==
    /\ Upgrade!DefaultBoots(d) /\ menu[d] = <<rver, cver>>
    /\ \A f \in Upgrade!Images : disks[d][f] = IF f[2] \in {rver, cver} THEN "whole" ELSE "absent"
OthersGone == u_pc = "umount" => \A f \in Upgrade!Images \ Needed : disks[cur][f] = "absent"
UpgradeGoesOn ==
    ~ silent /\ rver # Upgrade!NoVersion =>
        /\ u_pc \in InPass => \A d \in Upgrade!Disks : d < cur => Upgraded(d)
        /\ u_pc = "done" => \A d \in Upgrade!Disks : Upgraded(d)
        /\ u_pc \in Changing => GoesWell /\ OthersGone

\* Before the first fault all disks have the running release, and nothing in a
\* menu that does not start; the new release is copied before the old one.
EntryBoots(d) == Whole(d, Upgrade!Loader) /\ Whole(d, Upgrade!Menu) => Upgrade!Bootable(d)
HasEntry(d, v) == \E i \in DOMAIN menu[d] : menu[d][i] = v
OldLast == \A i, j \in DOMAIN todo : i < j /\ todo[i][2] = cver => todo[j][2] = cver
Level ==
    /\ \A d \in Upgrade!Disks : Whole(d, Upgrade!Loader) /\ Whole(d, Upgrade!Menu) /\ Upgrade!Starts(d, cver)
    /\ \A d \in Upgrade!Disks : HasEntry(d, cver)
    /\ \A d \in Upgrade!Disks : \A i \in DOMAIN menu[d] :
           Upgrade!Starts(d, menu[d][i]) \/ (d = cur /\ u_pc = "copy" /\ menu[d][i] = rver)
    /\ u_pc \in Upgrade!Ended \cup {"current", "menucfg", "download"} =>
           \A d, e \in Upgrade!Disks : menu[d] = menu[e]
    /\ u_pc \in InPass => \A d \in Upgrade!Disks : d < cur => menu[d] = <<rver, cver>>
    /\ GoesWell
\* After it a disk that is being changed gets what it needs at its umount.
Recovers ==
    u_pc \in Changing \ {"menu"} =>
        ImagesArrive /\ (Whole(cur, Upgrade!Menu) => HasEntry(cur, cver))
EntriesStart ==
    world # "lossy" /\ faults <= 1 =>
        /\ \A d \in Upgrade!Disks : EntryBoots(d) \/ (InWork /\ d = cur)
        /\ u_pc = "copy" => OldLast
        /\ faults = 0 => Level
        /\ InWork => Recovers
UpgradeInv == UpgradeTyped /\ Spared /\ UpgradeGoesOn /\ EntriesStart

------------------------------------------------------------------------------
(* Values, sequences and sets *)

LEMMA Values ==
    /\ NDisks \in Nat /\ 1 \in Upgrade!Disks /\ Upgrade!Disks = 1 .. NDisks
    /\ MaxFaults \in Nat /\ MaxRuns \in Nat /\ 1 \in Upgrade!Versions
    /\ Upgrade!NoVersion = 0 /\ 0 \notin Upgrade!Versions /\ Upgrade!Ram = 0 /\ 0 \notin Upgrade!Disks
    /\ Upgrade!Versions \subseteq Nat
    /\ Upgrade!Loader \in Upgrade!Files /\ Upgrade!Menu \in Upgrade!Files /\ Upgrade!Loader # Upgrade!Menu
    /\ Upgrade!Images \subseteq Upgrade!Files
    /\ Upgrade!Loader \notin Upgrade!Images /\ Upgrade!Menu \notin Upgrade!Images
    /\ \A f \in Upgrade!Images : f[2] \in Upgrade!Versions /\ f[2] # 0
    /\ \A v \in Upgrade!Versions, k \in {"rootfs", "kernel"} :
           <<k, v>> \in Upgrade!Images /\ <<k, v>>[2] = v
    /\ \A f \in Upgrade!Images : \E k \in {"rootfs", "kernel"} : f = <<k, f[2]>>
BY VersionsAssumption, RunsAssumption, NDisksAssumption
DEF Upgrade!Disks, Upgrade!Versions, Upgrade!NoVersion, Upgrade!Ram, Upgrade!Files, Upgrade!Images,
    Upgrade!Loader, Upgrade!Menu

\* A pass copies what the menu names, the old release last.
LEMMA CopiesFacts ==
    ASSUME rver \in Upgrade!Versions \cup {Upgrade!NoVersion}, cver \in Upgrade!Versions
    PROVE  /\ Upgrade!Copies \in Seq(Upgrade!Images)
           /\ \A f \in Needed : \E i \in DOMAIN Upgrade!Copies : Upgrade!Copies[i] = f
           /\ rver # cver =>
                  \A i, j \in DOMAIN Upgrade!Copies :
                      i < j /\ Upgrade!Copies[i][2] = cver => Upgrade!Copies[j][2] = cver
<1> DEFINE C == Upgrade!Copies
<1>0. \A v \in Upgrade!Versions : <<"rootfs", v>> \in Upgrade!Images /\ <<"kernel", v>> \in Upgrade!Images
  BY DEF Upgrade!Images
<1>1. /\ 1 % 2 = 1 /\ 2 % 2 = 0 /\ 3 % 2 = 1 /\ 4 % 2 = 0
      /\ (1 + 1) \div 2 = 1 /\ (2 + 1) \div 2 = 1 /\ (3 + 1) \div 2 = 2 /\ (4 + 1) \div 2 = 2
  OBVIOUS
<1>2. CASE rver = Upgrade!NoVersion
  <2>1. Upgrade!Wanted = <<cver>>
    BY <1>2 DEF Upgrade!Wanted
  <2>2. C = [i \in 1 .. 2 |-> <<IF i % 2 = 1 THEN "rootfs" ELSE "kernel", <<cver>>[(i + 1) \div 2]>>]
    BY <2>1 DEF Upgrade!Copies
  <2>3. DOMAIN C = {1, 2} /\ C[1] = <<"rootfs", cver>> /\ C[2] = <<"kernel", cver>>
    BY <1>1, <2>2
  <2> HIDE DEF C
  <2>4. \A i \in 1 .. 2 : C[i] \in Upgrade!Images
    <3>1. C[1] \in Upgrade!Images /\ C[2] \in Upgrade!Images
      BY <1>0, <2>3
    <3> QED
      BY <3>1
  <2>5. C \in Seq(Upgrade!Images)
    BY <2>2, <2>4
  <2>6. \A f \in Needed : \E i \in DOMAIN C : C[i] = f
    BY <1>2, <2>3, Values DEF Needed
  <2> QED
    BY <2>3, <2>5, <2>6 DEF C
<1>3. CASE rver # Upgrade!NoVersion
  <2>1. Upgrade!Wanted = <<rver, cver>>
    BY <1>3 DEF Upgrade!Wanted
  <2>2. C = [i \in 1 .. 4 |-> <<IF i % 2 = 1 THEN "rootfs" ELSE "kernel", <<rver, cver>>[(i + 1) \div 2]>>]
    BY <2>1 DEF Upgrade!Copies
  <2>3. /\ DOMAIN C = {1, 2, 3, 4} /\ C[1] = <<"rootfs", rver>> /\ C[2] = <<"kernel", rver>>
        /\ C[3] = <<"rootfs", cver>> /\ C[4] = <<"kernel", cver>>
    BY <1>1, <2>2
  <2> HIDE DEF C
  <2>4. \A i \in 1 .. 4 : C[i] \in Upgrade!Images
    <3>1. C[1] \in Upgrade!Images /\ C[2] \in Upgrade!Images /\ C[3] \in Upgrade!Images /\ C[4] \in Upgrade!Images
      BY <1>0, <1>3, <2>3
    <3> QED
      BY <3>1
  <2>5. C \in Seq(Upgrade!Images)
    BY <2>2, <2>4
  <2>6. \A f \in Needed : \E i \in DOMAIN C : C[i] = f
    BY <2>3, Values DEF Needed
  <2> QED
    BY <2>3, <2>5, <2>6 DEF C
<1> QED
  BY <1>2, <1>3

LEMMA TodoFacts ==
    ASSUME todo \in Seq(Upgrade!Images), todo # <<>>
    PROVE  /\ Head(todo) \in Upgrade!Images /\ Tail(todo) \in Seq(Upgrade!Images)
           /\ \A f \in Left : f = Head(todo) \/ \E i \in DOMAIN Tail(todo) : Tail(todo)[i] = f
           /\ OldLast => \A i, j \in DOMAIN Tail(todo) :
                             i < j /\ Tail(todo)[i][2] = cver => Tail(todo)[j][2] = cver
           /\ OldLast /\ Head(todo)[2] = cver => \A f \in Left : f[2] = cver
<1> DEFINE t == Tail(todo)
<1>1. /\ Head(todo) = todo[1] /\ Head(todo) \in Upgrade!Images /\ t \in Seq(Upgrade!Images)
      /\ Len(todo) \in Nat \ {0} /\ DOMAIN todo = 1 .. Len(todo) /\ DOMAIN t = 1 .. Len(todo) - 1
      /\ \A i \in 1 .. Len(todo) - 1 : t[i] = todo[i + 1]
  OBVIOUS
<1> HIDE DEF t
<1>2. ASSUME NEW f \in Left PROVE f = Head(todo) \/ \E i \in DOMAIN t : t[i] = f
  <2>1. PICK i \in 1 .. Len(todo) : todo[i] = f
    BY <1>1 DEF Left
  <2>2. CASE i = 1
    BY <1>1, <2>1, <2>2
  <2>3. CASE i # 1
    <3>1. i - 1 \in 1 .. Len(todo) - 1 /\ (i - 1) + 1 = i
      BY <1>1, <2>3
    <3> QED
      BY <1>1, <2>1, <3>1
  <2> QED
    BY <2>2, <2>3
<1>3. ASSUME OldLast, NEW i \in DOMAIN t, NEW j \in DOMAIN t, i < j, t[i][2] = cver PROVE t[j][2] = cver
  <2>1. i + 1 \in 1 .. Len(todo) /\ j + 1 \in 1 .. Len(todo) /\ i + 1 < j + 1
    BY <1>1, <1>3
  <2> QED
    BY <1>1, <1>3, <2>1 DEF OldLast
<1>4. ASSUME OldLast, Head(todo)[2] = cver, NEW f \in Left PROVE f[2] = cver
  <2>1. PICK i \in 1 .. Len(todo) : todo[i] = f
    BY <1>1 DEF Left
  <2>2. i = 1 \/ 1 < i
    BY <1>1
  <2>3. 1 \in DOMAIN todo
    BY <1>1
  <2> QED
    BY <1>1, <1>4, <2>1, <2>2, <2>3 DEF OldLast
<1> QED
  BY <1>1, <1>2, <1>3, <1>4 DEF t

\* Sets of disks are counted.
LEMMA CountFacts ==
    ASSUME NEW S \in SUBSET Upgrade!Disks, NEW T \in SUBSET Upgrade!Disks, NEW d \in Upgrade!Disks
    PROVE  /\ Cardinality(S) \in Nat /\ (S = {} => Cardinality(S) = 0)
           /\ S \subseteq T => Cardinality(S) <= Cardinality(T)
           /\ S \subseteq T \cup {d} => Cardinality(S) <= Cardinality(T) + 1
           /\ S = Upgrade!Disks => Cardinality(S) = NDisks
<1>1. IsFiniteSet(Upgrade!Disks) /\ Cardinality(Upgrade!Disks) = NDisks
  <2>1. Cardinality(1 .. NDisks) = (IF 1 > NDisks THEN 0 ELSE NDisks - 1 + 1) /\ IsFiniteSet(1 .. NDisks)
    BY Values, FS_Interval
  <2> QED
    BY <2>1, Values
<1>2. IsFiniteSet(S) /\ IsFiniteSet(T) /\ IsFiniteSet(T \cup {d})
  BY <1>1, FS_Subset, FS_Union, FS_Singleton
<1>3. Cardinality(S) \in Nat /\ Cardinality(T) \in Nat
  BY <1>2, FS_CardinalityType
<1>4. S = {} => Cardinality(S) = 0
  BY FS_EmptySet
<1>5. S \subseteq T => Cardinality(S) <= Cardinality(T)
  BY <1>2, FS_Subset
<1>6. Cardinality(T \cup {d}) <= Cardinality(T) + 1
  BY <1>2, <1>3, FS_AddElement
<1>7. S \subseteq T \cup {d} => Cardinality(S) <= Cardinality(T \cup {d})
  BY <1>2, FS_Subset
<1>8. Cardinality(T \cup {d}) \in Nat
  BY <1>2, FS_CardinalityType
<1> QED
  BY <1>1, <1>3, <1>4, <1>5, <1>6, <1>7, <1>8

------------------------------------------------------------------------------
(* The types, and where the script is *)

LEMMA InitTyped == Upgrade!Init => UpgradeTyped
<1>1. SUFFICES ASSUME Upgrade!Init PROVE UpgradeTyped
  OBVIOUS
<1>2. Upgrade!Installed \in [Upgrade!Files -> Upgrade!States]
  BY DEF Upgrade!Installed, Upgrade!States
<1>3. DisksTyped
  BY <1>1, <1>2, Values DEF Upgrade!Init, DisksTyped, Upgrade!Labels, Upgrade!Ended
<1>4. Control
  BY <1>1, Values DEF Upgrade!Init, Control, InPass, Asked
<1>5. HaveMenus
  BY <1>1, Values DEF Upgrade!Init, HaveMenus, Upgrade!Installed
<1> QED
  BY <1>3, <1>4, <1>5 DEF UpgradeTyped

\* The files of disk d after one or all of them have been written.
TypedDisks == disks' \in [Upgrade!Disks -> [Upgrade!Files -> Upgrade!States]]
OthersStay(d) == \A e \in Upgrade!Disks : e # d => disks'[e] = disks[e]
OnlyFile(d, f, s) ==
    OthersStay(d) /\ \A g \in Upgrade!Files : disks'[d][g] = IF g = f THEN s ELSE disks[d][g]

LEMMA SetFile ==
    ASSUME DisksTyped, NEW d \in Upgrade!Disks, NEW f \in Upgrade!Files, NEW s \in Upgrade!States,
           disks' = [disks EXCEPT ![d][f] = s]
    PROVE  TypedDisks /\ OnlyFile(d, f, s)
BY DEF DisksTyped, OnlyFile, OthersStay, TypedDisks

LEMMA SetFiles ==
    ASSUME DisksTyped, NEW d \in Upgrade!Disks, NEW files \in [Upgrade!Files -> Upgrade!States],
           disks' = [disks EXCEPT ![d] = files]
    PROVE  TypedDisks /\ OthersStay(d) /\ disks'[d] = files
BY DEF DisksTyped, OthersStay, TypedDisks

LEMMA FileStates ==
    /\ {"absent", "torn", "whole"} = Upgrade!States
    /\ DisksTyped => \A d \in Upgrade!Disks, f \in Upgrade!Files : disks[d][f] \in Upgrade!States
BY DEF Upgrade!States, DisksTyped

\* What the commands that write do, for each of their outcomes.
LEMMA LoaderCases ==
    ASSUME UpgradeTyped, Upgrade!InstallLoader
    PROVE  /\ u_pc = "loader" /\ TypedDisks /\ dirty' \subseteq Upgrade!Files
           /\ UNCHANGED <<world, menu, cver, remote, rver, tmpmenu, cur, todo>>
           /\ \/ /\ boot # Upgrade!Ram /\ OnlyFile(cur, Upgrade!Loader, "whole")
                 /\ UNCHANGED <<boot, silent, faults>> /\ u_pc' = "menu"
              \/ /\ \E s \in {disks[cur][Upgrade!Loader], "torn"} : OnlyFile(cur, Upgrade!Loader, s)
                 /\ silent' = TRUE /\ u_pc' = "menu" /\ UNCHANGED boot
                 /\ IF boot = Upgrade!Ram THEN UNCHANGED faults ELSE faults' = faults + 1
              \/ /\ UNCHANGED <<disks, silent>>
                 /\ u_pc' = "failed" /\ boot' = Upgrade!Ram /\ faults' = faults + 1
<1> USE DEF UpgradeTyped
<1>0. cur \in Upgrade!Disks /\ Upgrade!Loader \in Upgrade!Files /\ "whole" \in Upgrade!States
      /\ "torn" \in Upgrade!States /\ disks[cur][Upgrade!Loader] \in Upgrade!States
  BY Values, FileStates DEF DisksTyped
<1>1. u_pc = "loader" /\ UNCHANGED <<world, menu, cver, remote, rver, tmpmenu, cur, todo>>
  BY DEF Upgrade!InstallLoader
<1>2. CASE /\ boot # Upgrade!Ram /\ Upgrade!Write(Upgrade!Loader, "whole")
           /\ u_pc' = "menu" /\ UNCHANGED <<boot, silent, faults>>
  <2>1. boot = cur /\ disks' = [disks EXCEPT ![cur][Upgrade!Loader] = "whole"]
        /\ dirty' = dirty \cup {Upgrade!Loader}
    BY <1>1, <1>2 DEF Upgrade!Write, Control
  <2>2. TypedDisks /\ OnlyFile(cur, Upgrade!Loader, "whole")
    BY <1>0, <2>1, SetFile
  <2> QED
    BY <1>0, <1>1, <1>2, <2>1, <2>2 DEF DisksTyped
<1>3. CASE /\ \E s \in {disks[cur][Upgrade!Loader], "torn"} : disks' = [disks EXCEPT ![cur][Upgrade!Loader] = s]
           /\ \/ boot = Upgrade!Ram /\ UNCHANGED faults
              \/ boot # Upgrade!Ram /\ Upgrade!Fault
           /\ silent' = TRUE /\ u_pc' = "menu" /\ UNCHANGED <<boot, dirty>>
  <2>1. PICK s \in {disks[cur][Upgrade!Loader], "torn"} : disks' = [disks EXCEPT ![cur][Upgrade!Loader] = s]
    BY <1>3
  <2>2. s \in Upgrade!States
    BY <1>0
  <2>3. TypedDisks /\ OnlyFile(cur, Upgrade!Loader, s)
    BY <1>0, <2>1, <2>2, SetFile
  <2>4. IF boot = Upgrade!Ram THEN UNCHANGED faults ELSE faults' = faults + 1
    BY <1>3 DEF Upgrade!Fault
  <2> QED
    BY <1>1, <1>3, <2>3, <2>4 DEF DisksTyped
<1>4. CASE Upgrade!Exit("failed") /\ Upgrade!Fault /\ UNCHANGED <<disks, silent>>
  <2>1. u_pc' = "failed" /\ boot' = Upgrade!Ram /\ faults' = faults + 1 /\ dirty' = {}
    BY <1>4 DEF Upgrade!Exit, Upgrade!Fault
  <2> QED
    BY <1>1, <1>4, <2>1 DEF DisksTyped, TypedDisks
<1> QED
  BY <1>2, <1>3, <1>4 DEF Upgrade!InstallLoader

LEMMA MenuCases ==
    ASSUME UpgradeTyped, Upgrade!InstallMenu
    PROVE  /\ u_pc = "menu" /\ u_pc' = "copy" /\ TypedDisks /\ dirty' \subseteq Upgrade!Files
           /\ menu' \in [Upgrade!Disks -> Seq(Upgrade!Versions \cup {Upgrade!NoVersion})]
           /\ todo' = Upgrade!Copies
           /\ UNCHANGED <<world, boot, cver, remote, rver, tmpmenu, cur>>
           /\ \/ boot = Upgrade!Ram /\ UNCHANGED <<disks, menu, silent, faults>>
              \/ /\ boot # Upgrade!Ram /\ UNCHANGED <<silent, faults>>
                 /\ OnlyFile(cur, Upgrade!Menu, IF tmpmenu THEN "whole" ELSE "torn")
                 /\ \A d \in Upgrade!Disks : menu'[d] = IF d = cur THEN <<rver, cver>> ELSE menu[d]
              \/ /\ silent' = TRUE /\ faults' = faults + 1 /\ UNCHANGED menu
                 /\ UNCHANGED disks \/ (boot # Upgrade!Ram /\ OnlyFile(cur, Upgrade!Menu, "torn"))
<1> USE DEF UpgradeTyped
<1>0. cur \in Upgrade!Disks /\ Upgrade!Menu \in Upgrade!Files /\ "whole" \in Upgrade!States
      /\ "torn" \in Upgrade!States
  BY Values, FileStates DEF DisksTyped
<1>1. u_pc = "menu" /\ u_pc' = "copy" /\ todo' = Upgrade!Copies
      /\ UNCHANGED <<world, boot, cver, remote, rver, tmpmenu, cur>>
  BY DEF Upgrade!InstallMenu
<1>2. ASSUME NEW s \in Upgrade!States, Upgrade!Write(Upgrade!Menu, s)
      PROVE  /\ TypedDisks /\ dirty' \subseteq Upgrade!Files
             /\ IF boot = Upgrade!Ram THEN UNCHANGED disks ELSE OnlyFile(cur, Upgrade!Menu, s)
  <2>1. CASE boot = Upgrade!Ram
    BY <1>2, <2>1 DEF Upgrade!Write, DisksTyped, TypedDisks
  <2>2. CASE boot # Upgrade!Ram
    <3>1. disks' = [disks EXCEPT ![cur][Upgrade!Menu] = s] /\ dirty' = dirty \cup {Upgrade!Menu}
      BY <1>2, <2>2 DEF Upgrade!Write, Control
    <3>2. TypedDisks /\ OnlyFile(cur, Upgrade!Menu, s)
      BY <1>0, <3>1, SetFile
    <3> QED
      BY <1>0, <2>2, <3>1, <3>2 DEF DisksTyped
  <2> QED
    BY <2>1, <2>2
<1>3. CASE /\ Upgrade!Write(Upgrade!Menu, IF tmpmenu THEN "whole" ELSE "torn")
           /\ menu' = IF boot = Upgrade!Ram THEN menu ELSE [menu EXCEPT ![boot] = <<rver, cver>>]
           /\ UNCHANGED <<silent, faults>>
  <2>1. (IF tmpmenu THEN "whole" ELSE "torn") \in Upgrade!States
    BY <1>0
  <2>2. /\ TypedDisks /\ dirty' \subseteq Upgrade!Files
        /\ IF boot = Upgrade!Ram THEN UNCHANGED disks
           ELSE OnlyFile(cur, Upgrade!Menu, IF tmpmenu THEN "whole" ELSE "torn")
    BY <1>2, <1>3, <2>1
  <2>3. CASE boot = Upgrade!Ram
    BY <1>1, <1>3, <2>2, <2>3 DEF DisksTyped
  <2>4. CASE boot # Upgrade!Ram
    <3>1. menu' = [menu EXCEPT ![cur] = <<rver, cver>>]
      BY <1>3, <2>4 DEF Control
    <3>2. <<rver, cver>> \in Seq(Upgrade!Versions \cup {Upgrade!NoVersion})
      BY DEF DisksTyped
    <3>3. /\ menu' \in [Upgrade!Disks -> Seq(Upgrade!Versions \cup {Upgrade!NoVersion})]
          /\ \A d \in Upgrade!Disks : menu'[d] = IF d = cur THEN <<rver, cver>> ELSE menu[d]
      BY <1>0, <3>1, <3>2 DEF DisksTyped
    <3> QED
      BY <1>1, <1>3, <2>2, <2>4, <3>3
  <2> QED
    BY <2>3, <2>4
<1>4. CASE /\ \/ Upgrade!Write(Upgrade!Menu, "torn")
              \/ UNCHANGED <<disks, dirty>>
           /\ silent' = TRUE /\ Upgrade!Fault
           /\ UNCHANGED menu
  <2>1. faults' = faults + 1 /\ menu' \in [Upgrade!Disks -> Seq(Upgrade!Versions \cup {Upgrade!NoVersion})]
    BY <1>4 DEF Upgrade!Fault, DisksTyped
  <2>2. /\ TypedDisks /\ dirty' \subseteq Upgrade!Files
        /\ UNCHANGED disks \/ (boot # Upgrade!Ram /\ OnlyFile(cur, Upgrade!Menu, "torn"))
    <3>1. CASE Upgrade!Write(Upgrade!Menu, "torn")
      BY <1>0, <1>2, <3>1
    <3>2. CASE UNCHANGED <<disks, dirty>>
      BY <3>2 DEF DisksTyped, TypedDisks
    <3> QED
      BY <1>4, <3>1, <3>2
  <2> QED
    BY <1>1, <1>4, <2>1, <2>2
<1> QED
  BY <1>3, <1>4 DEF Upgrade!InstallMenu

LEMMA CopyCases ==
    ASSUME UpgradeTyped, Upgrade!CopyImage
    PROVE  /\ u_pc = "copy" /\ todo # <<>> /\ TypedDisks /\ dirty' \subseteq Upgrade!Files
           /\ UNCHANGED <<world, menu, cver, remote, rver, tmpmenu, cur, silent>>
           /\ \/ /\ todo' = Tail(todo) /\ UNCHANGED <<u_pc, boot, faults>>
                 /\ IF boot = Upgrade!Ram THEN UNCHANGED disks ELSE OnlyFile(cur, Head(todo), "whole")
              \/ /\ boot # Upgrade!Ram /\ OnlyFile(cur, Head(todo), "torn") /\ UNCHANGED todo
                 /\ u_pc' = "failed" /\ boot' = Upgrade!Ram /\ faults' = faults + 1
<1> USE DEF UpgradeTyped
<1> DEFINE f == Head(todo)
<1>1. u_pc = "copy" /\ todo # <<>> /\ UNCHANGED <<world, menu, cver, remote, rver, tmpmenu, cur, silent>>
  BY DEF Upgrade!CopyImage
<1>2. cur \in Upgrade!Disks /\ f \in Upgrade!Files /\ "whole" \in Upgrade!States /\ "torn" \in Upgrade!States
  BY <1>1, Values, FileStates, TodoFacts DEF DisksTyped
<1>3. CASE Upgrade!Write(f, "whole") /\ todo' = Tail(todo) /\ UNCHANGED <<u_pc, boot, faults>>
  <2> HIDE DEF f
  <2>1. CASE boot = Upgrade!Ram
    BY <1>1, <1>3, <2>1 DEF Upgrade!Write, DisksTyped, TypedDisks, f
  <2>2. CASE boot # Upgrade!Ram
    <3>1. disks' = [disks EXCEPT ![cur][f] = "whole"] /\ dirty' = dirty \cup {f}
      BY <1>3, <2>2 DEF Upgrade!Write, Control
    <3>2. TypedDisks /\ OnlyFile(cur, f, "whole")
      BY <1>2, <3>1, SetFile
    <3>3. dirty' \subseteq Upgrade!Files
      BY <1>2, <3>1 DEF DisksTyped
    <3> QED
      BY <1>1, <1>3, <2>2, <3>2, <3>3 DEF f
  <2> QED
    BY <2>1, <2>2
<1>4. CASE /\ boot # Upgrade!Ram /\ disks' = [disks EXCEPT ![boot][f] = "torn"]
           /\ Upgrade!Exit("failed") /\ Upgrade!Fault /\ UNCHANGED todo
  <2>1. u_pc' = "failed" /\ boot' = Upgrade!Ram /\ faults' = faults + 1 /\ dirty' = {}
    BY <1>4 DEF Upgrade!Exit, Upgrade!Fault
  <2> HIDE DEF f
  <2>2. disks' = [disks EXCEPT ![cur][f] = "torn"]
    BY <1>4 DEF Control
  <2>3. TypedDisks /\ OnlyFile(cur, f, "torn")
    BY <1>2, <2>2, SetFile
  <2> QED
    BY <1>1, <1>4, <2>1, <2>3 DEF f
<1> QED
  BY <1>3, <1>4 DEF Upgrade!CopyImage

LEMMA CleanCases ==
    ASSUME UpgradeTyped, Upgrade!Clean
    PROVE  /\ u_pc = "clean" /\ u_pc' = "umount" /\ TypedDisks
           /\ UNCHANGED <<world, menu, boot, dirty, cver, remote, rver, tmpmenu, cur, todo, silent, faults>>
           /\ IF boot = Upgrade!Ram \/ rver = Upgrade!NoVersion THEN UNCHANGED disks
              ELSE /\ OthersStay(cur)
                   /\ \A f \in Upgrade!Files :
                          disks'[cur][f] = IF f \in Upgrade!Images \ Needed THEN "absent" ELSE disks[cur][f]
<1> USE DEF UpgradeTyped
<1>1. u_pc = "clean" /\ u_pc' = "umount"
      /\ UNCHANGED <<world, menu, boot, dirty, cver, remote, rver, tmpmenu, cur, todo, silent, faults>>
  BY DEF Upgrade!Clean, Upgrade!script
<1>2. CASE boot = Upgrade!Ram \/ rver = Upgrade!NoVersion
  BY <1>1, <1>2 DEF Upgrade!Clean, DisksTyped, TypedDisks
<1>3. CASE ~ (boot = Upgrade!Ram \/ rver = Upgrade!NoVersion)
  <2> DEFINE files == [f \in Upgrade!Files |->
                 IF f \in Upgrade!Images /\ f[2] \notin {cver, rver} THEN "absent" ELSE disks[cur][f]]
  <2>1. disks' = [disks EXCEPT ![cur] = files]
    BY <1>3 DEF Upgrade!Clean, Control, DisksTyped
  <2>2. cur \in Upgrade!Disks /\ files \in [Upgrade!Files -> Upgrade!States]
    BY FileStates DEF DisksTyped
  <2>3. \A f \in Upgrade!Files :
            files[f] = IF f \in Upgrade!Images \ Needed THEN "absent" ELSE disks[cur][f]
    BY DEF Needed
  <2> HIDE DEF files
  <2>4. TypedDisks /\ OthersStay(cur) /\ disks'[cur] = files
    BY <2>1, <2>2, SetFiles
  <2> QED
    BY <1>1, <1>3, <2>3, <2>4
<1> QED
  BY <1>2, <1>3

\* The power loss tears a file that is being written and, in a lossy world, any
\* that has been written since the mount.
LEMMA PowerCases ==
    ASSUME UpgradeTyped, Upgrade!PowerLoss
    PROVE  /\ u_pc' = "off" /\ boot' = Upgrade!Ram /\ dirty' = {} /\ faults' = faults + 1 /\ TypedDisks
           /\ UNCHANGED <<world, menu, cver, remote, rver, tmpmenu, cur, todo, silent>>
           /\ IF boot = Upgrade!Ram THEN UNCHANGED disks
              ELSE /\ OthersStay(cur)
                   /\ \A f \in Upgrade!Files :
                          \/ disks'[cur][f] = disks[cur][f]
                          \/ /\ disks'[cur][f] = "torn"
                             /\ world = "lossy" \/ f \in Upgrade!InFlight
<1> USE DEF UpgradeTyped
<1>1. u_pc' = "off" /\ boot' = Upgrade!Ram /\ dirty' = {} /\ faults' = faults + 1
      /\ UNCHANGED <<world, menu, cver, remote, rver, tmpmenu, cur, todo, silent>>
  BY DEF Upgrade!PowerLoss, Upgrade!Fault, Upgrade!script
<1>2. CASE boot = Upgrade!Ram
  BY <1>1, <1>2 DEF Upgrade!PowerLoss, DisksTyped, TypedDisks
<1>3. CASE boot # Upgrade!Ram
  <2>1. PICK lost \in SUBSET (Upgrade!InFlight \cup (IF world = "lossy" THEN dirty ELSE {})) :
            disks' = [disks EXCEPT ![boot] = [f \in Upgrade!Files |-> IF f \in lost THEN "torn" ELSE @[f]]]
    BY <1>3 DEF Upgrade!PowerLoss
  <2> DEFINE files == [f \in Upgrade!Files |-> IF f \in lost THEN "torn" ELSE disks[cur][f]]
  <2>2. disks' = [disks EXCEPT ![cur] = files]
    BY <1>3, <2>1 DEF Control, DisksTyped
  <2>3. cur \in Upgrade!Disks /\ files \in [Upgrade!Files -> Upgrade!States]
    BY FileStates DEF DisksTyped
  <2>4. \A f \in Upgrade!Files : files[f] = disks[cur][f] \/ (files[f] = "torn" /\ f \in lost)
    OBVIOUS
  <2> HIDE DEF files
  <2>5. TypedDisks /\ OthersStay(cur) /\ disks'[cur] = files
    BY <2>2, <2>3, SetFiles
  <2>6. \A f \in lost : world = "lossy" \/ f \in Upgrade!InFlight
    BY <2>1
  <2> QED
    BY <1>1, <1>3, <2>4, <2>5, <2>6
<1> QED
  BY <1>2, <1>3

LEMMA StepTypes == ASSUME UpgradeTyped, Upgrade!Next PROVE DisksTyped'
<1> USE Values DEF UpgradeTyped, Upgrade!media, Upgrade!script, Upgrade!Labels, Upgrade!Active, Upgrade!Ended,
    Upgrade!Fault
<1>1. CASE Upgrade!Release
  <2>1. remote' \in Upgrade!Versions
    <3>1. remote \in 1 .. NVersions /\ remote < NVersions /\ remote' = remote + 1 /\ NVersions \in Nat
      BY <1>1, VersionsAssumption DEF Upgrade!Release, DisksTyped, Upgrade!Versions
    <3>2. remote' \in 1 .. NVersions
      BY <3>1
    <3> QED
      BY <3>2 DEF Upgrade!Versions
  <2> QED
    BY <1>1, <2>1 DEF Upgrade!Release, DisksTyped
<1>2. CASE Upgrade!Start
  BY <1>2 DEF Upgrade!Start, DisksTyped
<1>3. CASE Upgrade!GetCurrent
  BY <1>3 DEF Upgrade!GetCurrent, DisksTyped
<1>4. CASE Upgrade!WriteTmpMenu
  BY <1>4 DEF Upgrade!WriteTmpMenu, DisksTyped
<1>5. CASE Upgrade!Download
  BY <1>5 DEF Upgrade!Download, Upgrade!Exit, DisksTyped
<1>6. CASE Upgrade!Fsck
  BY <1>6 DEF Upgrade!Fsck, Upgrade!Exit, DisksTyped
<1>7. CASE Upgrade!Mount
  BY <1>7 DEF Upgrade!Mount, DisksTyped
<1>8. CASE Upgrade!TestMenu
  BY <1>8 DEF Upgrade!TestMenu, Upgrade!Exit, DisksTyped
<1>9. CASE Upgrade!InstallLoader
  <2>1. /\ TypedDisks /\ dirty' \subseteq Upgrade!Files /\ UNCHANGED <<menu, cver, remote, rver, cur, todo>>
        /\ u_pc' \in {"menu", "failed"} /\ boot' \in {boot, Upgrade!Ram} /\ faults' \in {faults, faults + 1}
    BY <1>9, LoaderCases
  <2> QED
    BY <2>1 DEF DisksTyped, TypedDisks
<1>10. CASE Upgrade!InstallMenu
  <2>1. /\ TypedDisks /\ dirty' \subseteq Upgrade!Files /\ UNCHANGED <<boot, cver, remote, rver, cur>>
        /\ menu' \in [Upgrade!Disks -> Seq(Upgrade!Versions \cup {Upgrade!NoVersion})]
        /\ u_pc' = "copy" /\ todo' = Upgrade!Copies /\ faults' \in {faults, faults + 1}
    BY <1>10, MenuCases
  <2>2. todo' \in Seq(Upgrade!Images)
    BY <2>1, CopiesFacts DEF DisksTyped
  <2> QED
    BY <2>1, <2>2 DEF DisksTyped, TypedDisks
<1>11. CASE Upgrade!CopyImage
  <2>1. /\ TypedDisks /\ dirty' \subseteq Upgrade!Files /\ UNCHANGED <<menu, cver, remote, rver, cur>>
        /\ todo # <<>> /\ todo' \in {todo, Tail(todo)}
        /\ u_pc' \in {"copy", "failed"} /\ boot' \in {boot, Upgrade!Ram} /\ faults' \in {faults, faults + 1}
    BY <1>11, CopyCases
  <2>2. todo' \in Seq(Upgrade!Images)
    BY <2>1, TodoFacts DEF DisksTyped
  <2> QED
    BY <2>1, <2>2 DEF DisksTyped, TypedDisks
<1>12. CASE Upgrade!CopiesDone
  BY <1>12 DEF Upgrade!CopiesDone, DisksTyped
<1>13. CASE Upgrade!Clean
  BY <1>13, CleanCases DEF DisksTyped, TypedDisks
<1>14. CASE Upgrade!Umount
  BY <1>14 DEF Upgrade!Umount, DisksTyped
<1>15. CASE Upgrade!PowerLoss
  <2>1. /\ TypedDisks /\ dirty' = {} /\ UNCHANGED <<menu, cver, remote, rver, cur, todo>>
        /\ u_pc' = "off" /\ boot' = Upgrade!Ram /\ faults' = faults + 1
    <3>1. TypedDisks /\ dirty' = {} /\ UNCHANGED <<menu, cver, rver, cur, todo>>
      BY <1>15, PowerCases
    <3>2. u_pc' = "off" /\ boot' = Upgrade!Ram /\ faults' = faults + 1
      BY <1>15, PowerCases
    <3> QED
      BY <1>15, <3>1, <3>2 DEF Upgrade!PowerLoss
  <2> QED
    BY <2>1 DEF DisksTyped, TypedDisks
<1>16. CASE Upgrade!Boot
  <2>1. cver' \in Upgrade!Versions
    BY <1>16 DEF Upgrade!Boot, Upgrade!Starts
  <2> QED
    BY <1>16, <2>1 DEF Upgrade!Boot, DisksTyped
<1> QED
  BY <1>1, <1>2, <1>3, <1>4, <1>5, <1>6, <1>7, <1>8, <1>9, <1>10, <1>11, <1>12, <1>13, <1>14, <1>15, <1>16
     DEF Upgrade!Next

\* No command removes a menu.
LEMMA MenusStay ==
    ASSUME UpgradeTyped, Upgrade!Next, NEW d \in Upgrade!Disks PROVE disks'[d][Upgrade!Menu] # "absent"
<1>1. disks[d][Upgrade!Menu] # "absent" /\ Upgrade!Menu \in Upgrade!Files
      /\ Upgrade!Menu \notin Upgrade!Images /\ Upgrade!Menu # Upgrade!Loader
  BY Values DEF UpgradeTyped, HaveMenus
<1>2. CASE UNCHANGED disks
  BY <1>1, <1>2
<1>3. CASE Upgrade!InstallLoader
  BY <1>1, <1>3, LoaderCases DEF OnlyFile, OthersStay
<1>4. CASE Upgrade!InstallMenu
  <2>1. ASSUME NEW s, OnlyFile(cur, Upgrade!Menu, s), s # "absent" PROVE disks'[d][Upgrade!Menu] # "absent"
    BY <1>1, <2>1 DEF OnlyFile, OthersStay
  <2> QED
    BY <1>2, <1>4, <2>1, MenuCases
<1>5. CASE Upgrade!CopyImage
  <2>1. Head(todo) \in Upgrade!Images
    BY <1>5, CopyCases, TodoFacts DEF UpgradeTyped, DisksTyped
  <2>2. ASSUME NEW s, OnlyFile(cur, Head(todo), s) PROVE disks'[d][Upgrade!Menu] # "absent"
    BY <1>1, <2>1, <2>2 DEF OnlyFile, OthersStay
  <2> QED
    BY <1>2, <1>5, <2>2, CopyCases
<1>6. CASE Upgrade!Clean
  BY <1>1, <1>2, <1>6, CleanCases DEF OthersStay
<1>7. CASE Upgrade!PowerLoss
  BY <1>1, <1>2, <1>7, PowerCases DEF OthersStay
<1>8. \/ UNCHANGED disks \/ Upgrade!InstallLoader \/ Upgrade!InstallMenu \/ Upgrade!CopyImage
      \/ Upgrade!Clean \/ Upgrade!PowerLoss
  BY DEF Upgrade!Next, Upgrade!Release, Upgrade!Start, Upgrade!GetCurrent, Upgrade!WriteTmpMenu,
         Upgrade!Download, Upgrade!Fsck, Upgrade!Mount, Upgrade!TestMenu, Upgrade!CopiesDone,
         Upgrade!Umount, Upgrade!Boot, Upgrade!media
<1> QED
  BY <1>2, <1>3, <1>4, <1>5, <1>6, <1>7, <1>8

LEMMA StepControl == ASSUME UpgradeTyped, Upgrade!Next PROVE Control'
<1>v. Upgrade!NoVersion = 0 /\ Upgrade!Ram = 0 /\ cver # 0 /\ faults \in Nat /\ cur \in Upgrade!Disks
        /\ 0 \notin Upgrade!Disks
  BY Values DEF UpgradeTyped, DisksTyped
<1> USE <1>v DEF UpgradeTyped, Control, InPass, Asked
<1>1. CASE Upgrade!Release \/ Upgrade!CopiesDone
  BY <1>1 DEF Upgrade!Release, Upgrade!CopiesDone, Upgrade!script
<1>2. CASE Upgrade!Start
  BY <1>2 DEF Upgrade!Start, Upgrade!Ended
<1>3. CASE Upgrade!GetCurrent
  <2>1. remote # 0
    BY Values DEF DisksTyped
  <2> QED
    BY <1>3, <2>1 DEF Upgrade!GetCurrent, Upgrade!Fault
<1>4. CASE Upgrade!WriteTmpMenu
  BY <1>4 DEF Upgrade!WriteTmpMenu, Upgrade!Fault, DisksTyped
<1>5. CASE Upgrade!Download
  BY <1>5 DEF Upgrade!Download, Upgrade!Exit, Upgrade!Fault, DisksTyped
<1>6. CASE Upgrade!Fsck
  BY <1>6 DEF Upgrade!Fsck, Upgrade!Exit, Upgrade!Fault, Upgrade!script, DisksTyped
<1>7. CASE Upgrade!Mount
  BY <1>7 DEF Upgrade!Mount, Upgrade!Fault, DisksTyped
<1>8. CASE Upgrade!TestMenu
  <2>1. boot # Upgrade!Ram => disks[boot][Upgrade!Menu] # "absent"
    BY DEF DisksTyped, HaveMenus
  <2> QED
    BY <1>8, <2>1 DEF Upgrade!TestMenu, Upgrade!Exit, Upgrade!script
<1>9. CASE Upgrade!InstallLoader
  <2>1. /\ UNCHANGED <<world, cver, rver, tmpmenu, cur>> /\ u_pc = "loader"
        /\ \/ UNCHANGED <<boot, silent, faults>> /\ u_pc' = "menu"
           \/ silent' = TRUE /\ u_pc' = "menu" /\ UNCHANGED boot /\ faults' \in {faults, faults + 1}
           \/ u_pc' = "failed" /\ boot' = Upgrade!Ram /\ faults' = faults + 1
    BY <1>9, LoaderCases
  <2> QED
    BY <2>1
<1>10. CASE Upgrade!InstallMenu
  <2>1. /\ UNCHANGED <<world, boot, cver, rver, tmpmenu, cur>> /\ u_pc = "menu" /\ u_pc' = "copy"
        /\ UNCHANGED <<silent, faults>> \/ (silent' = TRUE /\ faults' = faults + 1)
    BY <1>10, MenuCases
  <2> QED
    BY <2>1
<1>11. CASE Upgrade!CopyImage
  <2>1. /\ UNCHANGED <<world, cver, rver, tmpmenu, cur, silent>> /\ u_pc = "copy"
        /\ \/ UNCHANGED <<u_pc, boot, faults>>
           \/ u_pc' = "failed" /\ boot' = Upgrade!Ram /\ faults' = faults + 1
    BY <1>11, CopyCases
  <2> QED
    BY <2>1
<1>13. CASE Upgrade!Clean
  BY <1>13, CleanCases
<1>14. CASE Upgrade!Umount
  BY <1>14 DEF Upgrade!Umount
<1>15. CASE Upgrade!PowerLoss
  <2>1. u_pc' = "off" /\ boot' = Upgrade!Ram /\ faults' = faults + 1
    BY <1>15, PowerCases
  <2> QED
    BY <2>1
<1>16. CASE Upgrade!Boot
  BY <1>16 DEF Upgrade!Boot, Upgrade!Ended
<1> QED
  BY <1>1, <1>2, <1>3, <1>4, <1>5, <1>6, <1>7, <1>8, <1>9, <1>10, <1>11, <1>13, <1>14, <1>15, <1>16
     DEF Upgrade!Next

------------------------------------------------------------------------------
(* One disk at a time *)

\* A step changes the current disk only.
LEMMA OneDisk ==
    ASSUME UpgradeTyped, Upgrade!Next, NEW d \in Upgrade!Disks, d # cur
    PROVE  disks'[d] = disks[d] /\ menu'[d] = menu[d]
<1>1. CASE UNCHANGED <<disks, menu>>
  BY <1>1
<1>2. ASSUME NEW f, NEW s, OnlyFile(cur, f, s) PROVE disks'[d] = disks[d]
  BY <1>2 DEF OnlyFile, OthersStay
<1>3. CASE Upgrade!InstallLoader
  BY <1>2, <1>3, LoaderCases
<1>4. CASE Upgrade!InstallMenu
  <2>1. disks'[d] = disks[d]
    BY <1>2, <1>4, MenuCases
  <2>2. menu'[d] = menu[d]
    BY <1>4, MenuCases
  <2> QED
    BY <2>1, <2>2
<1>5. CASE Upgrade!CopyImage
  BY <1>2, <1>5, CopyCases
<1>6. CASE Upgrade!Clean
  BY <1>6, CleanCases DEF OthersStay
<1>7. CASE Upgrade!PowerLoss
  BY <1>7, PowerCases DEF OthersStay
<1>8. \/ UNCHANGED <<disks, menu>> \/ Upgrade!InstallLoader \/ Upgrade!InstallMenu \/ Upgrade!CopyImage
      \/ Upgrade!Clean \/ Upgrade!PowerLoss
  BY DEF Upgrade!Next, Upgrade!Release, Upgrade!Start, Upgrade!GetCurrent, Upgrade!WriteTmpMenu,
         Upgrade!Download, Upgrade!Fsck, Upgrade!Mount, Upgrade!TestMenu, Upgrade!CopiesDone,
         Upgrade!Umount, Upgrade!Boot, Upgrade!media
<1> QED
  BY <1>1, <1>3, <1>4, <1>5, <1>6, <1>7, <1>8

LEMMA SameBoots ==
    ASSUME NEW d \in Upgrade!Disks, disks'[d] = disks[d], menu'[d] = menu[d]
    PROVE  Upgrade!Bootable(d)' <=> Upgrade!Bootable(d)
BY DEF Upgrade!Bootable, Upgrade!Starts

\* Images are copied one after the other, and none that is needed is removed.
LEMMA ImagesGoOn ==
    ASSUME UpgradeTyped, boot # Upgrade!Ram,
           \/ Upgrade!InstallMenu
           \/ ImagesArrive /\ Upgrade!CopyImage /\ UNCHANGED faults
           \/ ImagesArrive /\ (Upgrade!CopiesDone \/ Upgrade!Clean)
    PROVE  ImagesArrive'
<1>v. /\ Needed \subseteq Upgrade!Images /\ Upgrade!Images \subseteq Upgrade!Files
      /\ faults \in Nat /\ faults + 1 # faults
  BY Values DEF Needed, UpgradeTyped, DisksTyped
<1>1. CASE Upgrade!InstallMenu
  <2>1. u_pc' = "copy" /\ todo' = Upgrade!Copies /\ UNCHANGED <<cver, rver>>
    BY <1>1, MenuCases
  <2>2. \A f \in Needed' : f \in Left'
    BY <2>1, CopiesFacts DEF Needed, Left, UpgradeTyped, DisksTyped
  <2> QED
    BY <2>1, <2>2 DEF ImagesArrive
<1>2. CASE ImagesArrive /\ Upgrade!CopyImage /\ UNCHANGED faults
  <2>1. /\ u_pc = "copy" /\ u_pc' = "copy" /\ todo # <<>> /\ todo' = Tail(todo)
        /\ OnlyFile(cur, Head(todo), "whole") /\ UNCHANGED <<cur, cver, rver>>
    BY <1>v, <1>2, CopyCases
  <2>2. Head(todo) \in Upgrade!Images /\ \A f \in Left : f = Head(todo) \/ f \in Left'
    BY <2>1, TodoFacts DEF Left, UpgradeTyped, DisksTyped
  <2>3. Needed' = Needed
    BY <2>1 DEF Needed
  <2> QED
    BY <1>v, <1>2, <2>1, <2>2, <2>3 DEF OnlyFile, ImagesArrive, Whole
<1>3. CASE ImagesArrive /\ Upgrade!CopiesDone
  <2>1. u_pc = "copy" /\ u_pc' = "clean" /\ todo = <<>> /\ UNCHANGED <<disks, cur, cver, rver>>
    BY <1>3 DEF Upgrade!CopiesDone, Upgrade!media, Upgrade!script
  <2>2. Left = {} /\ Needed' = Needed
    BY <2>1 DEF Left, Needed
  <2> QED
    BY <1>3, <2>1, <2>2 DEF ImagesArrive, Whole
<1>4. CASE ImagesArrive /\ Upgrade!Clean
  <2>1. /\ u_pc = "clean" /\ u_pc' = "umount" /\ UNCHANGED <<cur, cver, rver>>
        /\ \A f \in Upgrade!Files : f \notin Upgrade!Images \ Needed => disks'[cur][f] = disks[cur][f]
    BY <1>4, CleanCases
  <2>2. Needed' = Needed
    BY <2>1 DEF Needed
  <2> QED
    BY <1>v, <1>4, <2>1, <2>2 DEF ImagesArrive, Whole
<1> QED
  BY <1>1, <1>2, <1>3, <1>4

\* What commands that do not fail make of the current disk.
LEMMA WellGoesOn ==
    ASSUME UpgradeTyped, UNCHANGED faults, boot # Upgrade!Ram,
           \/ Upgrade!InstallLoader
           \/ Upgrade!InstallMenu /\ tmpmenu = TRUE /\ GoesWell
           \/ GoesWell /\ (Upgrade!CopyImage \/ Upgrade!CopiesDone \/ Upgrade!Clean)
    PROVE  GoesWell' /\ UNCHANGED <<boot, cur, cver, rver>>
<1> USE DEF Changing
<1>v. /\ Upgrade!Loader \in Upgrade!Files /\ Upgrade!Menu \in Upgrade!Files /\ Upgrade!Loader # Upgrade!Menu
      /\ Upgrade!Loader \notin Upgrade!Images /\ Upgrade!Menu \notin Upgrade!Images
      /\ faults \in Nat /\ faults + 1 # faults
  BY Values DEF UpgradeTyped, DisksTyped
<1>1. CASE Upgrade!InstallLoader
  <2>1. OnlyFile(cur, Upgrade!Loader, "whole") /\ UNCHANGED <<boot, cur, cver, rver>> /\ u_pc' = "menu"
    BY <1>v, <1>1, LoaderCases
  <2> QED
    BY <1>v, <2>1 DEF OnlyFile, GoesWell, ImagesArrive, Whole
<1>2. CASE Upgrade!InstallMenu /\ tmpmenu = TRUE /\ GoesWell
  <2>0. ImagesArrive'
    BY <1>2, ImagesGoOn
  <2>1. /\ OnlyFile(cur, Upgrade!Menu, "whole") /\ menu'[cur] = <<rver, cver>>
        /\ UNCHANGED <<boot, cur, cver, rver>> /\ u_pc = "menu" /\ u_pc' = "copy"
    <3>1. u_pc = "menu" /\ u_pc' = "copy" /\ UNCHANGED <<boot, cur, cver, rver>>
      BY <1>2, MenuCases
    <3>2. OnlyFile(cur, Upgrade!Menu, "whole") /\ menu'[cur] = <<rver, cver>>
      BY <1>v, <1>2, MenuCases DEF UpgradeTyped, DisksTyped
    <3> QED
      BY <3>1, <3>2
  <2> QED
    BY <1>v, <1>2, <2>0, <2>1 DEF OnlyFile, GoesWell, Whole
<1>3. CASE Upgrade!CopyImage /\ GoesWell
  <2>0. ImagesArrive'
    BY <1>3, ImagesGoOn DEF GoesWell
  <2>1. /\ u_pc = "copy" /\ u_pc' = "copy" /\ todo # <<>>
        /\ OnlyFile(cur, Head(todo), "whole") /\ UNCHANGED <<menu, boot, cur, cver, rver>>
    BY <1>v, <1>3, CopyCases
  <2>2. Head(todo) \in Upgrade!Images
    BY <2>1, TodoFacts DEF UpgradeTyped, DisksTyped
  <2> QED
    BY <1>v, <1>3, <2>0, <2>1, <2>2 DEF OnlyFile, GoesWell, Whole
<1>4. CASE Upgrade!CopiesDone /\ GoesWell
  <2>0. ImagesArrive'
    BY <1>4, ImagesGoOn DEF GoesWell
  <2>1. u_pc = "copy" /\ u_pc' = "clean" /\ UNCHANGED <<disks, menu, boot, cur, cver, rver>>
    BY <1>4 DEF Upgrade!CopiesDone, Upgrade!media, Upgrade!script
  <2> QED
    BY <1>4, <2>0, <2>1 DEF GoesWell, Whole
<1>5. CASE Upgrade!Clean /\ GoesWell
  <2>0. ImagesArrive'
    BY <1>5, ImagesGoOn DEF GoesWell
  <2>1. /\ u_pc = "clean" /\ u_pc' = "umount" /\ UNCHANGED <<menu, boot, cur, cver, rver>>
        /\ \A f \in Upgrade!Files : f \notin Upgrade!Images \ Needed => disks'[cur][f] = disks[cur][f]
    BY <1>5, CleanCases
  <2> QED
    BY <1>v, <1>5, <2>0, <2>1 DEF GoesWell, Whole
<1> QED
  BY <1>1, <1>2, <1>3, <1>4, <1>5

\* With loader, menu and all images a disk starts.
LEMMA DoneBoots ==
    ASSUME UpgradeTyped, u_pc = "umount", ImagesArrive, HasEntry(cur, cver),
           Whole(cur, Upgrade!Loader), Whole(cur, Upgrade!Menu)
    PROVE  Upgrade!Bootable(cur)
<1>1. cver \in Upgrade!Versions
  BY DEF UpgradeTyped, DisksTyped
<1>2. Upgrade!Starts(cur, cver)
  <2>1. \A k \in {"rootfs", "kernel"} : <<k, cver>> \in Needed
    BY <1>1, Values DEF Needed
  <2> QED
    BY <1>1, <2>1 DEF ImagesArrive, Upgrade!Starts, Whole
<1> QED
  BY <1>2 DEF Upgrade!Bootable, HasEntry, Whole

LEMMA WellBoots == ASSUME UpgradeTyped, u_pc = "umount", GoesWell PROVE Upgrade!Bootable(cur)
<1>1. menu[cur] = <<rver, cver>> /\ Whole(cur, Upgrade!Loader) /\ Whole(cur, Upgrade!Menu) /\ ImagesArrive
  BY DEF GoesWell, Changing
<1>2. HasEntry(cur, cver)
  BY <1>1 DEF HasEntry
<1> QED
  BY <1>1, <1>2, DoneBoots

------------------------------------------------------------------------------
(* Some disk starts *)

LEMMA OneAside ==
    ASSUME UpgradeTyped, Spared, world # "tmpfull"
    PROVE  Cardinality(Broken \ {cur}) <= faults
<1>1. Broken \subseteq Upgrade!Disks /\ cur \in Upgrade!Disks /\ faults \in Nat
  BY DEF Broken, UpgradeTyped, DisksTyped
<1>2. /\ Cardinality(Broken \ {cur}) <= Cardinality(Broken)
      /\ Cardinality(Broken \ {cur}) <= Cardinality(Broken \cup {cur})
      /\ Cardinality(Broken) \in Nat /\ Cardinality(Broken \cup {cur}) \in Nat
      /\ Cardinality(Broken \ {cur}) \in Nat
  <2>1. Broken \cup {cur} \in SUBSET Upgrade!Disks /\ Broken \ {cur} \in SUBSET Upgrade!Disks
    BY <1>1
  <2>2. Broken \ {cur} \subseteq Broken /\ Broken \ {cur} \subseteq Broken \cup {cur}
    OBVIOUS
  <2> QED
    BY <1>1, <2>1, <2>2, CountFacts
<1> QED
  BY <1>1, <1>2 DEF Spared, Charged

\* The disks that are broken after a step.
LEMMA BrokenThen ==
    ASSUME UpgradeTyped, Upgrade!Next
    PROVE  /\ Broken' \ {cur} = Broken \ {cur} /\ Broken' \cup {cur} = Broken \cup {cur}
           /\ Broken' \in SUBSET Upgrade!Disks /\ Broken \in SUBSET Upgrade!Disks
           /\ UNCHANGED <<disks, menu>> => Broken' = Broken
           /\ Cardinality(Broken) \in Nat /\ Cardinality(Broken') \in Nat
           /\ Cardinality(Broken \cup {cur}) \in Nat
           /\ Cardinality(Broken') <= Cardinality(Broken \cup {cur})
           /\ Cardinality(Broken \cup {cur}) <= Cardinality(Broken \ {cur}) + 1
           /\ Cardinality(Broken \ {cur}) <= Cardinality(Broken)
           /\ Cardinality(Broken \ {cur}) \in Nat
<1>1. cur \in Upgrade!Disks
  BY DEF UpgradeTyped, DisksTyped
<1>2. \A d \in Upgrade!Disks : d # cur => (Upgrade!Bootable(d)' <=> Upgrade!Bootable(d))
  BY OneDisk, SameBoots
<1>3. UNCHANGED <<disks, menu>> => \A d \in Upgrade!Disks : Upgrade!Bootable(d)' <=> Upgrade!Bootable(d)
  BY SameBoots
<1>4. Broken' = {d \in Upgrade!Disks : ~ Upgrade!Bootable(d)'}
  BY DEF Broken
<1>5. /\ Broken' \in SUBSET Upgrade!Disks /\ Broken \in SUBSET Upgrade!Disks
      /\ Broken \ {cur} \in SUBSET Upgrade!Disks /\ Broken \cup {cur} \in SUBSET Upgrade!Disks
  BY <1>1, <1>4 DEF Broken
<1>6. Broken' \ {cur} = Broken \ {cur} /\ (UNCHANGED <<disks, menu>> => Broken' = Broken)
  BY <1>2, <1>3, <1>4 DEF Broken
<1>7. Broken' \cup {cur} = Broken \cup {cur}
  BY <1>6
<1>8. /\ Cardinality(Broken) \in Nat /\ Cardinality(Broken') \in Nat
      /\ Cardinality(Broken \cup {cur}) \in Nat /\ Cardinality(Broken \ {cur}) \in Nat
  BY <1>1, <1>5, CountFacts
<1>9. Broken' \subseteq Broken \cup {cur} /\ Broken \cup {cur} \subseteq (Broken \ {cur}) \cup {cur}
      /\ Broken \ {cur} \subseteq Broken
  BY <1>7
<1>10. Cardinality(Broken') <= Cardinality(Broken \cup {cur})
  BY <1>1, <1>5, <1>9, CountFacts
<1>11. Cardinality(Broken \cup {cur}) <= Cardinality(Broken \ {cur}) + 1
  BY <1>1, <1>5, <1>9, CountFacts
<1>12. Cardinality(Broken \ {cur}) <= Cardinality(Broken)
  BY <1>1, <1>5, <1>9, CountFacts
<1> QED
  BY <1>5, <1>6, <1>7, <1>8, <1>10, <1>11, <1>12

\* A fault pays for the disk it may have broken.
LEMMA FaultIsCharged ==
    ASSUME UpgradeTyped, Upgrade!Next, Spared, UNCHANGED <<world, cur>>, faults' = faults + 1
    PROVE  Spared'
<1>1. SUFFICES ASSUME world # "tmpfull" PROVE Spared'
  BY DEF Spared
<1>2. Cardinality(Broken \ {cur}) <= faults /\ faults \in Nat
  BY <1>1, OneAside DEF UpgradeTyped, DisksTyped
<1>3. Cardinality(Broken' \cup {cur}) <= faults' /\ Cardinality(Broken') <= faults'
  BY <1>2, BrokenThen
<1> QED
  BY <1>3 DEF Spared, Charged

\* Nothing is written, or not to a disk.
LEMMA QuietSpares ==
    ASSUME UpgradeTyped, Upgrade!Next, Spared, UNCHANGED <<disks, menu, faults, world>>, ~ InWork, ~ InWork',
           boot' = Upgrade!Ram /\ u_pc' \in {"test", "loader"} =>
               boot = Upgrade!Ram /\ u_pc \in {"test", "loader"} /\ UNCHANGED cur
    PROVE  Spared'
<1>1. Broken' = Broken
  BY BrokenThen
<1> QED
  BY <1>1 DEF Spared, Charged

LEMMA StepSpares == ASSUME UpgradeTyped, Upgrade!Next, Spared PROVE Spared'
<1>v. faults \in Nat /\ faults + 1 # faults
  BY DEF UpgradeTyped, DisksTyped
<1>1. CASE Upgrade!Release
  <2>1. UNCHANGED <<world, disks, menu, boot, cver, rver, cur, todo, u_pc, faults>>
    BY <1>1 DEF Upgrade!Release, Upgrade!media, Upgrade!script
  <2>2. Broken' = Broken
    BY <2>1, BrokenThen
  <2> QED
    BY <2>1, <2>2 DEF Spared, Charged, InWork, GoesWell, ImagesArrive, Whole, Left, Needed
<1>2. CASE \/ Upgrade!Start \/ Upgrade!GetCurrent \/ Upgrade!WriteTmpMenu \/ Upgrade!Download \/ Upgrade!Fsck
           \/ Upgrade!Mount \/ Upgrade!TestMenu \/ Upgrade!Boot
  <2>1. /\ UNCHANGED <<disks, menu, world>> /\ ~ InWork /\ ~ InWork'
        /\ \/ faults' = faults + 1 /\ UNCHANGED cur
           \/ /\ UNCHANGED faults
              /\ boot' = Upgrade!Ram /\ u_pc' \in {"test", "loader"} =>
                     boot = Upgrade!Ram /\ u_pc \in {"test", "loader"} /\ UNCHANGED cur
    BY <1>2, Values DEF Upgrade!Start, Upgrade!GetCurrent, Upgrade!WriteTmpMenu, Upgrade!Download,
       Upgrade!Fsck, Upgrade!Mount, Upgrade!TestMenu, Upgrade!Boot, Upgrade!Ended, Upgrade!Exit,
       Upgrade!Fault, Upgrade!media, Upgrade!script, InWork, Changing, UpgradeTyped, DisksTyped
  <2> QED
    BY <2>1, FaultIsCharged, QuietSpares
<1>3. CASE Upgrade!InstallLoader
  <2>1. UNCHANGED <<world, cur>> /\ u_pc = "loader" /\ u_pc' \in {"menu", "failed"}
    BY <1>3, LoaderCases
  <2>2. CASE faults' = faults + 1
    BY <2>1, <2>2, FaultIsCharged
  <2>3. CASE boot # Upgrade!Ram /\ UNCHANGED <<boot, faults>>
    <3>1. GoesWell'
      BY <1>3, <2>3, WellGoesOn
    <3>2. world # "tmpfull" => Cardinality(Broken' \ {cur}) <= faults
      BY OneAside, BrokenThen
    <3>3. u_pc' = "menu"
      BY <1>v, <1>3, <2>3, LoaderCases
    <3> QED
      BY <2>1, <2>3, <3>1, <3>2, <3>3 DEF Spared, InWork, Changing
  <2>4. CASE boot = Upgrade!Ram /\ UNCHANGED <<boot, faults>> /\ u_pc' = "menu"
    <3>1. world # "tmpfull" => Cardinality(Broken') <= faults
      BY <2>1, <2>4, BrokenThen DEF Spared, Charged, UpgradeTyped, DisksTyped
    <3> QED
      BY <2>1, <2>4, <3>1 DEF Spared, InWork
  <2> QED
    BY <1>3, <2>2, <2>3, <2>4, LoaderCases
<1>4. CASE Upgrade!InstallMenu \/ Upgrade!CopyImage \/ Upgrade!CopiesDone \/ Upgrade!Clean
  <2>1. /\ UNCHANGED <<world, cur>> /\ u_pc \in Changing /\ u_pc' \in Changing \cup {"failed"}
        /\ faults' = faults + 1 \/ (UNCHANGED <<boot, faults>> /\ u_pc' \in Changing)
    <3>1. CASE Upgrade!InstallMenu
      BY <3>1, MenuCases DEF Changing
    <3>2. CASE Upgrade!CopyImage
      BY <3>2, CopyCases DEF Changing
    <3>3. CASE Upgrade!CopiesDone
      BY <3>3 DEF Upgrade!CopiesDone, Upgrade!script, Changing
    <3>4. CASE Upgrade!Clean
      BY <3>4, CleanCases DEF Changing
    <3> QED
      BY <1>4, <3>1, <3>2, <3>3, <3>4
  <2>2. CASE faults' = faults + 1
    BY <2>1, <2>2, FaultIsCharged
  <2>3. CASE UNCHANGED <<boot, faults>> /\ u_pc' \in Changing /\ boot = Upgrade!Ram
    <3>1. UNCHANGED <<disks, menu>>
      <4>1. faults' # faults + 1
        BY <2>3 DEF UpgradeTyped, DisksTyped
      <4>2. CASE Upgrade!InstallMenu
        BY <2>3, <4>1, <4>2, MenuCases
      <4>3. CASE Upgrade!CopyImage
        BY <2>3, <4>1, <4>3, CopyCases
      <4>4. CASE Upgrade!CopiesDone
        BY <4>4 DEF Upgrade!CopiesDone, Upgrade!media
      <4>5. CASE Upgrade!Clean
        BY <2>3, <4>5, CleanCases
      <4> QED
        BY <1>4, <4>2, <4>3, <4>4, <4>5
    <3> QED
      BY <2>1, <2>3, <3>1, QuietSpares DEF InWork, Changing
  <2>4. CASE UNCHANGED <<boot, faults>> /\ u_pc' \in Changing /\ boot # Upgrade!Ram
    <3>1. InWork /\ InWork'
      BY <2>1, <2>4 DEF InWork
    <3>2. Charged => Charged'
      BY <2>1, <2>4, BrokenThen DEF Charged
    <3>3. world # "tmpfull" /\ u_pc = "menu" => tmpmenu = TRUE
      BY DEF UpgradeTyped, Control, Asked
    <3>4. world # "tmpfull" /\ GoesWell => GoesWell'
      <4>1. SUFFICES ASSUME world # "tmpfull", GoesWell PROVE GoesWell'
        OBVIOUS
      <4>2. Upgrade!InstallMenu => tmpmenu = TRUE
        BY <3>3, <4>1 DEF Upgrade!InstallMenu
      <4> QED
        BY <1>4, <2>4, <4>1, <4>2, WellGoesOn
    <3>5. Cardinality(Broken \ {cur}) <= faults => Cardinality(Broken' \ {cur}') <= faults'
      BY <2>1, <2>4, BrokenThen
    <3> QED
      BY <2>1, <2>4, <3>1, <3>2, <3>4, <3>5 DEF Spared
  <2> QED
    BY <2>1, <2>2, <2>3, <2>4
<1>5. CASE Upgrade!Umount
  <2>1. /\ u_pc = "umount" /\ boot' = Upgrade!Ram /\ UNCHANGED <<world, disks, menu, faults>>
        /\ u_pc' \in {"fsck", "done"}
    BY <1>5 DEF Upgrade!Umount, Upgrade!media
  <2>2. Broken' = Broken
    BY <2>1, BrokenThen
  <2>3. ASSUME world # "tmpfull" PROVE Cardinality(Broken) <= faults
    <3>1. CASE ~ InWork
      BY <2>3, <3>1 DEF Spared
    <3>2. CASE Charged
      <4>1. Cardinality(Broken) <= Cardinality(Broken \cup {cur})
        BY <2>2, BrokenThen
      <4> QED
        BY <3>2, <4>1, BrokenThen DEF Charged, UpgradeTyped, DisksTyped
    <3>3. CASE GoesWell /\ Cardinality(Broken \ {cur}) <= faults
      <4>1. Broken \ {cur} = Broken
        BY <2>1, <3>3, WellBoots DEF Broken
      <4> QED
        BY <3>3, <4>1
    <3> QED
      BY <2>3, <3>1, <3>2, <3>3 DEF Spared
  <2> QED
    BY <2>1, <2>2, <2>3 DEF Spared, InWork
<1>6. CASE Upgrade!PowerLoss
  BY <1>6, PowerCases, FaultIsCharged
<1> QED
  BY <1>1, <1>2, <1>3, <1>4, <1>5, <1>6 DEF Upgrade!Next

------------------------------------------------------------------------------
(* A run that says nothing went wrong *)

LEMMA SameUpgraded ==
    ASSUME NEW d \in Upgrade!Disks, disks'[d] = disks[d], menu'[d] = menu[d], UNCHANGED <<rver, cver>>
    PROVE  Upgraded(d)' <=> Upgraded(d)
BY DEF Upgraded, Upgrade!DefaultBoots, Upgrade!Bootable, Upgrade!Starts

\* At the umount the current disk is upgraded.
LEMMA WellUpgraded ==
    ASSUME UpgradeTyped, u_pc = "umount", GoesWell, OthersGone, rver # Upgrade!NoVersion
    PROVE  Upgraded(cur)
<1>1. menu[cur] = <<rver, cver>> /\ ImagesArrive /\ rver \in Upgrade!Versions
  BY DEF GoesWell, Changing, UpgradeTyped, DisksTyped
<1>2. \A f \in Upgrade!Images : disks[cur][f] = IF f[2] \in {rver, cver} THEN "whole" ELSE "absent"
  BY <1>1 DEF ImagesArrive, OthersGone, Needed, Whole
<1>3. Upgrade!Starts(cur, rver)
  <2>1. \A k \in {"rootfs", "kernel"} : <<k, rver>> \in Upgrade!Images /\ <<k, rver>>[2] = rver
    BY <1>1, Values
  <2> QED
    BY <1>1, <1>2, <2>1 DEF Upgrade!Starts
<1> QED
  BY <1>1, <1>2, <1>3, WellBoots DEF Upgraded, Upgrade!DefaultBoots

LEMMA StepUpgrades == ASSUME UpgradeTyped, Upgrade!Next, UpgradeGoesOn PROVE UpgradeGoesOn'
<1> USE DEF InPass, Changing
<1>v. /\ Upgrade!NoVersion = 0 /\ Upgrade!Ram = 0 /\ cur \in Upgrade!Disks /\ Upgrade!Disks = 1 .. NDisks
      /\ NDisks \in Nat /\ faults \in Nat /\ faults + 1 # faults
  BY Values DEF UpgradeTyped, DisksTyped
<1>1. CASE Upgrade!Release
  <2>1. UNCHANGED <<disks, menu, boot, cver, rver, cur, todo, u_pc, silent>>
    BY <1>1 DEF Upgrade!Release, Upgrade!media, Upgrade!script
  <2>2. ASSUME NEW d \in Upgrade!Disks PROVE Upgraded(d)' <=> Upgraded(d)
    <3>1. UNCHANGED <<disks, menu, cver, rver>>
      BY <2>1
    <3> QED
      BY <3>1, SameUpgraded
  <2> QED
    BY <2>1, <2>2 DEF UpgradeGoesOn, OthersGone, GoesWell, ImagesArrive, Whole, Left, Needed
<1>2. CASE \/ Upgrade!Start \/ Upgrade!GetCurrent \/ Upgrade!WriteTmpMenu \/ Upgrade!Boot \/ Upgrade!PowerLoss
  <2>1. u_pc' \notin InPass \cup {"done"}
    BY <1>2 DEF Upgrade!Start, Upgrade!GetCurrent, Upgrade!WriteTmpMenu, Upgrade!Boot, Upgrade!PowerLoss
  <2> QED
    BY <2>1 DEF UpgradeGoesOn
<1>3. CASE Upgrade!Download
  <2>1. u_pc' \notin InPass \cup {"done"} \/ (u_pc' = "fsck" /\ cur' = 1)
    BY <1>3 DEF Upgrade!Download, Upgrade!Exit
  <2>2. u_pc' = "fsck" => \A d \in Upgrade!Disks : ~ (d < cur')
    BY <1>v, <2>1
  <2> QED
    BY <2>1, <2>2 DEF UpgradeGoesOn
<1>4. CASE Upgrade!Fsck \/ Upgrade!Mount \/ Upgrade!TestMenu
  <2>1. /\ UNCHANGED <<disks, menu, cver, rver, cur>> /\ (silent' = silent \/ silent' = TRUE)
        /\ u_pc \in InPass /\ u_pc' \notin Changing \cup {"done"}
    BY <1>4 DEF Upgrade!Fsck, Upgrade!Mount, Upgrade!TestMenu, Upgrade!Exit, Upgrade!media, Upgrade!script
  <2>2. \A d \in Upgrade!Disks : Upgraded(d)' <=> Upgraded(d)
    BY <2>1, SameUpgraded
  <2> QED
    BY <2>1, <2>2 DEF UpgradeGoesOn
<1>5. CASE \/ Upgrade!InstallLoader \/ Upgrade!InstallMenu \/ Upgrade!CopyImage
           \/ Upgrade!CopiesDone \/ Upgrade!Clean
  <2>1. SUFFICES ASSUME ~ silent', rver' # Upgrade!NoVersion, u_pc' \in InPass \cup {"done"}
                 PROVE  UpgradeGoesOn'
    BY DEF UpgradeGoesOn
  <2>2. /\ u_pc \in InPass \ {"fsck", "mount"} /\ u_pc' \in Changing
        /\ UNCHANGED <<boot, silent, faults, rver, cver, cur>>
    <3>1. CASE Upgrade!InstallLoader
      BY <1>v, <2>1, <3>1, LoaderCases
    <3>2. CASE Upgrade!InstallMenu
      <4>1. u_pc = "menu" /\ u_pc' = "copy" /\ UNCHANGED <<boot, rver, cver, cur>>
        BY <3>2, MenuCases
      <4>2. UNCHANGED <<silent, faults>>
        BY <2>1, <3>2, MenuCases
      <4> QED
        BY <4>1, <4>2
    <3>3. CASE Upgrade!CopyImage
      BY <2>1, <3>3, CopyCases
    <3>4. CASE Upgrade!CopiesDone
      BY <3>4 DEF Upgrade!CopiesDone, Upgrade!script
    <3>5. CASE Upgrade!Clean
      BY <3>5, CleanCases
    <3> QED
      BY <1>5, <3>1, <3>2, <3>3, <3>4, <3>5
  <2>3. boot # Upgrade!Ram /\ ~ silent /\ rver # Upgrade!NoVersion
    BY <2>1, <2>2 DEF UpgradeTyped, Control
  <2>4. u_pc = "menu" => tmpmenu = TRUE
    BY <2>3 DEF UpgradeTyped, Control, Asked
  <2>5. u_pc \in Changing => GoesWell /\ OthersGone
    BY <2>3 DEF UpgradeGoesOn
  <2>6. GoesWell'
    <3>1. Upgrade!InstallMenu => u_pc = "menu"
      BY DEF Upgrade!InstallMenu
    <3>2. Upgrade!InstallMenu \/ Upgrade!CopyImage \/ Upgrade!CopiesDone \/ Upgrade!Clean => u_pc \in Changing
      BY DEF Upgrade!InstallMenu, Upgrade!CopyImage, Upgrade!CopiesDone, Upgrade!Clean
    <3> QED
      BY <1>5, <2>2, <2>3, <2>4, <2>5, <3>1, <3>2, WellGoesOn
  <2>7. OthersGone'
    <3>1. CASE Upgrade!Clean
      <4>1. /\ \A f \in Upgrade!Images \ Needed : f \in Upgrade!Files /\ disks'[cur][f] = "absent"
        BY <2>3, <3>1, CleanCases, Values
      <4>2. Needed' = Needed
        BY <2>2 DEF Needed
      <4> QED
        BY <2>2, <4>1, <4>2 DEF OthersGone
    <3>2. CASE u_pc' # "umount"
      BY <3>2 DEF OthersGone
    <3>3. ~ Upgrade!Clean => u_pc' # "umount"
      <4>1. CASE Upgrade!InstallLoader
        BY <4>1, LoaderCases
      <4>2. CASE Upgrade!InstallMenu
        BY <4>2, MenuCases
      <4>3. CASE Upgrade!CopyImage
        BY <4>3, CopyCases
      <4>4. CASE Upgrade!CopiesDone
        BY <4>4 DEF Upgrade!CopiesDone
      <4> QED
        BY <1>5, <4>1, <4>2, <4>3, <4>4
    <3> QED
      BY <3>1, <3>2, <3>3
  <2>8. ASSUME NEW d \in Upgrade!Disks, d < cur' PROVE Upgraded(d)'
    <3>1. d # cur /\ d < cur
      BY <1>v, <2>2, <2>8
    <3>2. Upgraded(d)
      BY <2>2, <2>3, <3>1 DEF UpgradeGoesOn
    <3> QED
      BY <2>2, <3>1, <3>2, OneDisk, SameUpgraded
  <2> QED
    BY <2>2, <2>6, <2>7, <2>8 DEF UpgradeGoesOn
<1>6. CASE Upgrade!Umount
  <2>1. /\ u_pc = "umount" /\ UNCHANGED <<disks, menu, cver, rver, silent>>
        /\ IF cur < NDisks THEN u_pc' = "fsck" /\ cur' = cur + 1 ELSE u_pc' = "done"
    BY <1>6 DEF Upgrade!Umount, Upgrade!media
  <2>2. SUFFICES ASSUME ~ silent, rver # Upgrade!NoVersion PROVE UpgradeGoesOn'
    BY <2>1 DEF UpgradeGoesOn
  <2>3. Upgraded(cur) /\ \A d \in Upgrade!Disks : d < cur => Upgraded(d)
    BY <2>1, <2>2, WellUpgraded DEF UpgradeGoesOn
  <2>4. \A d \in Upgrade!Disks : Upgraded(d)' <=> Upgraded(d)
    BY <2>1, SameUpgraded
  <2>5. CASE cur < NDisks
    <3>1. \A d \in Upgrade!Disks : d < cur' => d < cur \/ d = cur
      BY <1>v, <2>1, <2>5
    <3> QED
      BY <2>1, <2>3, <2>4, <2>5, <3>1 DEF UpgradeGoesOn
  <2>6. CASE ~ (cur < NDisks)
    <3>1. \A d \in Upgrade!Disks : d < cur \/ d = cur
      BY <1>v, <2>6
    <3> QED
      BY <2>1, <2>3, <2>4, <2>6, <3>1 DEF UpgradeGoesOn
  <2> QED
    BY <2>5, <2>6
<1> QED
  BY <1>1, <1>2, <1>3, <1>4, <1>5, <1>6 DEF Upgrade!Next

------------------------------------------------------------------------------
(* A disk whose loader and menu are intact *)

LEMMA EntryThen ==
    ASSUME NEW d \in Upgrade!Disks, NEW v, menu'[d] = menu[d], HasEntry(d, v), Upgrade!Starts(d, v)',
           Whole(d, Upgrade!Loader)', Whole(d, Upgrade!Menu)'
    PROVE  Upgrade!Bootable(d)'
<1>1. PICK i \in DOMAIN menu'[d] : menu'[d][i] = v
  BY DEF HasEntry
<1> QED
  BY <1>1 DEF Upgrade!Bootable, Whole

LEMMA SameEntry ==
    ASSUME NEW d \in Upgrade!Disks, EntryBoots(d), menu'[d] = menu[d],
           \A f \in Upgrade!Files :
               disks'[d][f] = disks[d][f] \/ (f \in {Upgrade!Loader, Upgrade!Menu} /\ disks'[d][f] = "torn")
    PROVE  EntryBoots(d)'
<1>1. SUFFICES ASSUME Whole(d, Upgrade!Loader)', Whole(d, Upgrade!Menu)' PROVE Upgrade!Bootable(d)'
  BY DEF EntryBoots
<1>2. \A f \in Upgrade!Files : disks'[d][f] = disks[d][f]
  BY <1>1 DEF Whole
<1>3. Upgrade!Bootable(d)
  BY <1>1, <1>2, Values DEF EntryBoots, Whole
<1>4. \A v : Upgrade!Starts(d, v) => Upgrade!Starts(d, v)'
  BY <1>2, Values DEF Upgrade!Starts
<1>5. PICK v : HasEntry(d, v) /\ Upgrade!Starts(d, v)
  BY <1>3 DEF Upgrade!Bootable, HasEntry
<1> QED
  BY <1>1, <1>4, <1>5, EntryThen

\* A release starts as long as its images are not written to.
LEMMA KeepsStarting ==
    ASSUME NEW d \in Upgrade!Disks, NEW v, Upgrade!Starts(d, v),
           \A f \in Upgrade!Images : f[2] = v /\ Whole(d, f) => Whole(d, f)'
    PROVE  Upgrade!Starts(d, v)'
<1>1. v \in Upgrade!Versions
  BY DEF Upgrade!Starts
<1>2. \A k \in {"rootfs", "kernel"} : <<k, v>> \in Upgrade!Images /\ <<k, v>>[2] = v
  BY <1>1, Values
<1> QED
  BY <1>1, <1>2 DEF Upgrade!Starts, Whole

\* The new release starts when its images have arrived.
LEMMA NewStarts ==
    ASSUME NEW d \in Upgrade!Disks, rver \in Upgrade!Versions,
           \A f \in Upgrade!Images : f[2] = rver => Whole(d, f)
    PROVE  Upgrade!Starts(d, rver)
<1>1. \A k \in {"rootfs", "kernel"} : <<k, rver>> \in Upgrade!Images /\ <<k, rver>>[2] = rver
  BY Values
<1> QED
  BY <1>1 DEF Upgrade!Starts, Whole

LEMMA LevelBoots == ASSUME Level, NEW d \in Upgrade!Disks PROVE Upgrade!Bootable(d)
<1>1. Whole(d, Upgrade!Loader) /\ Whole(d, Upgrade!Menu) /\ Upgrade!Starts(d, cver) /\ HasEntry(d, cver)
  BY DEF Level
<1> QED
  BY <1>1 DEF HasEntry, Upgrade!Bootable, Whole

\* The copies of a pass are those of the new release, then those of the old.
LEMMA StepOldLast ==
    ASSUME UpgradeTyped, Upgrade!Next, u_pc = "copy" => OldLast, u_pc' = "copy" PROVE OldLast'
<1>1. CASE Upgrade!InstallMenu
  <2>1. todo' = Upgrade!Copies /\ UNCHANGED <<cver, rver>> /\ u_pc = "menu"
    BY <1>1, MenuCases
  <2>2. rver # cver
    BY <2>1 DEF UpgradeTyped, Control, Asked
  <2> QED
    BY <2>1, <2>2, CopiesFacts DEF OldLast, UpgradeTyped, DisksTyped
<1>2. CASE Upgrade!CopyImage
  <2>1. u_pc = "copy" /\ todo # <<>> /\ UNCHANGED cver
    BY <1>2, CopyCases
  <2>2. todo' = Tail(todo)
    BY <1>2 DEF Upgrade!CopyImage, Upgrade!Exit
  <2> QED
    BY <2>1, <2>2, TodoFacts DEF OldLast, UpgradeTyped, DisksTyped
<1>3. CASE Upgrade!Release
  BY <1>3 DEF Upgrade!Release, Upgrade!script, OldLast
<1>4. Upgrade!InstallMenu \/ Upgrade!CopyImage \/ Upgrade!Release
  <2>1. ~ Upgrade!InstallLoader
    BY LoaderCases
  <2> QED
    BY <2>1 DEF Upgrade!Next, Upgrade!Start, Upgrade!GetCurrent, Upgrade!WriteTmpMenu, Upgrade!Download,
       Upgrade!Fsck, Upgrade!Mount, Upgrade!TestMenu, Upgrade!CopiesDone, Upgrade!Clean, Upgrade!Umount,
       Upgrade!PowerLoss, Upgrade!Boot, Upgrade!Exit
<1> QED
  BY <1>1, <1>2, <1>3, <1>4

\* One torn file leaves the current disk with an entry that starts: while the
\* new release is being copied the old one is there, and then the new one.
LEMMA TornFile ==
    ASSUME UpgradeTyped, Level, faults = 0, u_pc = "copy" => OldLast, NEW d \in Upgrade!Disks, d = cur,
           menu'[d] = menu[d],
           \A f \in Upgrade!Files :
               disks'[d][f] = disks[d][f] \/ (disks'[d][f] = "torn" /\ f \in Upgrade!InFlight)
    PROVE  EntryBoots(d)'
<1>v. /\ cver \in Upgrade!Versions /\ todo \in Seq(Upgrade!Images)
      /\ Upgrade!Images \subseteq Upgrade!Files /\ Upgrade!Loader \notin Upgrade!Images
      /\ Upgrade!Menu \notin Upgrade!Images
  BY Values DEF UpgradeTyped, DisksTyped
<1>1. SUFFICES ASSUME Whole(d, Upgrade!Loader)', Whole(d, Upgrade!Menu)'
               PROVE  \E v : HasEntry(d, v) /\ Upgrade!Starts(d, v)'
  BY EntryThen DEF EntryBoots
<1>2. Upgrade!Starts(d, cver) /\ HasEntry(d, cver) /\ GoesWell
  BY <1>v DEF Level
<1>3. CASE u_pc = "copy" /\ todo # <<>> /\ Head(todo)[2] = cver
  <2>1. Head(todo) \in Upgrade!Images /\ \A f \in Left : f[2] = cver
    BY <1>v, <1>3, TodoFacts
  <2>2. rver \in Upgrade!Versions /\ rver # cver
    BY <1>3 DEF UpgradeTyped, DisksTyped, Control, Asked
  <2>3. menu[d] = <<rver, cver>> /\ \A f \in Needed : f \in Left \/ Whole(d, f)
    BY <1>2, <1>3 DEF GoesWell, Changing, ImagesArrive
  <2>4. Upgrade!InFlight = {Head(todo)}
    BY <1>3 DEF Upgrade!InFlight
  <2>5. \A f \in Upgrade!Images : f[2] = rver => Whole(d, f) /\ f # Head(todo)
    BY <1>3, <2>1, <2>2, <2>3 DEF Needed
  <2>6. Upgrade!Starts(d, rver)
    BY <2>2, <2>5, NewStarts
  <2>7. \A f \in Upgrade!Images : f[2] = rver => disks'[d][f] = "whole"
    BY <1>v, <2>4, <2>5 DEF Whole
  <2>8. ASSUME NEW w, w = rver PROVE Upgrade!Starts(d, w)'
    BY <2>6, <2>7, <2>8, KeepsStarting DEF Whole
  <2> QED
    BY <2>3, <2>8 DEF HasEntry
<1>4. CASE ~ (u_pc = "copy" /\ todo # <<>> /\ Head(todo)[2] = cver)
  <2>1. \A f \in Upgrade!Images : f[2] = cver => f \notin Upgrade!InFlight
    BY <1>v, <1>4 DEF Upgrade!InFlight
  <2>2. ASSUME NEW w, w = cver PROVE Upgrade!Starts(d, w)'
    BY <1>v, <1>2, <2>1, <2>2, KeepsStarting DEF Whole
  <2> QED
    BY <1>2, <2>2
<1> QED
  BY <1>3, <1>4

\* Commands that write, before the first fault.
LEMMA WritersLevel ==
    ASSUME UpgradeTyped, Upgrade!Next, faults = 0, faults' = 0, Level,
           \/ Upgrade!InstallLoader \/ Upgrade!InstallMenu \/ Upgrade!CopyImage
           \/ Upgrade!CopiesDone \/ Upgrade!Clean
    PROVE  Level'
<1>v. /\ cur \in Upgrade!Disks /\ cver \in Upgrade!Versions
      /\ Upgrade!Images \subseteq Upgrade!Files /\ Upgrade!Loader \notin Upgrade!Images
      /\ Upgrade!Menu \notin Upgrade!Images /\ Upgrade!Loader \in Upgrade!Files /\ Upgrade!Menu \in Upgrade!Files
      /\ Upgrade!Loader # Upgrade!Menu
  BY Values DEF UpgradeTyped, DisksTyped
<1>1. u_pc \in {"loader", "menu", "copy", "clean"} /\ GoesWell
  <2>1. u_pc \in {"loader", "menu", "copy", "clean"}
    BY DEF Upgrade!InstallLoader, Upgrade!InstallMenu, Upgrade!CopyImage, Upgrade!CopiesDone, Upgrade!Clean
  <2> QED
    BY <2>1 DEF Level
<1>2. boot # Upgrade!Ram /\ tmpmenu = TRUE /\ rver \in Upgrade!Versions
  <2>1. boot # Upgrade!Ram
    BY <1>1 DEF UpgradeTyped, Control, InPass
  <2>2. tmpmenu = TRUE
    BY <1>1 DEF UpgradeTyped, Control, Asked
  <2>3. rver # Upgrade!NoVersion /\ rver \in Upgrade!Versions \cup {Upgrade!NoVersion}
    BY <1>1 DEF UpgradeTyped, Control, Asked, DisksTyped
  <2> QED
    BY <2>1, <2>2, <2>3
<1>3. GoesWell' /\ UNCHANGED <<boot, cur, cver, rver>>
  BY <1>1, <1>2, WellGoesOn
<1>4. u_pc' \in Changing /\ (u_pc' = "menu" => Upgrade!InstallLoader)
  <2>1. Upgrade!InstallLoader => u_pc' \in {"menu", "failed"}
    BY LoaderCases
  <2>2. Upgrade!InstallMenu => u_pc' = "copy"
    BY DEF Upgrade!InstallMenu
  <2>3. Upgrade!CopyImage => u_pc' = "copy"
    BY CopyCases
  <2>4. Upgrade!CopiesDone \/ Upgrade!Clean => u_pc' \in {"clean", "umount"}
    BY DEF Upgrade!CopiesDone, Upgrade!Clean
  <2>5. UNCHANGED faults /\ faults' # faults + 1
    OBVIOUS
  <2>6. Upgrade!InstallLoader => u_pc' # "failed"
    BY <2>5, LoaderCases
  <2> QED
    BY <2>1, <2>2, <2>3, <2>4, <2>6 DEF Changing
<1>5. ASSUME NEW f \in Upgrade!Files, f \notin Upgrade!Images \ Needed, Whole(cur, f)
      PROVE  disks'[cur][f] = "whole"
  <2>1. ASSUME NEW g, OnlyFile(cur, g, "whole") PROVE disks'[cur][f] = "whole"
    BY <1>5, <2>1 DEF OnlyFile, Whole
  <2>2. CASE Upgrade!InstallLoader
    BY <1>2, <2>1, <2>2, LoaderCases
  <2>3. CASE Upgrade!InstallMenu
    BY <1>2, <2>1, <2>3, MenuCases
  <2>4. CASE Upgrade!CopyImage
    BY <1>2, <2>1, <2>4, CopyCases
  <2>5. CASE Upgrade!CopiesDone
    BY <1>5, <2>5 DEF Upgrade!CopiesDone, Upgrade!media, Whole
  <2>6. CASE Upgrade!Clean
    BY <1>5, <2>6, CleanCases DEF Whole
  <2> QED
    BY <2>2, <2>3, <2>4, <2>5, <2>6
<1>6. \A d \in Upgrade!Disks : d # cur => disks'[d] = disks[d] /\ menu'[d] = menu[d]
  BY OneDisk
<1>7. u_pc' # "menu" => menu'[cur] = <<rver, cver>>
  BY <1>3, <1>4 DEF GoesWell
<1>8. u_pc' = "menu" => menu'[cur] = menu[cur] /\ \A f \in Upgrade!Images : disks'[cur][f] = disks[cur][f]
  <2>1. SUFFICES ASSUME Upgrade!InstallLoader
                 PROVE  menu'[cur] = menu[cur] /\ \A f \in Upgrade!Images : disks'[cur][f] = disks[cur][f]
    BY <1>4
  <2>2. OnlyFile(cur, Upgrade!Loader, "whole") /\ UNCHANGED menu
    BY <1>2, <2>1, LoaderCases
  <2> QED
    BY <1>v, <2>2 DEF OnlyFile
<1>9. ASSUME NEW d \in Upgrade!Disks, NEW v, v = cver PROVE Upgrade!Starts(d, v)'
  <2>1. Upgrade!Starts(d, v)
    BY <1>9 DEF Level
  <2>2. \A f \in Upgrade!Images : f[2] = v /\ Whole(d, f) => Whole(d, f)'
    <3>1. CASE d # cur
      BY <1>6, <3>1 DEF Whole
    <3>2. CASE d = cur
      BY <1>v, <1>5, <1>9, <3>2 DEF Whole, Needed
    <3> QED
      BY <3>1, <3>2
  <2> QED
    BY <2>1, <2>2, KeepsStarting
<1>10. ASSUME NEW d \in Upgrade!Disks
       PROVE  disks'[d][Upgrade!Loader] = "whole" /\ disks'[d][Upgrade!Menu] = "whole" /\ HasEntry(d, cver)'
  <2>1. Whole(d, Upgrade!Loader) /\ Whole(d, Upgrade!Menu) /\ HasEntry(d, cver)
    BY DEF Level
  <2>2. CASE d # cur
    BY <1>3, <1>6, <2>1, <2>2 DEF Whole, HasEntry
  <2>3. CASE d = cur
    <3>1. disks'[d][Upgrade!Loader] = "whole" /\ disks'[d][Upgrade!Menu] = "whole"
      BY <1>v, <1>5, <2>1, <2>3
    <3>2. HasEntry(d, cver)'
      BY <1>3, <1>7, <1>8, <2>1, <2>3 DEF HasEntry
    <3> QED
      BY <3>1, <3>2
  <2> QED
    BY <2>2, <2>3
<1>11. ASSUME NEW d \in Upgrade!Disks, d = cur, NEW v, v = rver, u_pc' \in {"clean", "umount"}
       PROVE  Upgrade!Starts(d, v)'
  <2>1. \A f \in Needed' : disks'[d][f] = "whole"
    BY <1>3, <1>11 DEF GoesWell, ImagesArrive, Whole
  <2>2. \A f \in Upgrade!Images : f[2] = v => f \in Needed'
    BY <1>3, <1>11 DEF Needed
  <2>3. v \in Upgrade!Versions /\ \A k \in {"rootfs", "kernel"} : <<k, v>> \in Upgrade!Images /\ <<k, v>>[2] = v
    BY <1>2, <1>11, Values
  <2> QED
    BY <2>1, <2>2, <2>3 DEF Upgrade!Starts
<1>12. ASSUME NEW d \in Upgrade!Disks, NEW i \in DOMAIN menu'[d], NEW v, v = menu'[d][i]
       PROVE  Upgrade!Starts(d, v)' \/ (d = cur' /\ u_pc' = "copy" /\ v = rver')
  <2>1. CASE d # cur
    <3>1. v = menu[d][i] /\ i \in DOMAIN menu[d] /\ disks'[d] = disks[d]
      BY <1>6, <1>12, <2>1
    <3>2. Upgrade!Starts(d, v)
      BY <2>1, <3>1 DEF Level
    <3> QED
      BY <3>1, <3>2, KeepsStarting DEF Whole
  <2>2. CASE d = cur /\ u_pc' # "menu"
    <3>1. v = rver \/ v = cver
      BY <1>7, <1>12, <2>2
    <3> QED
      BY <1>3, <1>4, <1>9, <1>11, <2>2, <3>1 DEF Changing
  <2>3. CASE d = cur /\ u_pc' = "menu"
    <3>1. v = menu[d][i] /\ i \in DOMAIN menu[d] /\ u_pc = "loader"
      BY <1>4, <1>8, <1>12, <2>3 DEF Upgrade!InstallLoader
    <3>2. Upgrade!Starts(d, v)
      BY <3>1 DEF Level
    <3> QED
      BY <1>8, <2>3, <3>2, KeepsStarting DEF Whole
  <2> QED
    BY <2>1, <2>2, <2>3
<1>13. ASSUME NEW d \in Upgrade!Disks, d < cur' PROVE menu'[d] = <<rver', cver'>>
  <2>1. d < cur /\ d # cur /\ u_pc \in InPass
    BY <1>v, <1>1, <1>3, <1>13, Values DEF InPass
  <2>2. menu[d] = <<rver, cver>>
    BY <2>1 DEF Level
  <2> QED
    BY <1>3, <1>6, <2>1, <2>2
<1>14. u_pc' \notin Upgrade!Ended \cup {"current", "menucfg", "download"}
  BY <1>4 DEF Changing, Upgrade!Ended
<1>15. \A d \in Upgrade!Disks : Upgrade!Starts(d, cver)'
  BY <1>3, <1>9
<1>16. \A d \in Upgrade!Disks : \A i \in DOMAIN menu'[d] :
           Upgrade!Starts(d, menu[d][i])' \/ (d = cur' /\ u_pc' = "copy" /\ menu'[d][i] = rver')
  BY <1>12
<1> QED
  BY <1>3, <1>10, <1>13, <1>14, <1>15, <1>16 DEF Level, Whole

\* The others.
LEMMA QuietLevel ==
    ASSUME Level, UNCHANGED <<disks, menu, cver>>, u_pc # "copy", u_pc' \notin Changing,
           u_pc' \in Upgrade!Ended \cup {"current", "menucfg", "download"} =>
               \A d, e \in Upgrade!Disks : menu[d] = menu[e],
           u_pc' \in InPass => \A d \in Upgrade!Disks : d < cur' => menu[d] = <<rver', cver>>
    PROVE  Level'
<1>1. \A d \in Upgrade!Disks : \A v : Upgrade!Starts(d, v)' <=> Upgrade!Starts(d, v)
  BY DEF Upgrade!Starts
<1>2. \A d \in Upgrade!Disks : Upgrade!Starts(d, cver)' <=> Upgrade!Starts(d, cver)
  BY <1>1
<1>3. \A d \in Upgrade!Disks : \A i \in DOMAIN menu[d] :
          Upgrade!Starts(d, menu[d][i])' <=> Upgrade!Starts(d, menu[d][i])
  BY <1>1
<1>4. GoesWell'
  BY DEF GoesWell, ImagesArrive, Changing
<1> QED
  BY <1>2, <1>3, <1>4 DEF Level, Whole, HasEntry

LEMMA StepLevel ==
    ASSUME UpgradeTyped, Control', Upgrade!Next, faults = 0, faults' = 0, Level PROVE Level'
<1>v. cur \in Upgrade!Disks /\ Upgrade!Disks = 1 .. NDisks /\ NDisks \in Nat
  BY Values DEF UpgradeTyped, DisksTyped
<1>f. ~ Upgrade!Fault
  BY DEF Upgrade!Fault
<1> DEFINE Same == \A d, e \in Upgrade!Disks : menu[d] = menu[e]
           Before == \A d \in Upgrade!Disks : d < cur => menu[d] = <<rver, cver>>
<1>a. /\ u_pc \in Upgrade!Ended \cup {"current", "menucfg", "download"} => Same
      /\ u_pc \in InPass => Before
  BY DEF Level
<1>1. CASE Upgrade!Release
  <2>1. UNCHANGED <<disks, menu, boot, cver, rver, cur, todo, u_pc>>
    BY <1>1 DEF Upgrade!Release, Upgrade!media, Upgrade!script
  <2>2. \A d \in Upgrade!Disks : \A v : Upgrade!Starts(d, v)' <=> Upgrade!Starts(d, v)
    BY <2>1 DEF Upgrade!Starts
  <2>3. \A d \in Upgrade!Disks : Upgrade!Starts(d, cver)' <=> Upgrade!Starts(d, cver)
    BY <2>1, <2>2
  <2>4. \A d \in Upgrade!Disks : \A i \in DOMAIN menu[d] :
            Upgrade!Starts(d, menu[d][i])' <=> Upgrade!Starts(d, menu[d][i])
    BY <2>1, <2>2
  <2>5. GoesWell'
    BY <2>1 DEF Level, GoesWell, ImagesArrive, Whole, Left, Needed
  <2> QED
    BY <2>1, <2>3, <2>4, <2>5 DEF Level, Whole, HasEntry
<1>2. CASE Upgrade!Start \/ Upgrade!GetCurrent \/ Upgrade!WriteTmpMenu \/ Upgrade!Download
  <2>1. /\ UNCHANGED <<disks, menu, cver>> /\ u_pc \in Upgrade!Ended \cup {"current", "menucfg", "download"}
        /\ u_pc' \in Upgrade!Ended \cup {"current", "menucfg", "download"} \/ (u_pc' = "fsck" /\ cur' = 1)
    BY <1>2, <1>f DEF Upgrade!Start, Upgrade!GetCurrent, Upgrade!WriteTmpMenu, Upgrade!Download,
       Upgrade!media, Upgrade!Ended
  <2>2. u_pc # "copy" /\ u_pc' \notin Changing
    BY <2>1 DEF Changing, Upgrade!Ended
  <2>3. u_pc' \in InPass => \A d \in Upgrade!Disks : ~ (d < cur')
    BY <1>v, <2>1 DEF InPass, Upgrade!Ended
  <2> QED
    BY <1>a, <2>1, <2>2, <2>3, QuietLevel
<1>3. CASE Upgrade!Fsck \/ Upgrade!Mount \/ Upgrade!TestMenu
  <2>1. /\ UNCHANGED <<disks, menu, cver, rver, cur>> /\ u_pc \in InPass \ Changing
        /\ u_pc' \in InPass \ Changing \/ u_pc' = "notboot"
    BY <1>3, <1>f DEF Upgrade!Fsck, Upgrade!Mount, Upgrade!TestMenu, Upgrade!Exit, Upgrade!media,
       Upgrade!script, InPass, Changing
  <2>2. u_pc' # "notboot"
    BY DEF Control
  <2>3. u_pc # "copy" /\ u_pc' \notin Changing
    BY <2>1, <2>2 DEF Changing
  <2>4. u_pc' \notin Upgrade!Ended \cup {"current", "menucfg", "download"}
    BY <2>1, <2>2 DEF InPass, Upgrade!Ended
  <2> QED
    BY <1>a, <2>1, <2>3, <2>4, QuietLevel
<1>4. CASE Upgrade!Umount
  <2>1. /\ u_pc = "umount" /\ UNCHANGED <<disks, menu, cver, rver>>
        /\ IF cur < NDisks THEN u_pc' = "fsck" /\ cur' = cur + 1 ELSE u_pc' = "done"
    BY <1>4 DEF Upgrade!Umount, Upgrade!media
  <2>2. menu[cur] = <<rver, cver>>
    BY <2>1 DEF Level, GoesWell, Changing
  <2>3. Before
    BY <1>a, <2>1 DEF InPass
  <2>4. u_pc' = "done" => Same
    <3>1. u_pc' = "done" => \A d \in Upgrade!Disks : d < cur \/ d = cur
      BY <1>v, <2>1
    <3> QED
      BY <2>2, <2>3, <3>1
  <2>5. u_pc' = "fsck" => \A d \in Upgrade!Disks : d < cur' => d < cur \/ d = cur
    BY <1>v, <2>1
  <2>6. /\ u_pc # "copy" /\ u_pc' \notin Changing
        /\ u_pc' \in Upgrade!Ended \cup {"current", "menucfg", "download"} => u_pc' = "done"
        /\ u_pc' \in InPass => u_pc' = "fsck"
    BY <2>1 DEF Changing, InPass, Upgrade!Ended
  <2> QED
    BY <2>1, <2>2, <2>3, <2>4, <2>5, <2>6, QuietLevel
<1>5. CASE Upgrade!Boot
  <2>1. u_pc \in Upgrade!Ended \cup {"off"} /\ u_pc' = "idle" /\ UNCHANGED <<disks, menu>>
    BY <1>5 DEF Upgrade!Boot, Upgrade!media
  <2>2. PICK d \in Upgrade!Disks : \E i \in DOMAIN menu[d] : cver' = menu[d][i]
    BY <1>5 DEF Upgrade!Boot
  <2>3. PICK i \in DOMAIN menu[d] : cver' = menu[d][i]
    BY <2>2
  <2>4. u_pc \in Upgrade!Ended /\ u_pc # "copy"
    BY <2>1 DEF UpgradeTyped, Control, Upgrade!Ended
  <2>5. \A e \in Upgrade!Disks : i \in DOMAIN menu[e] /\ menu[e][i] = cver'
    BY <1>a, <2>3, <2>4
  <2>6. ASSUME NEW e \in Upgrade!Disks, NEW j \in DOMAIN menu[e], NEW v, v = menu[e][j]
        PROVE  Upgrade!Starts(e, v)'
    <3>1. Upgrade!Starts(e, v)
      BY <2>4, <2>6 DEF Level
    <3> QED
      BY <2>1, <3>1 DEF Upgrade!Starts
  <2>7. \A e \in Upgrade!Disks : HasEntry(e, cver)'
    BY <2>1, <2>5 DEF HasEntry
  <2>8. \A e \in Upgrade!Disks : Upgrade!Starts(e, cver)'
    BY <2>5, <2>6
  <2>9. \A e \in Upgrade!Disks : \A j \in DOMAIN menu'[e] : Upgrade!Starts(e, menu[e][j])'
    BY <2>1, <2>6
  <2>10. u_pc' \notin InPass /\ GoesWell'
    BY <2>1 DEF InPass, GoesWell, ImagesArrive, Changing
  <2>11. \A e \in Upgrade!Disks : Whole(e, Upgrade!Loader)' /\ Whole(e, Upgrade!Menu)'
    BY <2>1 DEF Level, Whole
  <2> QED
    BY <1>a, <2>1, <2>4, <2>7, <2>8, <2>9, <2>10, <2>11 DEF Level
<1>6. CASE Upgrade!PowerLoss
  BY <1>6, <1>f DEF Upgrade!PowerLoss
<1> QED
  BY <1>1, <1>2, <1>3, <1>4, <1>5, <1>6, WritersLevel DEF Upgrade!Next

\* What a command makes of the current disk if it does not fail: it is still
\* being changed, or its intact loader and menu have an entry that starts.
LEMMA CurEntry ==
    ASSUME UpgradeTyped, Upgrade!Next, NEW d \in Upgrade!Disks, d = cur, UNCHANGED faults,
           EntryBoots(d) \/ InWork, InWork => Recovers
    PROVE  EntryBoots(d)' \/ (InWork' /\ d = cur')
<1>v. faults \in Nat /\ faults # faults + 1 /\ ~ Upgrade!Fault
      /\ \A s \in {disks[d][Upgrade!Loader], "torn"} : s = disks[d][Upgrade!Loader] \/ s = "torn"
  BY DEF UpgradeTyped, DisksTyped, Upgrade!Fault
<1>1. UNCHANGED <<disks, menu>> /\ EntryBoots(d) => EntryBoots(d)'
  BY SameEntry
<1>2. CASE Upgrade!Release
  <2>1. UNCHANGED <<disks, menu, boot, u_pc, cur>>
    BY <1>2 DEF Upgrade!Release, Upgrade!media, Upgrade!script
  <2> QED
    BY <1>1, <2>1 DEF InWork
<1>3. CASE \/ Upgrade!Start \/ Upgrade!GetCurrent \/ Upgrade!WriteTmpMenu \/ Upgrade!Download \/ Upgrade!Fsck
           \/ Upgrade!Mount \/ Upgrade!TestMenu \/ Upgrade!Boot
  <2>1. UNCHANGED <<disks, menu>> /\ ~ InWork
    BY <1>3 DEF Upgrade!Start, Upgrade!GetCurrent, Upgrade!WriteTmpMenu, Upgrade!Download,
       Upgrade!Fsck, Upgrade!Mount, Upgrade!TestMenu, Upgrade!Boot, Upgrade!Ended,
       Upgrade!media, Upgrade!script, InWork, Changing
  <2> QED
    BY <1>1, <2>1
<1>4. CASE Upgrade!InstallLoader
  <2>1. u_pc = "loader" /\ UNCHANGED <<menu, cur>>
    BY <1>4, LoaderCases
  <2>2. EntryBoots(d)
    BY <2>1 DEF InWork, Changing
  <2>3. CASE boot # Upgrade!Ram /\ UNCHANGED boot /\ u_pc' = "menu"
    BY <2>1, <2>3 DEF InWork, Changing
  <2>4. CASE \E s \in {disks[cur][Upgrade!Loader], "torn"} : OnlyFile(cur, Upgrade!Loader, s)
    <3>1. PICK s \in {disks[cur][Upgrade!Loader], "torn"} : OnlyFile(cur, Upgrade!Loader, s)
      BY <2>4
    <3>2. \A f \in Upgrade!Files :
              disks'[d][f] = disks[d][f] \/ (f = Upgrade!Loader /\ disks'[d][f] = "torn")
      BY <1>v, <3>1 DEF OnlyFile
    <3> QED
      BY <2>1, <2>2, <3>2, SameEntry
  <2> QED
    BY <1>v, <1>4, <2>3, <2>4, LoaderCases
<1>5. CASE Upgrade!InstallMenu \/ Upgrade!CopyImage \/ Upgrade!CopiesDone \/ Upgrade!Clean
  <2>1. u_pc \in Changing /\ u_pc' \in Changing /\ UNCHANGED <<boot, cur>>
        /\ (boot = Upgrade!Ram => UNCHANGED <<disks, menu>>)
    <3>1. CASE Upgrade!InstallMenu
      BY <1>v, <3>1, MenuCases DEF Changing
    <3>2. CASE Upgrade!CopyImage
      BY <1>v, <3>2, CopyCases DEF Changing
    <3>3. CASE Upgrade!CopiesDone
      BY <3>3 DEF Upgrade!CopiesDone, Upgrade!script, Upgrade!media, Changing
    <3>4. CASE Upgrade!Clean
      BY <3>4, CleanCases DEF Changing
    <3> QED
      BY <1>5, <3>1, <3>2, <3>3, <3>4
  <2>2. CASE boot # Upgrade!Ram
    BY <2>1, <2>2 DEF InWork
  <2>3. CASE boot = Upgrade!Ram
    BY <1>1, <2>1, <2>3 DEF InWork
  <2> QED
    BY <2>2, <2>3
<1>6. CASE Upgrade!Umount
  <2>1. u_pc = "umount" /\ UNCHANGED <<disks, menu>>
    BY <1>6 DEF Upgrade!Umount, Upgrade!media
  <2>2. InWork => EntryBoots(d)
    BY <2>1, DoneBoots DEF Recovers, EntryBoots, Changing
  <2> QED
    BY <1>1, <2>1, <2>2
<1>7. CASE Upgrade!PowerLoss
  BY <1>7, <1>v DEF Upgrade!PowerLoss
<1> QED
  BY <1>2, <1>3, <1>4, <1>5, <1>6, <1>7 DEF Upgrade!Next

\* The same for the first fault.
LEMMA FirstFault ==
    ASSUME UpgradeTyped, Upgrade!Next, NEW d \in Upgrade!Disks, d = cur, world # "lossy",
           faults = 0, faults' = 1, Level, u_pc = "copy" => OldLast
    PROVE  EntryBoots(d)' \/ (InWork' /\ d = cur')
<1>1. EntryBoots(d) /\ faults + 1 = 1 /\ faults' # faults
  BY LevelBoots DEF EntryBoots
<1>2. CASE UNCHANGED <<disks, menu>>
  BY <1>1, <1>2, SameEntry
<1>3. CASE Upgrade!InstallLoader
  <2>1. UNCHANGED menu
    BY <1>3, LoaderCases
  <2>2. CASE \E s \in {disks[cur][Upgrade!Loader], "torn"} : OnlyFile(cur, Upgrade!Loader, s)
    <3>1. PICK s \in {disks[cur][Upgrade!Loader], "torn"} : OnlyFile(cur, Upgrade!Loader, s)
      BY <2>2
    <3>2. \A f \in Upgrade!Files :
              disks'[d][f] = disks[d][f] \/ (f = Upgrade!Loader /\ disks'[d][f] = "torn")
      BY <3>1 DEF OnlyFile
    <3> QED
      BY <1>1, <2>1, <3>2, SameEntry
  <2> QED
    BY <1>1, <1>2, <1>3, <2>1, <2>2, LoaderCases
<1>4. CASE Upgrade!InstallMenu
  <2>1. u_pc = "menu" /\ u_pc' = "copy" /\ UNCHANGED <<boot, cur>>
    BY <1>4, MenuCases
  <2>2. boot # Upgrade!Ram
    BY <2>1 DEF UpgradeTyped, Control, InPass
  <2> QED
    BY <2>1, <2>2 DEF InWork, Changing
<1>5. CASE Upgrade!CopyImage
  <2>1. OnlyFile(cur, Head(todo), "torn") /\ UNCHANGED menu /\ u_pc = "copy" /\ todo # <<>>
    BY <1>1, <1>5, CopyCases
  <2>2. Upgrade!InFlight = {Head(todo)}
    BY <2>1 DEF Upgrade!InFlight
  <2> QED
    BY <2>1, <2>2, TornFile DEF OnlyFile
<1>6. CASE Upgrade!PowerLoss
  <2>1. UNCHANGED menu
    BY <1>6, PowerCases
  <2>2. CASE UNCHANGED disks
    BY <1>2, <2>1, <2>2
  <2>3. CASE \A f \in Upgrade!Files :
                 disks'[cur][f] = disks[cur][f] \/ (disks'[cur][f] = "torn" /\ f \in Upgrade!InFlight)
    BY <2>1, <2>3, TornFile
  <2> QED
    BY <1>6, <2>2, <2>3, PowerCases
<1>7. \/ UNCHANGED <<disks, menu>> \/ Upgrade!InstallLoader \/ Upgrade!InstallMenu \/ Upgrade!CopyImage
      \/ Upgrade!PowerLoss \/ Upgrade!Clean
  BY DEF Upgrade!Next, Upgrade!Release, Upgrade!Start, Upgrade!GetCurrent, Upgrade!WriteTmpMenu,
         Upgrade!Download, Upgrade!Fsck, Upgrade!Mount, Upgrade!TestMenu, Upgrade!CopiesDone,
         Upgrade!Umount, Upgrade!Boot, Upgrade!media
<1>8. ~ Upgrade!Clean
  BY <1>1, CleanCases
<1> QED
  BY <1>2, <1>3, <1>4, <1>5, <1>6, <1>7, <1>8

\* A disk that is being changed gets its images and its entry.
LEMMA StepRecovers ==
    ASSUME UpgradeTyped, Upgrade!Next, InWork => Recovers, InWork',
           faults' # faults => Level
    PROVE  Recovers'
<1>v. /\ faults \in Nat /\ faults # faults + 1 /\ cur \in Upgrade!Disks
      /\ Upgrade!Menu \in Upgrade!Files /\ Upgrade!Menu \notin Upgrade!Images
      /\ Upgrade!Menu # Upgrade!Loader
  BY Values DEF UpgradeTyped, DisksTyped
<1>1. SUFFICES ASSUME u_pc' \in Changing \ {"menu"}, boot' # Upgrade!Ram PROVE Recovers'
  BY DEF Recovers, InWork
<1>2. CASE Upgrade!Release
  <2>1. UNCHANGED <<disks, menu, boot, cver, rver, cur, todo, u_pc>>
    BY <1>2 DEF Upgrade!Release, Upgrade!media, Upgrade!script
  <2> QED
    BY <2>1 DEF InWork, Recovers, ImagesArrive, Whole, Left, Needed, HasEntry
<1>3. CASE Upgrade!InstallMenu
  <2>1. /\ u_pc = "menu" /\ UNCHANGED <<boot, cver, rver, cur>>
    BY <1>3, MenuCases
  <2>2. ImagesArrive'
    BY <1>1, <1>3, <2>1, ImagesGoOn
  <2>3. HasEntry(cur, cver)'
    <3>1. CASE menu'[cur] = <<rver, cver>>
      BY <2>1, <3>1 DEF HasEntry
    <3>2. CASE faults' = faults + 1 /\ UNCHANGED menu
      <4>1. HasEntry(cur, cver)
        BY <1>v, <3>2 DEF Level
      <4> QED
        BY <2>1, <3>2, <4>1 DEF HasEntry
    <3> QED
      BY <1>v, <1>1, <1>3, <2>1, <3>1, <3>2, MenuCases
  <2> QED
    BY <2>2, <2>3 DEF Recovers
<1>4. CASE Upgrade!CopyImage \/ Upgrade!CopiesDone \/ Upgrade!Clean
  <2>1. /\ u_pc \in Changing \ {"menu"} /\ UNCHANGED <<menu, cver, boot, cur, faults>>
        /\ disks'[cur][Upgrade!Menu] = disks[cur][Upgrade!Menu]
    <3>1. CASE Upgrade!CopyImage
      <4>1. u_pc = "copy" /\ todo # <<>> /\ UNCHANGED <<menu, cver, boot, cur, faults>>
            /\ OnlyFile(cur, Head(todo), "whole")
        BY <1>1, <3>1, CopyCases DEF Changing
      <4>2. Head(todo) \in Upgrade!Images
        BY <4>1, TodoFacts DEF UpgradeTyped, DisksTyped
      <4> QED
        BY <1>v, <4>1, <4>2 DEF OnlyFile, Changing
    <3>2. CASE Upgrade!CopiesDone
      BY <3>2 DEF Upgrade!CopiesDone, Upgrade!script, Upgrade!media, Changing
    <3>3. CASE Upgrade!Clean
      BY <1>v, <3>3, CleanCases DEF Changing
    <3> QED
      BY <1>4, <3>1, <3>2, <3>3
  <2>2. Recovers /\ ImagesArrive
    BY <1>1, <2>1 DEF InWork, Recovers
  <2>3. ImagesArrive'
    BY <1>1, <1>4, <2>1, <2>2, ImagesGoOn
  <2> QED
    BY <2>1, <2>2, <2>3 DEF Recovers, Whole, HasEntry
<1>5. Upgrade!Release \/ Upgrade!InstallMenu \/ Upgrade!CopyImage \/ Upgrade!CopiesDone \/ Upgrade!Clean
  <2>1. ~ Upgrade!InstallLoader
    BY <1>1, LoaderCases DEF Changing
  <2> QED
    BY <1>1, <2>1 DEF Upgrade!Next, Upgrade!Start, Upgrade!GetCurrent, Upgrade!WriteTmpMenu, Upgrade!Download,
       Upgrade!Fsck, Upgrade!Mount, Upgrade!TestMenu, Upgrade!Umount, Upgrade!PowerLoss, Upgrade!Boot,
       Upgrade!Exit, Changing
<1> QED
  BY <1>2, <1>3, <1>4, <1>5

LEMMA StepEntries == ASSUME UpgradeTyped, Control', Upgrade!Next, EntriesStart PROVE EntriesStart'
<1>1. faults \in Nat /\ cur \in Upgrade!Disks
  BY DEF UpgradeTyped, DisksTyped
<1>2. UNCHANGED world /\ (UNCHANGED faults \/ faults' = faults + 1)
  <2>1. CASE Upgrade!InstallLoader
    BY <2>1, LoaderCases
  <2>2. CASE Upgrade!InstallMenu
    BY <2>2, MenuCases
  <2>3. CASE Upgrade!CopyImage
    BY <2>3, CopyCases
  <2>4. CASE Upgrade!Clean \/ Upgrade!PowerLoss
    BY <2>4, CleanCases, PowerCases
  <2> QED
    BY <2>1, <2>2, <2>3, <2>4 DEF Upgrade!Next, Upgrade!Release, Upgrade!Start, Upgrade!GetCurrent,
       Upgrade!WriteTmpMenu, Upgrade!Download, Upgrade!Fsck, Upgrade!Mount, Upgrade!TestMenu,
       Upgrade!CopiesDone, Upgrade!Umount, Upgrade!Boot, Upgrade!Fault
<1>3. SUFFICES ASSUME world # "lossy", faults' <= 1 PROVE EntriesStart'
  BY <1>2 DEF EntriesStart
<1>4. /\ \A d \in Upgrade!Disks : EntryBoots(d) \/ (InWork /\ d = cur)
      /\ u_pc = "copy" => OldLast
      /\ faults = 0 => Level
      /\ InWork => Recovers
  <2>1. faults <= 1
    BY <1>1, <1>2, <1>3
  <2> QED
    BY <1>3, <2>1 DEF EntriesStart
<1>5. UNCHANGED faults \/ (faults = 0 /\ faults' = 1)
  BY <1>1, <1>2, <1>3
<1>6. u_pc' = "copy" => OldLast'
  BY <1>4, StepOldLast
<1>7. faults' = 0 => Level'
  BY <1>4, <1>5, StepLevel
<1>8. InWork' => Recovers'
  BY <1>4, <1>5, StepRecovers
<1>9. ASSUME NEW d \in Upgrade!Disks PROVE EntryBoots(d)' \/ (InWork' /\ d = cur')
  <2>1. CASE d # cur
    <3>1. EntryBoots(d) /\ disks'[d] = disks[d] /\ menu'[d] = menu[d]
      BY <1>4, <2>1, OneDisk
    <3> QED
      BY <3>1, SameEntry
  <2>2. CASE d = cur /\ UNCHANGED faults
    BY <1>4, <2>2, CurEntry
  <2>3. CASE d = cur /\ faults = 0 /\ faults' = 1
    BY <1>3, <1>4, <2>3, FirstFault
  <2> QED
    BY <1>5, <2>1, <2>2, <2>3
<1> QED
  BY <1>6, <1>7, <1>8, <1>9 DEF EntriesStart

------------------------------------------------------------------------------
(* The theorems *)

LEMMA InitUpgradeInv == Upgrade!Init => UpgradeInv
<1>1. SUFFICES ASSUME Upgrade!Init PROVE UpgradeInv
  OBVIOUS
<1>2. UpgradeTyped
  BY <1>1, InitTyped
<1>3. /\ disks = [d \in Upgrade!Disks |-> Upgrade!Installed] /\ menu = [d \in Upgrade!Disks |-> <<1>>]
      /\ boot = Upgrade!Ram /\ cver = 1 /\ u_pc = "idle" /\ faults = 0
  BY <1>1 DEF Upgrade!Init
<1>4. \A f \in Upgrade!Files : f \in {Upgrade!Loader, Upgrade!Menu} \/ f[2] = 1 => Upgrade!Installed[f] = "whole"
  BY DEF Upgrade!Installed
<1>5. ASSUME NEW d \in Upgrade!Disks
      PROVE  /\ Whole(d, Upgrade!Loader) /\ Whole(d, Upgrade!Menu) /\ Upgrade!Starts(d, 1)
             /\ menu[d] = <<1>> /\ HasEntry(d, cver)
  <2>1. menu[d] = <<1>> /\ disks[d] = Upgrade!Installed
    BY <1>3
  <2>2. \A k \in {"rootfs", "kernel"} : <<k, 1>> \in Upgrade!Files /\ <<k, 1>>[2] = 1
    BY Values
  <2>3. \A k \in {"rootfs", "kernel"} : disks[d][<<k, 1>>] = "whole"
    BY <1>4, <2>1, <2>2
  <2>4. disks[d][Upgrade!Loader] = "whole" /\ disks[d][Upgrade!Menu] = "whole"
    BY <1>4, <2>1, Values
  <2>5. Upgrade!Starts(d, 1)
    BY <2>3, Values DEF Upgrade!Starts
  <2> QED
    BY <1>3, <2>1, <2>4, <2>5 DEF Whole, HasEntry
<1>6. Level
  <2>1. u_pc \notin InPass /\ GoesWell
    BY <1>3 DEF InPass, GoesWell, ImagesArrive, Changing
  <2>2. \A d \in Upgrade!Disks : \A i \in DOMAIN menu[d] : Upgrade!Starts(d, menu[d][i])
    BY <1>5
  <2>3. \A d, e \in Upgrade!Disks : menu[d] = menu[e]
    BY <1>5
  <2> QED
    BY <1>3, <1>5, <2>1, <2>2, <2>3 DEF Level
<1>7. ~ InWork /\ \A d \in Upgrade!Disks : Upgrade!Bootable(d)
  BY <1>3, <1>6, LevelBoots DEF InWork
<1>8. Spared
  <2>1. Broken = {} /\ Cardinality({}) = 0
    BY <1>7, FS_EmptySet DEF Broken
  <2> QED
    BY <1>3, <1>7, <2>1 DEF Spared
<1>9. UpgradeGoesOn
  BY <1>3 DEF UpgradeGoesOn, InPass, Changing
<1>10. EntriesStart
  BY <1>3, <1>6, <1>7 DEF EntriesStart, EntryBoots
<1> QED
  BY <1>2, <1>8, <1>9, <1>10 DEF UpgradeInv

LEMMA StutterUpgradeInv == UpgradeInv /\ UNCHANGED Upgrade!vars => UpgradeInv'
<1>1. SUFFICES ASSUME UpgradeInv, UNCHANGED Upgrade!vars PROVE UpgradeInv'
  OBVIOUS
<1>2. UNCHANGED <<world, disks, menu, boot, dirty, cver, remote, rver, tmpmenu, u_pc, cur, todo, silent, faults>>
  BY <1>1 DEF Upgrade!vars, Upgrade!media, Upgrade!script
<1> USE DEF Upgrade!Bootable, Upgrade!Starts, Whole, InWork, GoesWell, ImagesArrive, Needed, Left
<1>3. UpgradeTyped'
  BY <1>1, <1>2 DEF UpgradeInv, UpgradeTyped, DisksTyped, Control, HaveMenus
<1>4. Spared'
  BY <1>1, <1>2 DEF UpgradeInv, Spared, Broken, Charged
<1>5. UpgradeGoesOn'
  <2>1. \A d \in Upgrade!Disks : Upgraded(d)' <=> Upgraded(d)
    BY <1>2, SameUpgraded
  <2> QED
    BY <1>1, <1>2, <2>1 DEF UpgradeInv, UpgradeGoesOn, OthersGone
<1>6. EntriesStart'
  BY <1>1, <1>2 DEF UpgradeInv, EntriesStart, EntryBoots, OldLast, Level, Recovers, HasEntry
<1> QED
  BY <1>3, <1>4, <1>5, <1>6 DEF UpgradeInv

LEMMA StepUpgradeInv == UpgradeInv /\ [Upgrade!Next]_(Upgrade!vars) => UpgradeInv'
<1>1. SUFFICES ASSUME UpgradeInv, Upgrade!Next PROVE UpgradeInv'
  BY StutterUpgradeInv
<1>2. UpgradeTyped /\ Spared /\ UpgradeGoesOn /\ EntriesStart
  BY <1>1 DEF UpgradeInv
<1>3. UpgradeTyped'
  <2>1. HaveMenus'
    BY <1>1, <1>2, MenusStay DEF HaveMenus
  <2> QED
    BY <1>1, <1>2, <2>1, StepTypes, StepControl DEF UpgradeTyped
<1>4. Spared' /\ UpgradeGoesOn'
  BY <1>1, <1>2, StepSpares, StepUpgrades
<1>5. EntriesStart'
  BY <1>1, <1>2, StepControl, StepEntries
<1> QED
  BY <1>3, <1>4, <1>5 DEF UpgradeInv

LEMMA UpgradeInvHolds == Upgrade!Spec => []UpgradeInv
BY InitUpgradeInv, StepUpgradeInv, PTL DEF Upgrade!Spec

\* However often cargos-upgrade is run, power losses and failing commands make
\* no more disks unbootable than there are of them: the loop mounts, changes
\* and unmounts one disk after the other (cargos-upgrade:319-355).
THEOREM SomeDiskAlwaysBoots == Upgrade!Spec => []SomeDiskBoots
<1>1. UpgradeInv => SomeDiskBoots
  <2>1. SUFFICES ASSUME UpgradeInv, world # "tmpfull", u_pc \notin Upgrade!Active, faults < NDisks
                 PROVE  \E d \in Upgrade!Disks : Upgrade!Bootable(d)
    BY DEF SomeDiskBoots, Upgrade!SomeDiskBoots
  <2>2. ~ InWork
    BY <2>1 DEF InWork, Changing, Upgrade!Active
  <2>3. Cardinality(Broken) <= faults /\ faults \in Nat /\ NDisks \in Nat
    BY <2>1, <2>2, Values DEF UpgradeInv, Spared, UpgradeTyped, DisksTyped
  <2>4. Broken \in SUBSET Upgrade!Disks /\ cur \in Upgrade!Disks
    BY <2>1 DEF Broken, UpgradeInv, UpgradeTyped, DisksTyped
  <2>5. Broken # Upgrade!Disks
    <3>1. Broken = Upgrade!Disks => Cardinality(Broken) = NDisks
      BY <2>4, CountFacts
    <3> QED
      BY <2>1, <2>3, <3>1
  <2> QED
    BY <2>4, <2>5 DEF Broken
<1> QED
  BY <1>1, UpgradeInvHolds, PTL

\* A run that ends at "done" without an error, checked or not, has installed
\* the new release on every disk, whatever earlier runs left there
\* (cargos-upgrade:319-355).
THEOREM DoneIsUpgraded == Upgrade!Spec => []DoneMeansUpgraded
<1>1. UpgradeInv => DoneMeansUpgraded
  BY DEF UpgradeInv, UpgradeGoesOn, Upgraded, DoneMeansUpgraded, Upgrade!DoneMeansUpgraded
<1> QED
  BY <1>1, UpgradeInvHolds, PTL

\* After no more than one fault every disk with an intact loader and menu has
\* an entry that starts: the images of the running release are copied last,
\* those of the new one are there by then, and nothing that the menu names is
\* removed (cargos-upgrade:340-353).
THEOREM EntriesAlwaysBoot == Upgrade!Spec => []MenuEntryBoots
<1>1. UpgradeInv => MenuEntryBoots
  <2>1. SUFFICES ASSUME UpgradeInv, world # "lossy", u_pc \notin Upgrade!Active, faults <= 1
                 PROVE  \A d \in Upgrade!Disks : EntryBoots(d)
    BY DEF MenuEntryBoots, Upgrade!MenuEntryBoots, EntryBoots, Whole
  <2>2. ~ InWork
    BY <2>1 DEF InWork, Changing, Upgrade!Active
  <2> QED
    BY <2>1, <2>2 DEF UpgradeInv, EntriesStart
<1> QED
  BY <1>1, UpgradeInvHolds, PTL

-----------------------------------------------------------------------------
(***************************************************************************)
(* Several instances: the pid file and the temporary directories go when   *)
(* the last instance does, although nothing keeps the instances apart.     *)
(***************************************************************************)
\* As long as nobody was killed, the instance that wrote the pid file last is
\* still to run its trap, and so is every one with a temporary directory.
\* NothingLeftBehind speaks of no instance that runs, so it is not inductive.
SomebodyCleans ==
    kills = 0 =>
        /\ pidfile => \E p \in Procs : pc[p] \in Critical \cup {"trap"}
        /\ \A p \in tmpdir : pc[p] \in Alive

LockInv ==
    /\ pc \in [Procs -> Labels]
    /\ tmpdir \subseteq Procs
    /\ kills \in 0..MaxKills
    /\ SomebodyCleans

\* No instance runs at first, and there is nothing to clean up.
LEMMA LockInit == Init => LockInv
BY BoundsAssumption DEF Init, LockInv, SomebodyCleans, Labels

\* A step of p that moves p within what is alive and leaves the pid file as it
\* is or removes it: a writer that goes on stays where its trap is ahead of it.
LEMMA LockGoesOn ==
    ASSUME LockInv, NEW p \in Procs, NEW l \in Alive,
           pc[p] \in Critical => l \in Critical \cup {"trap"},
           pc[p] # "trap",
           pc' = [pc EXCEPT ![p] = l], pc[p] \in Alive,
           UNCHANGED <<pidfile, tmpdir, kills>>
    PROVE  LockInv'
<1>1. pc' \in [Procs -> Labels] /\ tmpdir' \subseteq Procs /\ kills' \in 0..MaxKills
    BY DEF LockInv, Labels
<1>2. ASSUME kills = 0, pidfile PROVE \E q \in Procs : pc'[q] \in Critical \cup {"trap"}
  <2>1. PICK q \in Procs : pc[q] \in Critical \cup {"trap"}
      BY <1>2 DEF LockInv, SomebodyCleans
  <2> QED
      BY <2>1 DEF LockInv
<1>3. ASSUME kills = 0, NEW q \in tmpdir PROVE pc'[q] \in Alive
    BY <1>3 DEF LockInv, SomebodyCleans
<1> QED
    BY <1>1, <1>2, <1>3 DEF LockInv, SomebodyCleans

LEMMA LockStep == LockInv /\ [Next]_vars => LockInv'
<1> SUFFICES ASSUME LockInv, [Next]_vars PROVE LockInv'
    OBVIOUS
<1> USE DEF Alive, Critical
<1>0. CASE UNCHANGED vars
    BY <1>0 DEF vars, LockInv, SomebodyCleans
\* A launched instance was not alive, so it is not the one to clean up.
<1>1. ASSUME NEW p \in Procs, Launch(p) PROVE LockInv'
  <2>1. pc' \in [Procs -> Labels] /\ tmpdir' \subseteq Procs /\ kills' \in 0..MaxKills
      BY <1>1 DEF Launch, LockInv, Labels
  <2>2. ASSUME kills' = 0, pidfile' PROVE \E q \in Procs : pc'[q] \in Critical \cup {"trap"}
    <3>1. PICK q \in Procs : pc[q] \in Critical \cup {"trap"}
        BY <1>1, <2>2 DEF Launch, LockInv, SomebodyCleans
    <3> QED
        BY <1>1, <3>1 DEF Launch, LockInv
  <2>3. ASSUME kills' = 0, NEW q \in tmpdir' PROVE pc'[q] \in Alive
      BY <1>1, <2>3 DEF Launch, LockInv, SomebodyCleans
  <2> QED
      BY <2>1, <2>2, <2>3 DEF LockInv, SomebodyCleans
<1>2. ASSUME NEW p \in Procs, TestPid(p) PROVE LockInv'
    BY <1>2, LockGoesOn DEF TestPid
\* The writer has its trap ahead of it.
<1>3. ASSUME NEW p \in Procs, WritePid(p) PROVE LockInv'
    BY <1>3 DEF WritePid, LockInv, SomebodyCleans, Labels
<1>4. ASSUME NEW p \in Procs, Mount(p) PROVE LockInv'
    BY <1>4, LockGoesOn DEF Mount
<1>5. ASSUME NEW p \in Procs, Copy(p) PROVE LockInv'
    BY <1>5, LockGoesOn DEF Copy
<1>6. ASSUME NEW p \in Procs, Umount(p) PROVE LockInv'
    BY <1>6, LockGoesOn DEF Umount
<1>7. ASSUME NEW p \in Procs, Leave(p) PROVE LockInv'
    BY <1>7, LockGoesOn DEF Leave
\* The trap removes the pid file, whoever wrote it.
<1>8. ASSUME NEW p \in Procs, ByeBye(p) PROVE LockInv'
    BY <1>8 DEF ByeBye, LockInv, SomebodyCleans, Labels
<1>9. ASSUME NEW p \in Procs, Kill(p) PROVE LockInv'
    BY <1>9, BoundsAssumption DEF Kill, LockInv, SomebodyCleans, Labels
<1> QED
    BY <1>0, <1>1, <1>2, <1>3, <1>4, <1>5, <1>6, <1>7, <1>8, <1>9 DEF Next, Step

\* When no instance is left and none was killed, the pid file and all temporary
\* directories are gone (bye_bye, the trap every instance ends with).
THEOREM LeavesNothing == Spec => []NothingLeftBehind
<1>1. LockInv => NothingLeftBehind
    BY DEF LockInv, SomebodyCleans, NothingLeftBehind, Alive, Critical
<1> QED
    BY LockInit, LockStep, <1>1, PTL DEF Spec
=============================================================================
