---------------------------- MODULE CargosUpgrade ----------------------------
(***************************************************************************)
(* system/skeleton-cargos/usr/sbin/cargos-upgrade, without options or with *)
(* -f: fetch a release and install it, next to the running one, on the     *)
(* boot partition of every disk that is an LVM physical volume.            *)
(*                                                                         *)
(* The root file system is in memory, so only the boot partitions outlive  *)
(* a power loss.  A command that fails and a power loss are faults, and    *)
(* their number is bounded; a power loss damages the file that is being    *)
(* written and, unless durable, any file written since the partition was   *)
(* mounted (the script calls sync for -u only).                            *)
(*                                                                         *)
(* A definition just before an action and not used by Next is the action   *)
(* with a plausible mistake in it.                                         *)
(***************************************************************************)
EXTENDS Naturals, Sequences, FiniteSets

CONSTANTS NDisks,     \* disks pvs lists, in its order: one at least
          NVersions,  \* releases, the first one installed by rc.bootstrap
          MaxRuns,    \* bound on the runs of the script
          MaxFaults,  \* bound on failing commands and power losses
          Worlds      \* the circumstances looked at, of those in Circumstances


Disks == 1..NDisks
Versions == 1..NVersions
NoVersion == 0              \* what `wget -qO - .../current' prints when it fails
Ram == 0                    \* /boot is a directory of the root file system

Images == {"rootfs", "kernel"} \X Versions
Files == Images \cup {<<"loader", NoVersion>>, <<"menu", NoVersion>>}
Loader == <<"loader", NoVersion>>
Menu == <<"menu", NoVersion>>
States == {"absent", "torn", "whole"}

\* What cp has written survives a power loss, or need not if it is lossy; and
\* writing the small /tmp/grub.cfg may fail when /tmp is full.
Circumstances == {"durable", "lossy", "tmpfull"}

VARIABLES world,    \* the circumstances
          disk,     \* disk[d][f]: state of file f on the boot partition of d
          menu,     \* menu[d]: versions in the order of d's grub.cfg
          boot,     \* what is mounted on /boot
          dirty,    \* files written to it since it was mounted
          cver,     \* the running release, /etc/cargos-release
          remote,   \* the release http://download.cargos.io/current names
          rver,     \* ${_rver}
          force,    \* -f was given
          tmpmenu,  \* /tmp/grub.cfg holds all that was written to it
          pc,       \* next command of the script
          cur,      \* disk of the current pass of the loop
          todo,     \* images still to be copied in this pass
          silent,   \* a command nobody checks has failed in this run
          faults, runs

media == <<disk, menu>>
script == <<rver, force, tmpmenu, cur, todo, silent>>
vars == <<world, media, boot, dirty, cver, remote, script, pc, faults, runs>>

Ended == {"idle", "uptodate", "declined", "notboot", "failed", "done"}
Active == {"current", "menucfg", "download", "fsck", "mount", "test",
           "loader", "menu", "copy", "clean", "umount"}
Labels == Ended \cup Active \cup {"off"}

\* ${_rver} ${_cver} in a for loop: an empty word vanishes.
Wanted == IF rver = NoVersion THEN <<cver>> ELSE <<rver, cver>>

\* Order of the copies in one pass: root file system, then kernel.
Copies ==
    [i \in 1..(2 * Len(Wanted)) |->
        <<IF i % 2 = 1 THEN "rootfs" ELSE "kernel", Wanted[(i + 1) \div 2]>>]

\* Release v can be started from disk d.
Starts(d, v) ==
    v \in Versions /\ \A k \in {"rootfs", "kernel"} : disk[d][<<k, v>>] = "whole"

\* Some entry of the menu of d can be started.
Bootable(d) ==
    /\ disk[d][Loader] = "whole" /\ disk[d][Menu] = "whole"
    /\ \E i \in DOMAIN menu[d] : Starts(d, menu[d][i])

\* The entry grub starts when nobody intervenes can be started.
DefaultBoots(d) == Bootable(d) /\ Starts(d, menu[d][1])

\* File f of the file system mounted on /boot gets state s.
Write(f, s) ==
    IF boot = Ram THEN UNCHANGED <<disk, dirty>>
    ELSE /\ disk' = [disk EXCEPT ![boot][f] = s]
         /\ dirty' = dirty \cup {f}

Fault == faults < MaxFaults /\ faults' = faults + 1

\* pr_error, or the EXIT trap of any other exit: umount -f /boot.
Exit(label) == pc' = label /\ boot' = Ram /\ dirty' = {}

------------------------------------------------------------------------------
Installed ==
    [f \in Files |-> IF f \in {Loader, Menu} \/ f[2] = 1 THEN "whole" ELSE "absent"]

Init ==
    /\ world \in Worlds
    /\ disk = [d \in Disks |-> Installed]
    /\ menu = [d \in Disks |-> <<1>>]
    /\ boot = Ram /\ dirty = {}
    /\ cver = 1 /\ remote = 1 /\ rver = NoVersion
    /\ force = FALSE /\ tmpmenu = FALSE
    /\ pc = "idle" /\ cur = 1 /\ todo = <<>> /\ silent = FALSE
    /\ faults = 0 /\ runs = 0

\* Somebody publishes a release.
Release ==
    /\ remote < NVersions
    /\ remote' = remote + 1
    /\ UNCHANGED <<world, media, boot, dirty, cver, script, pc, faults, runs>>

\* The administrator starts the script.
Start ==
    /\ pc \in Ended /\ runs < MaxRuns
    /\ runs' = runs + 1
    /\ force' \in BOOLEAN
    /\ silent' = FALSE
    /\ pc' = "current"
    /\ UNCHANGED <<world, media, boot, dirty, cver, remote, rver, tmpmenu, cur, todo, faults>>

\* _rver=$(wget -qO - .../current): unchecked; then up-to-date, or a question.
GetCurrent ==
    /\ pc = "current"
    /\ \/ rver' = remote /\ UNCHANGED faults
       \/ rver' = NoVersion /\ Fault
    /\ IF rver' = cver THEN pc' = "uptodate"
       ELSE pc' \in {"menucfg", "declined"}
    /\ UNCHANGED <<world, media, boot, dirty, cver, remote, force, tmpmenu, cur, todo,
                   silent, runs>>

\* cat << EOF > /tmp/grub.cfg: unchecked.
WriteTmpMenu ==
    /\ pc = "menucfg"
    /\ \/ tmpmenu' = TRUE /\ UNCHANGED <<faults, silent>>
       \/ world = "tmpfull" /\ tmpmenu' = FALSE /\ silent' = TRUE /\ Fault
    /\ pc' = "download"
    /\ UNCHANGED <<world, media, boot, dirty, cver, remote, rver, force, cur, todo, runs>>

\* wget of each root file system and kernel to /tmp; a failure ends the run.
Download ==
    /\ pc = "download"
    /\ \/ pc' = "fsck" /\ cur' = 1 /\ UNCHANGED <<boot, dirty, faults>>
       \/ Exit("failed") /\ Fault /\ UNCHANGED cur
    /\ UNCHANGED <<world, media, cver, remote, rver, force, tmpmenu, todo, silent, runs>>

\* fsck.ext4 -p
Fsck ==
    /\ pc = "fsck"
    /\ \/ pc' = "mount" /\ UNCHANGED <<boot, dirty, faults>>
       \/ Exit("failed") /\ Fault
    /\ UNCHANGED <<world, media, cver, remote, script, runs>>

\* mount -t ext4 ${_disk}1 /boot: unchecked.
Mount ==
    /\ pc = "mount"
    /\ \/ boot' = cur /\ UNCHANGED <<faults, silent>>
       \/ boot' = Ram /\ silent' = TRUE /\ Fault
    /\ dirty' = {}
    /\ pc' = "test"
    /\ UNCHANGED <<world, media, cver, remote, rver, force, tmpmenu, cur, todo, runs>>

\* Unless -f is given, /boot/grub/grub.cfg must exist.
TestMenu ==
    /\ pc = "test"
    /\ IF force \/ (boot # Ram /\ disk[boot][Menu] # "absent")
       THEN pc' = "loader" /\ UNCHANGED <<boot, dirty>>
       ELSE Exit("notboot")
    /\ UNCHANGED <<world, media, cver, remote, script, faults, runs>>

\* paxctl, grub-install, paxctl: only the status of the last one is checked.
\* grub-install writes to the disk even when /boot is not its partition.
InstallLoader ==
    /\ pc = "loader"
    /\ \/ /\ boot # Ram
          /\ Write(Loader, "whole")
          /\ pc' = "menu" /\ UNCHANGED <<boot, silent, faults>>
       \/ /\ \E s \in {disk[cur][Loader], "torn"} :
                disk' = [disk EXCEPT ![cur][Loader] = s]
          /\ \/ boot = Ram /\ UNCHANGED faults
             \/ boot # Ram /\ Fault
          /\ silent' = TRUE
          /\ pc' = "menu" /\ UNCHANGED <<boot, dirty>>
       \/ /\ Exit("failed") /\ Fault
          /\ UNCHANGED <<disk, silent>>
    /\ UNCHANGED <<world, menu, cver, remote, rver, force, tmpmenu, cur, todo, runs>>

\* The old images make room for the new ones before these are there.
InstallMenuAndClean ==
    /\ pc = "menu" /\ boot # Ram
    /\ disk' = [disk EXCEPT ![boot] = [f \in Files |->
                    IF f \in Images /\ f[2] # rver THEN "absent"
                    ELSE IF f = Menu THEN "whole" ELSE @[f]]]
    /\ dirty' = dirty \cup {Menu}
    /\ menu' = [menu EXCEPT ![boot] = <<rver, cver>>]
    /\ todo' = Copies
    /\ pc' = "copy"
    /\ UNCHANGED <<world, boot, cver, remote, rver, force, tmpmenu, cur, silent, faults, runs>>

\* The menu has no entry for the running release.
InstallMenuWithoutFallback ==
    /\ pc = "menu" /\ boot # Ram
    /\ Write(Menu, IF tmpmenu THEN "whole" ELSE "torn")
    /\ menu' = [menu EXCEPT ![boot] = <<rver>>]
    /\ todo' = Copies
    /\ pc' = "copy"
    /\ UNCHANGED <<world, boot, cver, remote, rver, force, tmpmenu, cur, silent, faults, runs>>

\* cp /tmp/grub.cfg /boot/grub/grub.cfg: unchecked; it may fail before or
\* after it has truncated the old file.
InstallMenu ==
    /\ pc = "menu"
    /\ \/ /\ Write(Menu, IF tmpmenu THEN "whole" ELSE "torn")
          /\ menu' = IF boot = Ram THEN menu
                     ELSE [menu EXCEPT ![boot] = <<rver, cver>>]
          /\ UNCHANGED <<silent, faults>>
       \/ /\ \/ Write(Menu, "torn")
             \/ UNCHANGED <<disk, dirty>>
          /\ silent' = TRUE /\ Fault
          /\ UNCHANGED menu
    /\ todo' = Copies
    /\ pc' = "copy"
    /\ UNCHANGED <<world, boot, cver, remote, rver, force, tmpmenu, cur, runs>>

\* cp of the next image to /boot; a failure ends the run.
CopyImage ==
    /\ pc = "copy" /\ todo # <<>>
    /\ \/ /\ Write(Head(todo), "whole")
          /\ todo' = Tail(todo)
          /\ UNCHANGED <<pc, boot, faults>>
       \/ /\ boot # Ram
          /\ disk' = [disk EXCEPT ![boot][Head(todo)] = "torn"]
          /\ Exit("failed") /\ Fault
          /\ UNCHANGED todo
    /\ UNCHANGED <<world, menu, cver, remote, rver, force, tmpmenu, cur, silent, runs>>

\* The images have been copied: go on to the cleaning.
CopiesDone ==
    /\ pc = "copy" /\ todo = <<>>
    /\ pc' = "clean"
    /\ UNCHANGED <<world, media, boot, dirty, cver, remote, script, faults, runs>>

\* Nothing is removed.
CleanForgotten ==
    /\ pc = "clean"
    /\ pc' = "umount"
    /\ UNCHANGED <<world, media, boot, dirty, cver, remote, script, faults, runs>>

\* find /boot ! -name "*${_cver}*" -a ! -name "*${_rver}*" ... -exec rm: with an
\* empty ${_rver} the second pattern matches every name and nothing is removed.
Clean ==
    /\ pc = "clean"
    /\ disk' = IF boot = Ram \/ rver = NoVersion THEN disk
               ELSE [disk EXCEPT ![boot] = [f \in Files |->
                        IF f \in Images /\ f[2] \notin {cver, rver} THEN "absent"
                        ELSE @[f]]]
    /\ pc' = "umount"
    /\ UNCHANGED <<world, menu, boot, dirty, cver, remote, script, faults, runs>>

\* umount /boot, and the next disk or the end.
Umount ==
    /\ pc = "umount"
    /\ boot' = Ram /\ dirty' = {}
    /\ IF cur < NDisks THEN pc' = "fsck" /\ cur' = cur + 1
       ELSE pc' = "done" /\ UNCHANGED cur
    /\ UNCHANGED <<world, media, cver, remote, rver, force, tmpmenu, todo, silent, faults, runs>>

\* The file a command is writing right now.
InFlight ==
    CASE pc = "loader" -> {Loader}
      [] pc = "menu" -> {Menu}
      [] pc = "copy" /\ todo # <<>> -> {Head(todo)}
      [] OTHER -> {}

\* The power goes.  Images of the running release may be damaged although they
\* are only overwritten with what they already hold: cp truncates first.
PowerLoss ==
    /\ pc # "off" /\ Fault
    /\ IF boot = Ram THEN UNCHANGED disk
       ELSE \E lost \in SUBSET (InFlight \cup (IF world = "lossy" THEN dirty ELSE {})) :
               disk' = [disk EXCEPT ![boot] = [f \in Files |->
                           IF f \in lost THEN "torn" ELSE @[f]]]
    /\ pc' = "off" /\ boot' = Ram /\ dirty' = {}
    /\ UNCHANGED <<world, menu, cver, remote, script, runs>>

\* The power comes back, or the administrator reboots: a disk and an entry of
\* its menu that can be started are chosen.
Boot ==
    /\ pc \in Ended \cup {"off"}
    /\ \E d \in Disks : Bootable(d) /\ \E i \in DOMAIN menu[d] :
          Starts(d, menu[d][i]) /\ cver' = menu[d][i]
    /\ pc' = "idle"
    /\ tmpmenu' = FALSE
    /\ UNCHANGED <<world, media, boot, dirty, remote, rver, force, cur, todo, silent,
                   faults, runs>>

Next ==
    \/ Release \/ Start \/ GetCurrent \/ WriteTmpMenu \/ Download \/ Fsck
    \/ Mount \/ TestMenu \/ InstallLoader \/ InstallMenu \/ CopyImage
    \/ CopiesDone \/ Clean \/ Umount \/ PowerLoss \/ Boot

Spec == Init /\ [][Next]_vars

------------------------------------------------------------------------------
(* Properties *)

TypeOK ==
    /\ world \in Worlds
    /\ disk \in [Disks -> [Files -> States]]
    /\ menu \in [Disks -> Seq(Versions \cup {NoVersion})]
    /\ boot \in Disks \cup {Ram}
    /\ dirty \subseteq Files
    /\ cver \in Versions /\ remote \in Versions
    /\ rver \in Versions \cup {NoVersion}
    /\ force \in BOOLEAN /\ tmpmenu \in BOOLEAN /\ silent \in BOOLEAN
    /\ pc \in Labels
    /\ cur \in Disks
    /\ todo \in Seq(Images)
    /\ faults \in 0..MaxFaults /\ runs \in 0..MaxRuns

\* The machine can be started from some disk as long as there have been fewer
\* failing commands and power losses than there are disks, in one run or in
\* several, even if nothing written since the last mount has reached the disk.
\* (Unless the menu the script wrote to a full /tmp is already truncated.)
SomeDiskBoots ==
    world # "tmpfull" /\ pc \notin Active /\ faults < NDisks => \E d \in Disks : Bootable(d)

\* Whenever the machine may have to be started again after no more than one
\* failing command or power loss, a disk whose loader and menu are intact has
\* an entry that starts: the running release is not overwritten before the new
\* one is there, and until then it is on every disk.
MenuEntryBoots ==
    world # "lossy" /\ pc \notin Active /\ faults <= 1 =>
        \A d \in Disks :
            disk[d][Loader] = "whole" /\ disk[d][Menu] = "whole" => Bootable(d)

\* A run that reaches its end has repaired whatever earlier runs left behind:
\* every disk starts the new release by default, falls back on the running
\* one, and holds no other image.
DoneMeansUpgraded ==
    pc = "done" /\ ~ silent /\ rver # NoVersion =>
        \A d \in Disks :
            /\ DefaultBoots(d)
            /\ menu[d] = <<rver, cver>>
            /\ \A f \in Images :
                  disk[d][f] = IF f[2] \in {rver, cver} THEN "whole" ELSE "absent"

\* The script's message "Your CargOS installation on the disk(s) is
\* up-to-date!": every disk starts the current release by default.
UpToDateMeansInstalled ==
    pc = "uptodate" => \A d \in Disks : DefaultBoots(d) /\ menu[d][1] = rver
==============================================================================
