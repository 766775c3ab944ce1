----------------------------- MODULE UpgradeLock -----------------------------
(***************************************************************************)
(* The pid file and the EXIT trap of usr/sbin/cargos-upgrade, with several *)
(* instances started on one machine.  CargosUpgrade models what a single   *)
(* instance does to the disks; here that work is one mount, some copies    *)
(* and one umount per disk.                                                *)
(*                                                                         *)
(* bye_bye is the trap for exit and for the signals HUP, INT, TRAP and     *)
(* TERM, and it is set before the pid file is looked at.  KILL runs no     *)
(* trap.                                                                   *)
(*                                                                         *)
(* A definition just before an action and not used by Next is the action   *)
(* with a plausible mistake in it.                                         *)
(***************************************************************************)
EXTENDS Naturals, FiniteSets

CONSTANTS Procs,      \* instances of the script
          NDisks,     \* passes of the loop over the disks
          MaxKills,   \* bound on the instances that get SIGKILL
          MaxLaunches \* bound on the launches, which gives each its own pid

ASSUME NDisksAssumption == NDisks \in Nat \ {0}
ASSUME BoundsAssumption == MaxKills \in Nat /\ MaxLaunches \in Nat

VARIABLES pc,        \* next command of each instance
          disk,      \* the disk of its current pass
          pidfile,   \* /var/run/cargos-upgrade.pid exists
          mounts,    \* file systems stacked on /boot, the last one on top
          tmpdir,    \* instances whose ${_TMPDIR} exists
          kills, launches

vars == <<pc, disk, pidfile, mounts, tmpdir, kills, launches>>

\* Between WritePid and the trap: the part that must not run twice at once.
Critical == {"mount", "copy", "umount"}
Alive == {"test", "write", "trap"} \cup Critical
Labels == Alive \cup {"idle", "exited", "killed"}

Init ==
    /\ pc = [p \in Procs |-> "idle"]
    /\ disk = [p \in Procs |-> 1]
    /\ pidfile = FALSE
    /\ mounts = 0
    /\ tmpdir = {}
    /\ kills = 0 /\ launches = 0

\* The script starts: mktemp -d, then trap "bye_bye" 0 1 2 5 15.
Launch(p) ==
    /\ pc[p] \in {"idle", "exited", "killed"} /\ launches < MaxLaunches
    /\ pc' = [pc EXCEPT ![p] = "test"]
    /\ disk' = [disk EXCEPT ![p] = 1]
    /\ tmpdir' = tmpdir \cup {p}
    /\ launches' = launches + 1
    /\ UNCHANGED <<pidfile, mounts, kills>>

\* A refused instance exits with its trap reset.
TestPidNoTrap(p) ==
    /\ pc[p] = "test"
    /\ pc' = [pc EXCEPT ![p] = IF pidfile THEN "exited" ELSE "write"]
    /\ tmpdir' = IF pidfile THEN tmpdir \ {p} ELSE tmpdir
    /\ UNCHANGED <<disk, pidfile, mounts, kills, launches>>

\* if [ -f ${_PID} ]; then pr_error "... is already running": exit, so the trap
TestPid(p) ==
    /\ pc[p] = "test"
    /\ pc' = [pc EXCEPT ![p] = IF pidfile THEN "trap" ELSE "write"]
    /\ UNCHANGED <<disk, pidfile, mounts, tmpdir, kills, launches>>

\* echo $$ >${_PID}
WritePid(p) ==
    /\ pc[p] = "write"
    /\ pidfile' = TRUE
    /\ pc' = [pc EXCEPT ![p] = "mount"]
    /\ UNCHANGED <<disk, mounts, tmpdir, kills, launches>>

\* mount -t ext4 ${_disk}1 /boot, on top of whatever is there
Mount(p) ==
    /\ pc[p] = "mount"
    /\ mounts' = mounts + 1
    /\ pc' = [pc EXCEPT ![p] = "copy"]
    /\ UNCHANGED <<disk, pidfile, tmpdir, kills, launches>>

\* The cp commands of one pass; /boot is busy while p is at "copy".
Copy(p) ==
    /\ pc[p] = "copy"
    /\ pc' = [pc EXCEPT ![p] = "umount"]
    /\ UNCHANGED <<disk, pidfile, mounts, tmpdir, kills, launches>>

\* umount by p removes the top file system, unless another instance's cp has
\* a file open there; an empty or busy mount point is left as it is.
Unmounted(p) ==
    mounts' \in IF mounts = 0 THEN {0}
                ELSE IF \E q \in Procs \ {p} : pc[q] = "copy" THEN {mounts - 1, mounts}
                ELSE {mounts - 1}

\* umount /boot at the end of a pass; after the last one the script ends.
Umount(p) ==
    /\ pc[p] = "umount"
    /\ Unmounted(p)
    /\ \/ /\ disk[p] < NDisks
          /\ pc' = [pc EXCEPT ![p] = "mount"]
          /\ disk' = [disk EXCEPT ![p] = @ + 1]
       \/ /\ disk[p] = NDisks
          /\ pc' = [pc EXCEPT ![p] = "trap"]
          /\ UNCHANGED disk
    /\ UNCHANGED <<pidfile, tmpdir, kills, launches>>

\* A command fails (pr_error), the user declines, or a signal arrives.
Leave(p) ==
    /\ pc[p] \in Critical \cup {"test", "write"}
    /\ pc' = [pc EXCEPT ![p] = "trap"]
    /\ UNCHANGED <<disk, pidfile, mounts, tmpdir, kills, launches>>

\* The trap leaves the temporary directory.
ByeByeKeepsTmpDir(p) ==
    /\ pc[p] = "trap"
    /\ Unmounted(p)
    /\ pidfile' = FALSE
    /\ pc' = [pc EXCEPT ![p] = "exited"]
    /\ UNCHANGED <<disk, tmpdir, kills, launches>>

\* bye_bye: umount -f /boot; rm -rf ${_TMPDIR} ${_PID}
ByeBye(p) ==
    /\ pc[p] = "trap"
    /\ Unmounted(p)
    /\ pidfile' = FALSE
    /\ tmpdir' = tmpdir \ {p}
    /\ pc' = [pc EXCEPT ![p] = "exited"]
    /\ UNCHANGED <<disk, kills, launches>>

\* SIGKILL: nothing is cleaned up.
Kill(p) ==
    /\ pc[p] \in Alive /\ kills < MaxKills
    /\ pc' = [pc EXCEPT ![p] = "killed"]
    /\ kills' = kills + 1
    /\ UNCHANGED <<disk, pidfile, mounts, tmpdir, launches>>

Step(p) ==
    \/ TestPid(p) \/ WritePid(p) \/ Mount(p) \/ Copy(p) \/ Umount(p) \/ ByeBye(p)

Next == \E p \in Procs : Launch(p) \/ Step(p) \/ Leave(p) \/ Kill(p)

\* A running script goes on to its next command.
Spec == Init /\ [][Next]_vars /\ \A p \in Procs : WF_vars(Step(p))

------------------------------------------------------------------------------
TypeOK ==
    /\ pc \in [Procs -> Labels]
    /\ disk \in [Procs -> 1..NDisks]
    /\ pidfile \in BOOLEAN
    /\ mounts \in 0..(NDisks * MaxLaunches)
    /\ tmpdir \subseteq Procs
    /\ kills \in 0..MaxKills /\ launches \in 0..MaxLaunches

\* When no instance is left, and none was killed, the pid file and the
\* temporary directories are gone, however the instances got in each other's
\* way.  (The mount on /boot need not be: two overlapping instances stack
\* their mounts, and the trap of each removes one at most.)
NothingLeftBehind ==
    (\A p \in Procs : pc[p] \notin Alive) /\ kills = 0 => ~ pidfile /\ tmpdir = {}

\* A pid file does not stay for ever: after a SIGKILL the next launch, although
\* it is refused, makes later ones possible again.
PidFileGoesAway ==
    \A p \in Procs :
        pidfile /\ pc[p] = "test" ~> ~ pidfile \/ pc[p] = "killed"
==============================================================================
