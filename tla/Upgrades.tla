------------------------------- MODULE Upgrades ------------------------------
(***************************************************************************)
(* Two views of cargos-upgrade in one instance: several instances of it    *)
(* and their pid file (UpgradeLock), or what one after the other does to   *)
(* the disks (CargosUpgrade).  Every behaviour is one of a single view.    *)
(***************************************************************************)
EXTENDS UpgradeLock

CONSTANTS NVersions, MaxRuns, MaxFaults, Worlds

\* rc.bootstrap has installed a release; the bounds are of the model.
ASSUME VersionsAssumption == NVersions \in Nat \ {0}
ASSUME RunsAssumption == MaxRuns \in Nat /\ MaxFaults \in Nat

VARIABLES view, world, disks, menu, boot, dirty, cver, remote, rver, force, tmpmenu, u_pc, cur, todo,
          silent, faults, runs

Upgrade == INSTANCE CargosUpgrade WITH disk <- disks, pc <- u_pc

lockVars == vars
diskVars ==
    <<world, disks, menu, boot, dirty, cver, remote, rver, force, tmpmenu, u_pc, cur, todo, silent,
      faults, runs>>
allVars == <<view, lockVars, diskVars>>

DisksIdle ==
    /\ world = "durable" /\ disks = <<>> /\ menu = <<>> /\ boot = 0
    /\ dirty = {} /\ cver = 1 /\ remote = 1 /\ rver = 0 /\ force = FALSE /\ tmpmenu = FALSE
    /\ u_pc = "asleep" /\ cur = 1 /\ todo = <<>> /\ silent = FALSE /\ faults = 0 /\ runs = 0

UpgradeInit ==
    /\ view \in {"lock", "disks"}
    /\ Init
    /\ IF view = "disks" THEN Upgrade!Init ELSE DisksIdle

UpgradeNext ==
    /\ UNCHANGED view
    /\ \/ view = "lock" /\ Next /\ UNCHANGED diskVars
       \/ view = "disks" /\ Upgrade!Next /\ UNCHANGED lockVars

\* A running script goes on to its next command.
UpgradeSpec ==
    /\ UpgradeInit /\ [][UpgradeNext]_allVars
    /\ view = "lock" => \A p \in Procs : WF_vars(Step(p))

\* The properties of CargosUpgrade under names of their own.
SomeDiskBoots == view = "disks" => Upgrade!SomeDiskBoots
DoneMeansUpgraded == view = "disks" => Upgrade!DoneMeansUpgraded
MenuEntryBoots == view = "disks" => Upgrade!MenuEntryBoots
==============================================================================
