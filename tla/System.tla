------------------------------- MODULE System -------------------------------
(***************************************************************************)
(* Five programs that share nothing, in one instance: every behaviour is   *)
(* one of a single component, the others stay in an initial state.         *)
(***************************************************************************)
EXTENDS PersistentStorage

CONSTANTS
    BootScripts, Leaving, MaxTexts, MaxFailures, Capacity,  \* of RcPipe
    StopScripts, MaxStarts,                                 \* of RcShutdown
    Patches, MaxStops,                                      \* of BuildSteps
    Contents, Names, Types, MaxLines, Base,                 \* of CheckHashLoop
    Nil

\* A daemon is left by a script; Nil is no exit status.
ASSUME PipeAssumption ==
    /\ BootScripts \in Seq(STRING)
    /\ Leaving \subseteq {BootScripts[i] : i \in DOMAIN BootScripts}
    /\ Nil \notin {0, 1}

\* rc.d/random_seed has the keyword shutdown, and Nil is none of its commands.
ASSUME SwitchAssumption ==
    /\ MaxStarts \in Nat
    /\ StopScripts \in Seq(STRING)
    /\ \E i \in DOMAIN StopScripts : StopScripts[i] = "random_seed"
    /\ Nil \notin {"append", "remove", "create", "fill", "end"}

\* No two patches of a package have the same file name.
ASSUME PatchesAssumption ==
    /\ Patches \in Seq(STRING)
    /\ \A k, l \in DOMAIN Patches : k # l => Patches[k] # Patches[l]

VARIABLES
    component,
    \* etc/rc
    p_pc, p_at, pipe, holders, sent, failed, killed, partial, log, failures, p_status,
    \* etc/rc.shutdown and rc.d/random_seed
    timeout, s_pc, left, hung, watchdog, job, seed, used, cut, s_boots,
    \* pkg-generic.mk and apply-patches.sh
    stamps, older, stale, times, listed, rms, b_at, patch, result, disturbed, b_faults,
    \* check-hash
    h, content, pos, nb_checks, c_status

Pipe == INSTANCE RcPipe WITH Scripts <- BootScripts, pc <- p_pc, at <- p_at, status <- p_status
Switch == INSTANCE RcShutdown WITH
    Scripts <- StopScripts, MaxBoots <- MaxStarts, pc <- s_pc, boots <- s_boots
Build == INSTANCE BuildSteps WITH MaxFaults <- MaxStops, at <- b_at, faults <- b_faults
Hash == INSTANCE CheckHashLoop WITH NoFile <- Nil, status <- c_status

storageVars == vars
pipeVars == <<p_pc, p_at, pipe, holders, sent, failed, killed, partial, log, failures, p_status>>
switchVars == <<timeout, s_pc, left, hung, watchdog, job, seed, used, cut, s_boots>>
buildVars == <<stamps, older, stale, times, listed, rms, b_at, patch, result, disturbed, b_faults>>
hashVars == <<h, content, pos, nb_checks, c_status>>
allVars == <<component, storageVars, pipeVars, switchVars, buildVars, hashVars>>

SwitchIdle ==
    /\ timeout = FALSE /\ s_pc = "off" /\ left = <<>> /\ hung = FALSE /\ watchdog = "none"
    /\ job = Nil /\ seed = Switch!Absent /\ used = [n \in Switch!Seeds |-> 0] /\ cut = {}
    /\ s_boots = 0
HashIdle ==
    /\ h = [exists |-> FALSE, exempt |-> FALSE, lines |-> <<>>]
    /\ content = Nil /\ pos = 0 /\ nb_checks = 0 /\ c_status = Hash!Running

SystemInit ==
    /\ component \in {"storage", "pipe", "switch", "build", "hash"}
    /\ Init /\ Pipe!Init /\ Build!Init
    /\ IF component = "switch" THEN Switch!Init ELSE SwitchIdle
    /\ IF component = "hash" THEN Hash!Init ELSE HashIdle

StorageNext == Next /\ UNCHANGED <<pipeVars, switchVars, buildVars, hashVars>>
PipeNext == Pipe!Next /\ UNCHANGED <<storageVars, switchVars, buildVars, hashVars>>
SwitchNext == Switch!Next /\ UNCHANGED <<storageVars, pipeVars, buildVars, hashVars>>
BuildNext == Build!Next /\ UNCHANGED <<storageVars, pipeVars, switchVars, hashVars>>
HashNext == Hash!Next /\ UNCHANGED <<storageVars, pipeVars, switchVars, buildVars>>

SystemNext ==
    /\ UNCHANGED component
    /\ \/ component = "storage" /\ StorageNext
       \/ component = "pipe" /\ PipeNext
       \/ component = "switch" /\ SwitchNext
       \/ component = "build" /\ BuildNext
       \/ component = "hash" /\ HashNext

SystemSpec ==
    /\ SystemInit /\ [][SystemNext]_allVars
    /\ component = "pipe" => Pipe!Fairness
    /\ component = "switch" => Switch!Fairness

\* The properties of the components under names of their own.
BootIsReported == Pipe!BootIsReported
BootGoesOn == component = "pipe" => Pipe!BootGoesOn
ShutdownEnds == component = "switch" => Switch!ShutdownEnds
SeedIsSound == Switch!SeedIsSound
BuildIsSound == Build!BuildIsSound
VerdictIsEarned == Hash!VerdictIsEarned
=============================================================================
