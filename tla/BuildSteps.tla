----------------------------- MODULE BuildSteps -----------------------------
(***************************************************************************)
(* The steps that build a package (package/pkg-generic.mk) and the script  *)
(* that applies its patches (support/scripts/apply-patches.sh), with       *)
(* commands that fail, a make that is killed anywhere, and the targets     *)
(* <pkg>, <pkg>-reinstall, -rebuild, -reconfigure and -dirclean.           *)
(*                                                                         *)
(* make runs a step when its stamp file is missing or older than the stamp *)
(* of the step before it, which is all it asks of the times of the files.  *)
(* patch(1) is external: given a patch that has been applied before, even  *)
(* in part, it may fail or apply it again.                                 *)
(***************************************************************************)
EXTENDS Naturals, Sequences

CONSTANTS Patches, MaxFaults

VARIABLES
    stamps,     \* the steps with a stamp file in BUILD_DIR
    older,      \* those whose stamp is older than that of the step before
    stale,      \* steps whose results were not made from those of the step before
    times,      \* how often each patch is in the sources
    listed,     \* .applied_patches_list
    rms,        \* stamp files that make has still to remove
    at,         \* the step that runs, 0 between two steps
    patch,      \* the next patch, and whether it has been listed
    result,     \* of make: "none" while it runs, "done", "failed", or "clean"
    disturbed,  \* a fault since the directory was empty
    faults

vars == <<stamps, older, stale, times, listed, rms, at, patch, result, disturbed, faults>>

Steps == <<"downloaded", "extracted", "patched", "configured", "built", "installed">>
Number(step) == CHOOSE i \in DOMAIN Steps : Steps[i] = step
PatchSet == {Patches[i] : i \in DOMAIN Patches}

\* touch makes the stamp the newest of all.
Touch(i) ==
    /\ stamps' = stamps \cup {i}
    /\ older' = (older \ {i}) \cup ({i + 1} \cap stamps)

Init ==
    /\ stamps = {} /\ older = {} /\ stale = DOMAIN Steps
    /\ times = [p \in PatchSet |-> 0] /\ listed = {}
    /\ rms = <<>> /\ at = 0 /\ patch = [next |-> 1, listed |-> FALSE]
    /\ result = "clean" /\ disturbed = FALSE /\ faults = 0

------------------------------------------------------------------------------
(* make *)

\* The stamps that the clean-for targets remove, in their order.
CleanFor(target) ==
    CASE target = "all" -> <<>>
      [] target = "reinstall" -> <<"installed">>
      [] target = "rebuild" -> <<"installed", "built">>
      [] target = "reconfigure" -> <<"installed", "built", "configured">>

Make ==
    /\ result # "none" /\ result' = "none"
    /\ \E target \in {"all", "reinstall", "rebuild", "reconfigure"} :
           rms' = [k \in DOMAIN CleanFor(target) |-> Number(CleanFor(target)[k])]
    /\ UNCHANGED <<stamps, older, stale, times, listed, at, patch, disturbed, faults>>

\* The directory goes, with everything in it.
DirClean ==
    /\ result # "none"
    /\ stamps' = {} /\ older' = {} /\ stale' = DOMAIN Steps
    /\ times' = [p \in PatchSet |-> 0] /\ listed' = {} /\ disturbed' = FALSE /\ result' = "clean"
    /\ UNCHANGED <<rms, at, patch, faults>>

RemoveStamp ==
    /\ result = "none" /\ rms # <<>>
    /\ stamps' = stamps \ {Head(rms)} /\ older' = older \ {Head(rms), Head(rms) + 1}
    /\ rms' = Tail(rms)
    /\ UNCHANGED <<stale, times, listed, at, patch, result, disturbed, faults>>

Outdated(i) == i \notin stamps \/ i \in older

TouchFirst(i) ==
    /\ \A j \in 1 .. i - 1 : ~Outdated(j)
    /\ Outdated(i)
    /\ at' = i /\ stale' = stale \cup i .. Len(Steps)
    /\ Touch(i)
    /\ patch' = [next |-> 1, listed |-> FALSE]
    /\ UNCHANGED <<times, listed, rms, result, disturbed, faults>>
\* The first step that is out of date; its results change from now on.
StartStep(i) ==
    /\ \A j \in 1 .. i - 1 : ~Outdated(j)
    /\ Outdated(i)
    /\ at' = i /\ stale' = stale \cup i .. Len(Steps)
    /\ patch' = [next |-> 1, listed |-> FALSE]
    /\ UNCHANGED <<stamps, older, times, listed, rms, result, disturbed, faults>>
Idle == result = "none" /\ rms = <<>> /\ at = 0

\* The commands of a step succeed and its stamp is touched; extracting brings
\* the sources back as they are in the archive.
EndStep ==
    /\ result = "none" /\ at # 0
    /\ Steps[at] = "patched" => patch.next > Len(Patches)
    /\ Touch(at)
    /\ stale' = stale \ {at} /\ at' = 0
    /\ times' = IF Steps[at] = "extracted" THEN [p \in PatchSet |-> 0] ELSE times
    /\ UNCHANGED <<listed, rms, patch, result, disturbed, faults>>

\* Nothing is out of date.
MakeEnds ==
    /\ Idle /\ \A i \in DOMAIN Steps : ~Outdated(i)
    /\ result' = "done"
    /\ UNCHANGED <<stamps, older, stale, times, listed, rms, at, patch, disturbed, faults>>

Stop == result' = "failed" /\ at' = 0 /\ rms' = <<>>

\* A command of a step fails, or make is killed.
Fault ==
    /\ result = "none" /\ faults < MaxFaults
    /\ faults' = faults + 1 /\ disturbed' = TRUE
    /\ Stop
    /\ UNCHANGED <<stamps, older, stale, times, listed, patch>>

------------------------------------------------------------------------------
(* apply_patch *)

Patching == result = "none" /\ at # 0 /\ Steps[at] = "patched" /\ patch.next <= Len(Patches)

\* A name that is in the list already ends the script; any other is listed.
ListPatch ==
    /\ Patching /\ ~patch.listed
    /\ IF Patches[patch.next] \in listed
       THEN Stop /\ UNCHANGED <<listed, patch>>
       ELSE /\ listed' = listed \cup {Patches[patch.next]}
            /\ patch' = [patch EXCEPT !.listed = TRUE]
            /\ UNCHANGED <<rms, at, result>>
    /\ UNCHANGED <<stamps, older, stale, times, disturbed, faults>>

\* patch -N; it may be cut short with part of the patch in the sources.
ApplyPatch ==
    LET p == Patches[patch.next] IN
    /\ Patching /\ patch.listed
    /\ \/ /\ times' = [times EXCEPT ![p] = IF @ < 2 THEN @ + 1 ELSE @]
          /\ patch' = [next |-> patch.next + 1, listed |-> FALSE]
          /\ UNCHANGED <<rms, at, result, disturbed, faults>>
       \/ /\ faults < MaxFaults /\ faults' = faults + 1 /\ disturbed' = TRUE
          /\ times' \in {times, [times EXCEPT ![p] = IF @ < 2 THEN @ + 1 ELSE @]}
          /\ Stop /\ UNCHANGED patch
       \/ times[p] > 0 /\ Stop /\ UNCHANGED <<times, patch, disturbed, faults>>
    /\ UNCHANGED <<stamps, older, stale, listed>>

Next ==
    \/ Make \/ DirClean \/ RemoveStamp \/ (Idle /\ \E i \in DOMAIN Steps : StartStep(i))
    \/ EndStep \/ MakeEnds \/ Fault \/ ListPatch \/ ApplyPatch
Spec == Init /\ [][Next]_vars

------------------------------------------------------------------------------
(* Properties *)

\* When make has succeeded, the results of every step were made from the
\* present results of the step before, whatever was interrupted and removed on
\* the way. (the chain of stamps, pkg-generic.mk:127-310)
DoneIsCurrent == result = "done" => stale = {}

\* Sources that count as patched have every patch once, however often make was
\* stopped and started again. (apply-patches.sh:106-119)
PatchedOnce == Number("patched") \in stamps => \A p \in PatchSet : times[p] = 1

\* Nothing but a fault makes a build fail, until <pkg>-dirclean empties the
\* directory: the targets that start again in the middle never apply a patch to
\* patched sources.
OnlyFaultsFail == ~disturbed => result # "failed"

\* What make has done is what its stamps say.
BuildIsSound == DoneIsCurrent /\ PatchedOnce /\ OnlyFaultsFail
=============================================================================
