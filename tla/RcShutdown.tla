----------------------------- MODULE RcShutdown -----------------------------
(***************************************************************************)
(* Switching a CargOS machine on and off: rc.shutdown with its watchdog,   *)
(* and rc.d/random_seed, which every boot loads and every shutdown saves.  *)
(*                                                                         *)
(* The watchdog is a background shell that waits for sleep and then, in a  *)
(* shell of its own, kills the main shell; TERM stops the first of the two *)
(* only.  A script that is running when the main shell is killed goes on   *)
(* until init ends every process.  A file that has been written survives a *)
(* power loss.                                                             *)
(***************************************************************************)
EXTENDS Naturals, Sequences

CONSTANTS
    Scripts,    \* those with KEYWORD shutdown, in the order they are started
    MaxBoots,
    Nil

VARIABLES
    timeout,    \* rcshutdown_timeout is set
    pc,         \* "off", "load", "loading", "up", "stopping", "finish", "date",
                \* "halted", "killed"
    left,       \* the scripts rc.shutdown has still to stop
    hung,       \* the script that is being stopped does not come back
    watchdog,   \* "none", "sleeping", "expired"
    job,        \* what random_seed() does next
    seed,       \* /etc/random-seed
    used,       \* how often each seed has been loaded
    cut,        \* seeds that a power loss has left behind after they were loaded
    boots

vars == <<timeout, pc, left, hung, watchdog, job, seed, used, cut, boots>>

\* Seed number n is the one that boot n writes; 0 is one that somebody has put
\* there, and the file may belong to anyone.
Seeds == 0 .. 2 * MaxBoots
Empty == 2 * MaxBoots + 1
Gone == 2 * MaxBoots + 2
Absent == [seed |-> Gone, private |-> FALSE]
File(n, private) == [seed |-> n, private |-> private]

Init ==
    /\ timeout \in BOOLEAN /\ pc = "off" /\ left = <<>> /\ hung = FALSE /\ watchdog = "none" /\ job = Nil
    /\ seed \in {Absent, File(0, TRUE), File(0, FALSE)}
    /\ used = [n \in Seeds |-> 0] /\ cut = {} /\ boots = 0

Reversed(s) == [i \in 1 .. Len(s) |-> s[Len(s) + 1 - i]]

------------------------------------------------------------------------------
(* rc.d/random_seed *)

\* random_load: a file that is missing, or not for root only, is left alone;
\* any other, an empty one too, goes to the kernel and is replaced.
Load ==
    /\ pc = "load"
    /\ IF seed.private
       THEN /\ pc' = "loading" /\ job' = "append"
            /\ used' = IF seed.seed \in Seeds THEN [used EXCEPT ![seed.seed] = @ + 1] ELSE used
       ELSE pc' = "up" /\ UNCHANGED <<job, used>>
    /\ UNCHANGED <<timeout, left, hung, watchdog, seed, cut, boots>>

\* random_seed(): echo >>, rm -f, and dd, which makes the file before it fills it.
Fresh == 2 * boots - (IF pc = "loading" THEN 1 ELSE 0)
JobStepNoRemove ==
    /\ job # Nil
    /\ \/ job = "append" /\ job' = "create" /\ UNCHANGED seed
       \/ job = "create" /\ job' = "fill" /\ seed' = File(Empty, IF seed = Absent THEN TRUE ELSE seed.private)
       \/ job = "fill" /\ job' = "end" /\ seed' = [seed EXCEPT !.seed = Fresh]
    /\ UNCHANGED <<timeout, pc, left, hung, watchdog, used, cut, boots>>
JobStep ==
    /\ job # Nil
    /\ \/ job = "append" /\ job' = "remove"
          /\ seed' = IF seed = Absent THEN File(Empty, TRUE) ELSE seed
       \/ job = "remove" /\ job' = "create" /\ seed' = Absent
       \/ job = "create" /\ job' = "fill" /\ seed' = File(Empty, TRUE)
       \/ job = "fill" /\ job' = "end" /\ seed' = File(Fresh, TRUE)
    /\ UNCHANGED <<timeout, pc, left, hung, watchdog, used, cut, boots>>

\* The script ends, and with it the boot or its turn in the shutdown.
JobEnd ==
    /\ job = "end" /\ job' = Nil
    /\ IF pc = "loading" THEN pc' = "up" ELSE UNCHANGED pc
    /\ left' = IF pc = "stopping" THEN Tail(left) ELSE left
    /\ UNCHANGED <<timeout, hung, watchdog, seed, used, cut, boots>>

------------------------------------------------------------------------------
(* rc.shutdown *)

\* The watchdog is started if there is a time for it.
BeginShutdown ==
    /\ pc = "up" /\ pc' = "stopping"
    /\ left' = Reversed(Scripts)
    /\ watchdog' = IF timeout THEN "sleeping" ELSE "none"
    /\ UNCHANGED <<timeout, hung, job, seed, used, cut, boots>>

\* run_rc_script stop: it ends, or it does not.
StopScript ==
    /\ pc = "stopping" /\ left # <<>> /\ job = Nil /\ ~hung
    /\ IF Head(left) = "random_seed"
       THEN job' = "append" /\ UNCHANGED <<left, hung>>
       ELSE /\ \/ left' = Tail(left) /\ UNCHANGED hung
               \/ hung' = TRUE /\ UNCHANGED left
            /\ UNCHANGED job
    /\ UNCHANGED <<timeout, pc, watchdog, seed, used, cut, boots>>

\* kill -TERM: it stops the shell that waits for sleep, not the one that has
\* begun to kill.
Finish ==
    /\ pc = "stopping" /\ left = <<>> /\ pc' = "date"
    /\ watchdog' = IF watchdog = "sleeping" THEN "none" ELSE watchdog
    /\ UNCHANGED <<timeout, left, hung, job, seed, used, cut, boots>>

Halt ==
    /\ pc = "date" /\ pc' = "halted"
    /\ UNCHANGED <<timeout, left, hung, watchdog, job, seed, used, cut, boots>>

\* sleep returns: the message.
Expire ==
    /\ watchdog = "sleeping" /\ watchdog' = "expired"
    /\ UNCHANGED <<timeout, pc, left, hung, job, seed, used, cut, boots>>

\* The shell kills itself, not rc.shutdown.
FireItself ==
    /\ watchdog = "expired" /\ watchdog' = "none"
    /\ UNCHANGED <<timeout, pc, left, hung, job, seed, used, cut, boots>>
\* kill -KILL $$, which is the main shell if there still is one.
Fire ==
    /\ watchdog = "expired" /\ watchdog' = "none"
    /\ pc' = IF pc \in {"stopping", "date"} THEN "killed" ELSE pc
    /\ UNCHANGED <<timeout, left, hung, job, seed, used, cut, boots>>

------------------------------------------------------------------------------
(* The machine *)

Off ==
    /\ pc' = "off" /\ left' = <<>> /\ hung' = FALSE /\ watchdog' = "none" /\ job' = Nil
    /\ UNCHANGED <<timeout, seed, used, boots>>

PowerOn ==
    /\ pc = "off" /\ boots < MaxBoots /\ boots' = boots + 1
    /\ pc' = "load"
    /\ UNCHANGED <<timeout, left, hung, watchdog, job, seed, used, cut>>

\* init ends every process when rc.shutdown has ended.
TurnOff == pc \in {"halted", "killed"} /\ Off /\ UNCHANGED cut

PowerLoss ==
    /\ pc # "off" /\ Off
    /\ cut' = IF pc = "loading" /\ job \in {"append", "remove"} THEN cut \cup {seed.seed} ELSE cut

Next ==
    \/ Load \/ JobStep \/ JobEnd \/ BeginShutdown \/ StopScript \/ Finish \/ Halt
    \/ Expire \/ Fire \/ PowerOn \/ TurnOff \/ PowerLoss

\* Every process that can run does; a script that hangs has no step to take.
Fairness ==
    /\ WF_vars(JobStep) /\ WF_vars(JobEnd) /\ WF_vars(StopScript) /\ WF_vars(Finish)
    /\ WF_vars(Halt) /\ WF_vars(Expire) /\ WF_vars(Fire)
Spec == Init /\ [][Next]_vars /\ Fairness

------------------------------------------------------------------------------
(* Properties *)

\* With a timeout every shutdown comes to its end, whichever script hangs.
ShutdownEnds == (timeout /\ pc = "stopping") ~> pc \in {"halted", "killed", "off"}

\* A seed goes into the kernel once, unless the power fails after it was loaded
\* and before it was removed.
SeedIsUsedOnce == \A n \in Seeds : used[n] > 1 => n \in cut

\* A shutdown that has come to its end has left a new seed for root only,
\* whatever the file was before, with or without the watchdog.
ShutdownLeavesSeed ==
    pc = "halted" => /\ seed.private /\ seed.seed \in Seeds
                     /\ used[seed.seed] = 0

\* Both, for the life of the seed file. (rc.d/random_seed:25-85)
SeedIsSound == SeedIsUsedOnce /\ ShutdownLeavesSeed
=============================================================================
