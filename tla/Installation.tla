----------------------------- MODULE Installation -----------------------------
(***************************************************************************)
(* What a machine may rely on: only a setup that is running installs       *)
(* anything, and what has been installed is lost only by a setup that      *)
(* follows one which was stopped after it had cut a disk off.              *)
(***************************************************************************)
EXTENDS Naturals

VARIABLES status,     \* how much is there, see Stages
          running,    \* a setup is running
          cut         \* a disk of what is installed cannot be read

ivars == <<status, running, cut>>

\* Nothing; volumes; file systems; all that a booted machine uses.
Stages == 0..3

Init == status = 0 /\ running = FALSE /\ cut = FALSE
Begin == ~ running /\ running' = TRUE /\ UNCHANGED <<status, cut>>
\* The setup gets on, and may end.
Advance ==
    /\ running /\ status' \in Stages /\ status' >= status
    /\ running' \in BOOLEAN /\ cut' \in BOOLEAN
\* It makes a new installation in place of the one that cannot be read.
Replace == running /\ cut /\ status' = 0 /\ cut' = FALSE /\ running' \in BOOLEAN

Next == Begin \/ Advance \/ Replace
Spec == Init /\ [][Next]_ivars
==============================================================================
