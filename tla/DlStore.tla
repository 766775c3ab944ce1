------------------------------- MODULE DlStore -------------------------------
(***************************************************************************)
(* What the download wrapper promises about one file of BR2_DL_DIR: the    *)
(* file is absent, or it is a file somebody put there before (foreign), or *)
(* it is a complete, verified and accessible file; it goes from one of     *)
(* these to another in single steps and is never seen half written.        *)
(***************************************************************************)
CONSTANTS Accepted,   \* contents that pass check-hash
          NoFile      \* the file does not exist

VARIABLES out,        \* the file's content
          foreign     \* the content was there before any wrapper ran

storeVars == <<out, foreign>>

\* A file, if there is one, that no wrapper of ours put there.
StoreInit == foreign = (out # NoFile)

\* A verified download replaces whatever is there.
Publish == out' \in Accepted /\ foreign' = FALSE

\* A file that failed its check is removed.
Evict == out' = NoFile /\ foreign' = FALSE

StoreNext == Publish \/ Evict

StoreSpec == StoreInit /\ [][StoreNext]_storeVars
==============================================================================
