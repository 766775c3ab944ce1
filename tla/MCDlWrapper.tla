----------------------------- MODULE MCDlWrapper -----------------------------
(***************************************************************************)
(* Small instances of DlWrapper: two builds, two locations, one good and   *)
(* one damaged content.                                                    *)
(***************************************************************************)
EXTENDS DlWrapper, TLC

CONSTANTS good, bad, p1, p2

\* A .hash file with one sha256 line for the file and a line for another one.
MCHashes == [exists |-> TRUE, exempt |-> FALSE,
             lines |-> <<[type |-> "sha256", known |-> bad, name |-> "other"],
                         [type |-> "sha256", known |-> good, name |-> "pkg"]>>]

MCHashFile == [s \in Sites |-> MCHashes]

\* Somebody left a file of any kind in BR2_DL_DIR.
AnyOut == {NoFile, good, bad}

MCSymmetry == Permutations(Procs)
==============================================================================
