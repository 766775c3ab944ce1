--------------------------- MODULE DlWrapper_proofs ---------------------------
(***************************************************************************)
(* For any number of builds, any number of locations and any .hash file:   *)
(* the wrapper's type invariant, the soundness of what it publishes, that  *)
(* it implements the abstract store, and when a downloaded file stays.     *)
(***************************************************************************)
EXTENDS DlWrapper, TLAPS

\* The inductive invariant: PublishedIsSound says nothing of what is under
\* way, so it needs StagedIsVerified, which is what mv relies on.
IInv == TypeOK /\ StagedIsVerified /\ PublishedIsSound

\* Content that passes the check of some location is accepted content.
LEMMA StatusAccepts ==
    ASSUME NEW s \in Sites, NEW c \in Contents, Status(s, c) = 0
    PROVE  c \in Accepted
BY DEF Accepted

\* A fresh set of builds satisfies the invariant whatever file is there.
LEMMA InitIInv == Init => IInv
<1> SUFFICES ASSUME Init PROVE IInv
    OBVIOUS
<1> USE DEF Init
<1>1. TypeOK
  <2>1. foreign \in BOOLEAN
      BY Zenon
  <2>2. site \in [Procs -> Sites]
      BY NSitesAssumption DEF Sites
  <2> QED
      BY <2>1, <2>2, MaxRunsAssumption, InitialOutAssumption
      DEF TypeOK, Labels, Running
<1>2. StagedIsVerified
    BY DEF StagedIsVerified
<1>3. PublishedIsSound
    BY Zenon DEF PublishedIsSound
<1> QED
    BY <1>1, <1>2, <1>3 DEF IInv

\* Every command of a run keeps the variables in their types; for mv that is
\* because the copy it renames is complete.
LEMMA TypePreserved == TypeOK /\ StagedIsVerified /\ [Next]_vars => TypeOK'
<1> SUFFICES ASSUME TypeOK, StagedIsVerified, [Next]_vars PROVE TypeOK'
    OBVIOUS
<1> USE DEF TypeOK, Goto, Labels, Running
<1>0. CASE UNCHANGED vars
    BY <1>0 DEF vars
<1>1. ASSUME NEW p \in Procs, Start(p) PROVE TypeOK'
    BY <1>1, NSitesAssumption, MaxRunsAssumption DEF Start, Sites
<1>2. ASSUME NEW p \in Procs, TestOutput(p) PROVE TypeOK'
    BY <1>2 DEF TestOutput
<1>3. ASSUME NEW p \in Procs, CheckOutput(p) PROVE TypeOK'
    BY <1>3 DEF CheckOutput
<1>4. ASSUME NEW p \in Procs, EvictOutput(p) PROVE TypeOK'
    BY <1>4 DEF EvictOutput
<1>5. ASSUME NEW p \in Procs, MkTmpDir(p) PROVE TypeOK'
    BY <1>5 DEF MkTmpDir, Abort
<1>6. ASSUME NEW p \in Procs, Fetch(p) PROVE TypeOK'
    BY <1>6 DEF Fetch
<1>7. ASSUME NEW p \in Procs, Verify(p) PROVE TypeOK'
    BY <1>7 DEF Verify
<1>8. ASSUME NEW p \in Procs, MkTmpOutput(p) PROVE TypeOK'
    BY <1>8 DEF MkTmpOutput, Abort
<1>9. ASSUME NEW p \in Procs, ChmodTmpOutput(p) PROVE TypeOK'
    BY <1>9 DEF ChmodTmpOutput, Abort
<1>10. ASSUME NEW p \in Procs, CatToTmpOutput(p) PROVE TypeOK'
    BY <1>10 DEF CatToTmpOutput
<1>11. ASSUME NEW p \in Procs, RmTmpDir(p) PROVE TypeOK'
    BY <1>11 DEF RmTmpDir
<1>12. ASSUME NEW p \in Procs, MvToOutput(p) PROVE TypeOK'
    BY <1>12 DEF MvToOutput, StagedIsVerified, Accepted
<1>13. ASSUME NEW p \in Procs, NextSite(p) PROVE TypeOK'
    BY <1>13, NSitesAssumption DEF NextSite, Sites
<1>14. ASSUME NEW p \in Procs, Kill(p) PROVE TypeOK'
    BY <1>14 DEF Kill
<1> QED
    BY <1>0, <1>1, <1>2, <1>3, <1>4, <1>5, <1>6, <1>7, <1>8, <1>9, <1>10,
       <1>11, <1>12, <1>13, <1>14 DEF Next, Step

\* Every command keeps what is staged verified: the copy is made from a file
\* that has passed its check, and no other process touches either.
LEMMA StagedPreserved ==
    TypeOK /\ StagedIsVerified /\ [Next]_vars => StagedIsVerified'
<1> SUFFICES ASSUME TypeOK, StagedIsVerified, [Next]_vars PROVE StagedIsVerified'
    OBVIOUS
<1> USE DEF TypeOK, StagedIsVerified, Goto
<1>0. CASE UNCHANGED vars
    BY <1>0 DEF vars
<1>1. ASSUME NEW p \in Procs, Start(p) PROVE StagedIsVerified'
    BY <1>1 DEF Start
<1>2. ASSUME NEW p \in Procs, TestOutput(p) PROVE StagedIsVerified'
    BY <1>2 DEF TestOutput
<1>3. ASSUME NEW p \in Procs, CheckOutput(p) PROVE StagedIsVerified'
    BY <1>3 DEF CheckOutput
<1>4. ASSUME NEW p \in Procs, EvictOutput(p) PROVE StagedIsVerified'
    BY <1>4 DEF EvictOutput
<1>5. ASSUME NEW p \in Procs, MkTmpDir(p) PROVE StagedIsVerified'
    BY <1>5 DEF MkTmpDir, Abort
<1>6. ASSUME NEW p \in Procs, Fetch(p) PROVE StagedIsVerified'
    BY <1>6 DEF Fetch
<1>7. ASSUME NEW p \in Procs, Verify(p) PROVE StagedIsVerified'
    BY <1>7, StatusAccepts DEF Verify
<1>8. ASSUME NEW p \in Procs, MkTmpOutput(p) PROVE StagedIsVerified'
    BY <1>8 DEF MkTmpOutput, Abort
<1>9. ASSUME NEW p \in Procs, ChmodTmpOutput(p) PROVE StagedIsVerified'
    BY <1>9 DEF ChmodTmpOutput, Abort
<1>10. ASSUME NEW p \in Procs, CatToTmpOutput(p) PROVE StagedIsVerified'
    BY <1>10 DEF CatToTmpOutput
<1>11. ASSUME NEW p \in Procs, RmTmpDir(p) PROVE StagedIsVerified'
    BY <1>11 DEF RmTmpDir
<1>12. ASSUME NEW p \in Procs, MvToOutput(p) PROVE StagedIsVerified'
    BY <1>12 DEF MvToOutput
<1>13. ASSUME NEW p \in Procs, NextSite(p) PROVE StagedIsVerified'
    BY <1>13 DEF NextSite
<1>14. ASSUME NEW p \in Procs, Kill(p) PROVE StagedIsVerified'
    BY <1>14 DEF Kill
<1> QED
    BY <1>0, <1>1, <1>2, <1>3, <1>4, <1>5, <1>6, <1>7, <1>8, <1>9, <1>10,
       <1>11, <1>12, <1>13, <1>14 DEF Next, Step

\* The shared file changes only when it is removed, or when a verified copy is
\* renamed over it: every step is a step of the abstract store.
LEMMA StoreStep ==
    StagedIsVerified /\ [Next]_vars => [Store!StoreNext]_(Store!storeVars)
<1> SUFFICES ASSUME StagedIsVerified, [Next]_vars
             PROVE  [Store!StoreNext]_(Store!storeVars)
    OBVIOUS
<1> USE DEF Store!storeVars, Goto
<1>0. CASE UNCHANGED vars
    BY <1>0 DEF vars
<1>1. ASSUME NEW p \in Procs, EvictOutput(p) PROVE Store!Evict
    BY <1>1 DEF EvictOutput, Store!Evict
<1>2. ASSUME NEW p \in Procs, MvToOutput(p)
      PROVE  Store!Publish \/ UNCHANGED Store!storeVars
    BY <1>2 DEF MvToOutput, StagedIsVerified, Store!Publish
<1>3. ASSUME NEW p \in Procs,
             \/ Start(p) \/ TestOutput(p) \/ CheckOutput(p) \/ MkTmpDir(p)
             \/ Fetch(p) \/ Verify(p) \/ MkTmpOutput(p) \/ ChmodTmpOutput(p)
             \/ CatToTmpOutput(p) \/ RmTmpDir(p) \/ NextSite(p) \/ Kill(p)
      PROVE  UNCHANGED Store!storeVars
    BY <1>3 DEF Start, TestOutput, CheckOutput, MkTmpDir, Fetch, Verify,
                MkTmpOutput, ChmodTmpOutput, CatToTmpOutput, RmTmpDir, NextSite,
                Kill, Abort
<1> QED
    BY <1>0, <1>1, <1>2, <1>3 DEF Next, Step, Store!StoreNext

\* The published file stays sound: removing it is harmless, and mv publishes
\* a verified copy that has its final mode.
LEMMA PublishedPreserved == IInv /\ [Next]_vars => PublishedIsSound'
<1> SUFFICES ASSUME IInv, [Next]_vars PROVE PublishedIsSound'
    OBVIOUS
<1> USE DEF IInv, PublishedIsSound, Goto
<1>0. CASE UNCHANGED vars
    BY <1>0 DEF vars
<1>1. ASSUME NEW p \in Procs, EvictOutput(p) PROVE PublishedIsSound'
    BY <1>1 DEF EvictOutput
<1>2. ASSUME NEW p \in Procs, MvToOutput(p) PROVE PublishedIsSound'
    BY <1>2 DEF MvToOutput, StagedIsVerified
<1>3. ASSUME NEW p \in Procs,
             \/ Start(p) \/ TestOutput(p) \/ CheckOutput(p) \/ MkTmpDir(p)
             \/ Fetch(p) \/ Verify(p) \/ MkTmpOutput(p) \/ ChmodTmpOutput(p)
             \/ CatToTmpOutput(p) \/ RmTmpDir(p) \/ NextSite(p) \/ Kill(p)
      PROVE  PublishedIsSound'
    BY <1>3 DEF Start, TestOutput, CheckOutput, MkTmpDir, Fetch, Verify,
                MkTmpOutput, ChmodTmpOutput, CatToTmpOutput, RmTmpDir, NextSite,
                Kill, Abort
<1> QED
    BY <1>0, <1>1, <1>2, <1>3 DEF Next, Step

\* The invariant holds in every reachable state.
LEMMA Invariance == Spec => []IInv
<1>1. IInv /\ [Next]_vars => IInv'
    BY TypePreserved, StagedPreserved, PublishedPreserved DEF IInv
<1> QED
    BY InitIInv, <1>1, PTL DEF Spec

\* dl-wrapper keeps its variables in their types, for any number of builds and
\* locations: in particular DOWNLOAD_INNER never runs past its last location.
THEOREM TypeCorrect == Spec => []TypeOK
BY Invariance, PTL DEF IInv

\* dl-wrapper copies and renames verified content only, whoever is interrupted
\* where and however the commands of the other builds interleave.
THEOREM StagedCorrect == Spec => []StagedIsVerified
BY Invariance, PTL DEF IInv

\* A file a wrapper leaves in BR2_DL_DIR is complete, verified and readable.
THEOREM PublishedCorrect == Spec => []PublishedIsSound
BY Invariance, PTL DEF IInv

\* dl-wrapper implements the abstract store of DlStore: the file in BR2_DL_DIR
\* is replaced and removed in single steps and never seen half written.
THEOREM Refinement == Spec => ImplementsStore
<1>1. Init => Store!StoreInit
    BY DEF Init, Store!StoreInit
<1>2. IInv /\ [Next]_vars => [Store!StoreNext]_(Store!storeVars)
    BY StoreStep DEF IInv
<1> QED
    BY <1>1, <1>2, Invariance, PTL DEF Spec, ImplementsStore, Store!StoreSpec

------------------------------------------------------------------------------
(***************************************************************************)
(* A file that is there stays when nobody has a reason to remove it: no    *)
(* damaged one was there at first, and no location rejects what another    *)
(* one has let through.  DOWNLOAD_WGET, DOWNLOAD_SCP and                   *)
(* DOWNLOAD_LOCALFILES hand every location the same .hash file, so for     *)
(* them the latter is so (OneHashFileAgrees).                              *)
(***************************************************************************)
OneHashFile == \A s, t \in Sites : HashFile[s] = HashFile[t]
LocationsAgree == \A s \in Sites, c \in Accepted : Status(s, c) # 2

LEMMA OneHashFileAgrees == OneHashFile => LocationsAgree
<1> SUFFICES ASSUME OneHashFile, NEW s \in Sites, NEW c \in Accepted PROVE Status(s, c) # 2
    BY DEF LocationsAgree
<1>1. PICK t \in Sites : Status(t, c) = 0
    BY DEF Accepted
<1>2. Status(s, c) = Status(t, c)
    BY DEF OneHashFile, Status
<1> QED
    BY <1>1, <1>2

\* A file that somebody relies on, or is about to check, is one that will pass;
\* so nobody is about to remove one.
NobodyEvicts ==
    /\ out \in Accepted \cup {NoFile}
    /\ \A p \in Procs : /\ pc[p] \in {"check", "ok"} => out \in Accepted
                       /\ pc[p] # "evict"

LEMMA NobodyEvictsStays ==
    LocationsAgree /\ TypeOK /\ StagedIsVerified /\ NobodyEvicts /\ [Next]_vars => NobodyEvicts'
<1> SUFFICES ASSUME LocationsAgree, TypeOK, StagedIsVerified, NobodyEvicts, [Next]_vars
             PROVE  NobodyEvicts'
    OBVIOUS
<1> USE DEF TypeOK, NobodyEvicts, Goto
<1>0. CASE UNCHANGED vars
    BY <1>0 DEF vars
<1>1. ASSUME NEW p \in Procs, TestOutput(p) PROVE NobodyEvicts'
    BY <1>1 DEF TestOutput
<1>2. ASSUME NEW p \in Procs, CheckOutput(p) PROVE NobodyEvicts'
  <2>1. out \in Accepted /\ site[p] \in Sites
      BY <1>2 DEF CheckOutput
  <2>2. Status(site[p], out) # 2
      BY <2>1 DEF LocationsAgree
  <2>3. pc'[p] \in {"ok", "error"}
      BY <1>2, <2>2 DEF CheckOutput
  <2>4. UNCHANGED out /\ \A q \in Procs : q # p => pc'[q] = pc[q]
      BY <1>2 DEF CheckOutput
  <2> QED
      BY <2>1, <2>3, <2>4
<1>3. ASSUME NEW p \in Procs, EvictOutput(p) PROVE NobodyEvicts'
    BY <1>3 DEF EvictOutput
<1>4. ASSUME NEW p \in Procs, MvToOutput(p) PROVE NobodyEvicts'
    BY <1>4 DEF MvToOutput, StagedIsVerified
<1>5. ASSUME NEW p \in Procs,
             \/ Start(p) \/ MkTmpDir(p) \/ Fetch(p) \/ Verify(p) \/ MkTmpOutput(p)
             \/ ChmodTmpOutput(p) \/ CatToTmpOutput(p) \/ RmTmpDir(p) \/ NextSite(p) \/ Kill(p)
      PROVE  NobodyEvicts'
    BY <1>5 DEF Start, MkTmpDir, Fetch, Verify, MkTmpOutput, ChmodTmpOutput, CatToTmpOutput,
                RmTmpDir, NextSite, Kill, Abort
<1> QED
    BY <1>0, <1>1, <1>2, <1>3, <1>4, <1>5 DEF Next, Step

\* When BR2_DL_DIR holds no damaged file at first, and every location checks
\* with the same .hash file, a build whose download succeeded finds a good file,
\* whatever the other builds do and however often they run. (dl-wrapper)
THEOREM DownloadsStay == ASSUME OneHashFile PROVE Spec => CleanStartStays
<1>1. LocationsAgree
    BY OneHashFileAgrees
<1>2. Init /\ out \in Accepted \cup {NoFile} => NobodyEvicts
    BY DEF Init, NobodyEvicts
<1>3. IInv /\ NobodyEvicts /\ [Next]_vars => NobodyEvicts'
    BY <1>1, NobodyEvictsStays DEF IInv
<1>4. NobodyEvicts => DownloadedStays
    BY DEF NobodyEvicts, DownloadedStays
<1> QED
    BY <1>2, <1>3, <1>4, Invariance, PTL DEF Spec, CleanStartStays
==============================================================================
