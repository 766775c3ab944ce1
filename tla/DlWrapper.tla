------------------------------ MODULE DlWrapper ------------------------------
(***************************************************************************)
(* support/download/dl-wrapper, called by the DOWNLOAD_INNER macro of      *)
(* package/pkg-download.mk for one source file.  Several builds share      *)
(* BR2_DL_DIR, so several processes download the same file at once; each   *)
(* tries the primary site, the upstream site and the backup site in turn.  *)
(*                                                                         *)
(* Every command of the script that touches the shared directory is a step *)
(* of its own, and every one of them can fail.  mktemp gives each run its  *)
(* own names, so the temporaries are private to a process.                 *)
(*                                                                         *)
(* A definition that comes just before an action and is not used by Next   *)
(* is the action with a plausible mistake in it; the runs are repeated     *)
(* with it to see that the properties notice.                              *)
(***************************************************************************)
EXTENDS CheckHash, FiniteSets

CONSTANTS Procs,       \* builds that download the file
          NSites,      \* locations DOWNLOAD_INNER tries
          Contents,    \* what a file can hold, truncated downloads included
          Base,        \* basename of the output file
          HashFile,    \* HashFile[s]: the -H argument used with site s
          InitialOut,  \* contents the output may hold beforehand
          MaxRuns,     \* bound on the runs of one build
          NoFile,      \* no such file
          Partial      \* a file that holds less than it should

Sites == 1..NSites

\* Verdict on content c when it is checked for site s.
Status(s, c) == CheckHashStatus(HashFile[s], Base, c)

\* Contents that some site's check lets through.
Accepted == {c \in Contents : \E s \in Sites : Status(s, c) = 0}

ASSUME NSitesAssumption == NSites \in Nat \ {0}
ASSUME MaxRunsAssumption == MaxRuns \in Nat
ASSUME NoFileAssumption == NoFile \notin Contents /\ Partial \notin Contents
                           /\ NoFile # Partial
ASSUME InitialOutAssumption == InitialOut \subseteq Contents \cup {NoFile}

VARIABLES out,       \* ${output}, in BR2_DL_DIR
          outShared, \* ${output} has the mode computed from the umask
          foreign,   \* ${output} was not written by a wrapper run
          pc,        \* next command of each process
          site,      \* site the process is trying
          tmpd,      \* ${tmpd}/output, NoFile when ${tmpd} does not exist
          tmpout,    \* ${tmp_output}, in BR2_DL_DIR
          moded,     \* ${tmp_output} has got its final mode
          runs       \* runs started

vars == <<out, outShared, foreign, pc, site, tmpd, tmpout, moded, runs>>

Running == {"test", "check", "evict", "mktmpd", "fetch", "verify",
            "mktmpout", "chmod", "cat", "rmtmpd", "mv"}

\* "error": dl-wrapper exited non-zero; "ok"/"failed": DOWNLOAD_INNER ended;
\* "killed": the process died without running another command.
Labels == Running \cup {"idle", "error", "ok", "failed", "killed"}

\* Process p, about to run the command `from', goes on to the command `to'.
Goto(p, from, to) == pc[p] = from /\ pc' = [pc EXCEPT ![p] = to]

\* set -e: the command `from' fails and the script exits at once, leaving
\* everything as it is.
Abort(p, from) ==
    /\ Goto(p, from, "error")
    /\ UNCHANGED <<out, outShared, foreign, site, tmpd, tmpout, moded, runs>>

------------------------------------------------------------------------------
Init ==
    /\ out \in InitialOut
    /\ outShared \in BOOLEAN
    /\ foreign = (out # NoFile)
    /\ pc = [p \in Procs |-> "idle"]
    /\ site = [p \in Procs |-> 1]
    /\ tmpd = [p \in Procs |-> NoFile]
    /\ tmpout = [p \in Procs |-> NoFile]
    /\ moded = [p \in Procs |-> FALSE]
    /\ runs = [p \in Procs |-> 0]

\* A build reaches its .stamp_downloaded rule.
Start(p) ==
    /\ runs[p] < MaxRuns
    /\ pc[p] \in {"idle", "ok", "failed", "killed"}
    /\ pc' = [pc EXCEPT ![p] = "test"]
    /\ site' = [site EXCEPT ![p] = 1]
    /\ tmpd' = [tmpd EXCEPT ![p] = NoFile]
    /\ tmpout' = [tmpout EXCEPT ![p] = NoFile]
    /\ runs' = [runs EXCEPT ![p] = @ + 1]
    /\ UNCHANGED <<out, outShared, foreign, moded>>

\* An existing file is always downloaded again.
AlwaysRefetch(p) ==
    /\ Goto(p, "test", IF out = NoFile THEN "mktmpd" ELSE "evict")
    /\ UNCHANGED <<out, outShared, foreign, site, tmpd, tmpout, moded, runs>>

\* if [ -e "${output}" ]
TestOutput(p) ==
    /\ Goto(p, "test", IF out = NoFile THEN "mktmpd" ELSE "check")
    /\ UNCHANGED <<out, outShared, foreign, site, tmpd, tmpout, moded, runs>>

\* check-hash on the existing output: good, hopeless, or to be downloaded again.
CheckOutput(p) ==
    /\ Goto(p, "check", CASE Status(site[p], out) = 0 -> "ok"
                          [] Status(site[p], out) = 2 -> "evict"
                          [] OTHER -> "error")
    /\ UNCHANGED <<out, outShared, foreign, site, tmpd, tmpout, moded, runs>>

\* The file is emptied instead of being removed.
TruncateOutput(p) ==
    /\ Goto(p, "evict", "mktmpd")
    /\ out' \in Contents \ Accepted
    /\ foreign' = FALSE
    /\ UNCHANGED <<outShared, site, tmpd, tmpout, moded, runs>>

\* rm -f "${output}"
EvictOutput(p) ==
    /\ Goto(p, "evict", "mktmpd")
    /\ out' = NoFile
    /\ foreign' = FALSE
    /\ UNCHANGED <<outShared, site, tmpd, tmpout, moded, runs>>

\* tmpd="$(mktemp -d ...)"
MkTmpDir(p) ==
    \/ /\ Goto(p, "mktmpd", "fetch")
       /\ tmpd' = [tmpd EXCEPT ![p] = Partial]
       /\ UNCHANGED <<out, outShared, foreign, site, tmpout, moded, runs>>
    \/ Abort(p, "mktmpd")

\* The backend reports success, whatever it brought, or fails.
Fetch(p) ==
    /\ \/ \E c \in Contents : Goto(p, "fetch", "verify")
                              /\ tmpd' = [tmpd EXCEPT ![p] = c]
       \/ Goto(p, "fetch", "error") /\ tmpd' = [tmpd EXCEPT ![p] = NoFile]
    /\ UNCHANGED <<out, outShared, foreign, site, tmpout, moded, runs>>

\* The downloaded file is taken as it is.
SkipVerify(p) ==
    /\ Goto(p, "verify", "mktmpout")
    /\ UNCHANGED <<out, outShared, foreign, site, tmpd, tmpout, moded, runs>>

\* check-hash on the downloaded file
Verify(p) ==
    /\ \/ /\ Status(site[p], tmpd[p]) = 0
          /\ Goto(p, "verify", "mktmpout")
          /\ UNCHANGED tmpd
       \/ /\ Status(site[p], tmpd[p]) # 0
          /\ Goto(p, "verify", "error")
          /\ tmpd' = [tmpd EXCEPT ![p] = NoFile]
    /\ UNCHANGED <<out, outShared, foreign, site, tmpout, moded, runs>>

\* tmp_output="$(mktemp "${output}.XXXXXX")", created with mode 0600
MkTmpOutput(p) ==
    \/ /\ Goto(p, "mktmpout", "chmod")
       /\ tmpout' = [tmpout EXCEPT ![p] = Partial]
       /\ moded' = [moded EXCEPT ![p] = FALSE]
       /\ UNCHANGED <<out, outShared, foreign, site, tmpd, runs>>
    \/ Abort(p, "mktmpout")

\* chmod is forgotten: the file keeps the mode mktemp gave it.
ChmodForgotten(p) ==
    /\ Goto(p, "chmod", "cat")
    /\ UNCHANGED <<out, outShared, foreign, site, tmpd, tmpout, moded, runs>>

\* chmod ${new_mode} "${tmp_output}"
ChmodTmpOutput(p) ==
    \/ /\ Goto(p, "chmod", "cat")
       /\ moded' = [moded EXCEPT ![p] = TRUE]
       /\ UNCHANGED <<out, outShared, foreign, site, tmpd, tmpout, runs>>
    \/ Abort(p, "chmod")

\* cat "${tmpf}" >>"${tmp_output}": until it returns, tmp_output is Partial.
CatToTmpOutput(p) ==
    /\ \/ /\ Goto(p, "cat", "rmtmpd")
          /\ tmpout' = [tmpout EXCEPT ![p] = tmpd[p]]
          /\ UNCHANGED tmpd
       \/ /\ Goto(p, "cat", "error")
          /\ tmpout' = [tmpout EXCEPT ![p] = NoFile]
          /\ tmpd' = [tmpd EXCEPT ![p] = NoFile]
    /\ UNCHANGED <<out, outShared, foreign, site, moded, runs>>

\* rm -rf "${tmpd}"
RmTmpDir(p) ==
    /\ Goto(p, "rmtmpd", "mv")
    /\ tmpd' = [tmpd EXCEPT ![p] = NoFile]
    /\ UNCHANGED <<out, outShared, foreign, site, tmpout, moded, runs>>

\* mv -f "${tmp_output}" "${output}", a rename() in one directory
MvToOutput(p) ==
    /\ \/ /\ Goto(p, "mv", "ok")
          /\ out' = tmpout[p]
          /\ outShared' = moded[p]
          /\ foreign' = FALSE
       \/ /\ Goto(p, "mv", "error")
          /\ UNCHANGED <<out, outShared, foreign>>
    /\ tmpout' = [tmpout EXCEPT ![p] = NoFile]
    /\ UNCHANGED <<site, tmpd, moded, runs>>

\* The next location is taken without asking whether there is one.
NextSiteUnbounded(p) ==
    /\ Goto(p, "error", "test")
    /\ site' = [site EXCEPT ![p] = @ + 1]
    /\ UNCHANGED <<out, outShared, foreign, tmpd, tmpout, moded, runs>>

\* After the last location the first one is tried again.
NextSiteAgain(p) ==
    /\ Goto(p, "error", "test")
    /\ site' = [site EXCEPT ![p] = IF @ = NSites THEN 1 ELSE @ + 1]
    /\ tmpd' = [tmpd EXCEPT ![p] = NoFile]
    /\ tmpout' = [tmpout EXCEPT ![p] = NoFile]
    /\ UNCHANGED <<out, outShared, foreign, moded, runs>>

\* DOWNLOAD_INNER: after a failure try the next location, or give up.  The
\* next dl-wrapper makes new temporary names, so it never sees the old ones.
NextSite(p) ==
    /\ pc[p] = "error"
    /\ \/ /\ site[p] < NSites
          /\ Goto(p, "error", "test")
          /\ site' = [site EXCEPT ![p] = @ + 1]
       \/ /\ site[p] = NSites
          /\ Goto(p, "error", "failed")
          /\ UNCHANGED site
    /\ tmpd' = [tmpd EXCEPT ![p] = NoFile]
    /\ tmpout' = [tmpout EXCEPT ![p] = NoFile]
    /\ UNCHANGED <<out, outShared, foreign, moded, runs>>

\* The build is interrupted (signal, power): no command runs any more.
Kill(p) ==
    /\ pc[p] \in Running
    /\ pc' = [pc EXCEPT ![p] = "killed"]
    /\ UNCHANGED <<out, outShared, foreign, site, tmpd, tmpout, moded, runs>>

Step(p) ==
    \/ TestOutput(p) \/ CheckOutput(p) \/ EvictOutput(p)
    \/ MkTmpDir(p) \/ Fetch(p) \/ Verify(p)
    \/ MkTmpOutput(p) \/ ChmodTmpOutput(p) \/ CatToTmpOutput(p)
    \/ RmTmpDir(p) \/ MvToOutput(p) \/ NextSite(p)

Next == \E p \in Procs : Start(p) \/ Step(p) \/ Kill(p)

\* A running shell script keeps running: its next command is eventually run.
Fairness == \A p \in Procs : WF_vars(Step(p))

Spec == Init /\ [][Next]_vars

FairSpec == Spec /\ Fairness

------------------------------------------------------------------------------
(* Properties *)

TypeOK ==
    /\ out \in Contents \cup {NoFile}
    /\ outShared \in BOOLEAN
    /\ foreign \in BOOLEAN
    /\ pc \in [Procs -> Labels]
    /\ site \in [Procs -> Sites]
    /\ tmpd \in [Procs -> Contents \cup {NoFile, Partial}]
    /\ tmpout \in [Procs -> Contents \cup {NoFile, Partial}]
    /\ moded \in [Procs -> BOOLEAN]
    /\ runs \in [Procs -> 0..MaxRuns]

\* A file that a wrapper left in BR2_DL_DIR is a complete download that passed
\* its hash check, and other users can read it, whichever run was interrupted
\* where (dl-wrapper: "ensure atomicity when saving downloaded files").
PublishedIsSound ==
    out # NoFile /\ ~ foreign => out \in Accepted /\ outShared

\* What the next command of a process relies on: the content it is about to
\* copy or rename has been verified, and the copy has its final mode.
StagedIsVerified ==
    \A p \in Procs :
        /\ pc[p] = "verify" => tmpd[p] \in Contents
        /\ pc[p] \in {"mktmpout", "chmod", "cat", "rmtmpd"} => tmpd[p] \in Accepted
        /\ pc[p] \in {"cat", "rmtmpd", "mv"} => moded[p]
        /\ pc[p] \in {"rmtmpd", "mv"} => tmpout[p] \in Accepted

\* Every step leaves the file in BR2_DL_DIR as the abstract store allows.
Store == INSTANCE DlStore
ImplementsStore == Store!StoreSpec

\* A build whose download succeeded finds a good file when it goes on to
\* extract it, although other builds download the same file meanwhile
\* (dl-wrapper, help text: "Ensures that concurrent downloads do not conflict").
DownloadedStays ==
    \A p \in Procs : pc[p] = "ok" => out \in Accepted

\* That is so as long as BR2_DL_DIR held no damaged file at first.
CleanStartStays == out \in Accepted \cup {NoFile} => []DownloadedStays

\* A download that nobody interrupts comes to an end: the builds sharing
\* BR2_DL_DIR cannot keep each other downloading for ever.
DownloadEnds ==
    \A p \in Procs : pc[p] = "test" ~> pc[p] \in {"ok", "failed", "killed"}
==============================================================================
