---------------------------- MODULE CheckHashLoop ----------------------------
(***************************************************************************)
(* The loop of support/download/check-hash, one line of the .hash file per *)
(* step, to be compared with the verdict CheckHashStatus states at once.   *)
(***************************************************************************)
EXTENDS CheckHash, FiniteSets

CONSTANTS Contents,   \* contents a digest can belong to
          Names,      \* file names a .hash file mentions
          Types,      \* digest types it uses
          MaxLines,   \* bound on its length
          Base,       \* the file being checked
          NoFile      \* content of a file that vanished

VARIABLES h,          \* the .hash file and the exemption
          content,    \* content of the file being checked
          pos,        \* lines read so far
          nb_checks,  \* lines about Base that passed
          status      \* exit status, or Running

\* The script has not exited: larger than any status a shell reports.
Running == 256

vars == <<h, content, pos, nb_checks, status>>

Lines == [type : Types, known : Contents, name : Names]

Init ==
    /\ h \in [exists : BOOLEAN, exempt : BOOLEAN,
              lines : UNION {[1..n -> Lines] : n \in 0..MaxLines}]
    /\ content \in Contents \cup {NoFile}
    /\ pos = 0
    /\ nb_checks = 0
    /\ status = Running

\* No .hash file: exempt or an error, before any line is read.
NoHashFile ==
    /\ status = Running /\ pos = 0 /\ ~ h.exists
    /\ status' = NoHashStatus(h.exempt)
    /\ UNCHANGED <<h, content, pos, nb_checks>>

\* `while read t h f': a line about another file is skipped, a line about this
\* one is checked, and a failing check ends the script.
ReadLine ==
    /\ status = Running /\ h.exists /\ pos < Len(h.lines)
    /\ pos' = pos + 1
    /\ LET line == h.lines[pos + 1]
       IN  \/ /\ line.name # Base
              /\ UNCHANGED <<nb_checks, status>>
           \/ /\ line.name = Base /\ FailsOn(line, content)
              /\ status' = IF UnknownType(line) THEN 4 ELSE 2
              /\ UNCHANGED nb_checks
           \/ /\ line.name = Base /\ ~ FailsOn(line, content)
              /\ nb_checks' = nb_checks + 1
              /\ UNCHANGED status
    /\ UNCHANGED <<h, content>>

\* The exemption list is consulted only when there is no .hash file at all.
EndOfFileNoExemption ==
    /\ status = Running /\ h.exists /\ pos = Len(h.lines)
    /\ status' = IF nb_checks = 0 THEN 3 ELSE 0
    /\ UNCHANGED <<h, content, pos, nb_checks>>

\* End of the .hash file: was there any hash for the file?
EndOfFile ==
    /\ status = Running /\ h.exists /\ pos = Len(h.lines)
    /\ status' = IF nb_checks = 0 THEN NoHashStatus(h.exempt) ELSE 0
    /\ UNCHANGED <<h, content, pos, nb_checks>>

Next == NoHashFile \/ ReadLine \/ EndOfFile

Spec == Init /\ [][Next]_vars

------------------------------------------------------------------------------
\* The loop ends with the verdict that the wrapper's model uses.
LoopMeetsVerdict ==
    status # Running => status = CheckHashStatus(h, Base, content)

\* A damaged file never passes unless the .hash file or the package says not
\* to check it: exit 0 from check-hash means every digest recorded for the
\* file was computed and compared, or there is explicitly none.
ZeroIsEarned ==
    status = 0 =>
        \/ h.exempt /\ (~ h.exists \/ LinesFor(h, Base) = {})
        \/ /\ h.exists /\ LinesFor(h, Base) # {}
           /\ \A i \in LinesFor(h, Base) :
                 h.lines[i].type = "none" \/ h.lines[i].known = content

\* What check-hash says is the verdict, and a 0 was earned. (check-hash:86-112)
VerdictIsEarned == LoopMeetsVerdict /\ ZeroIsEarned
==============================================================================
