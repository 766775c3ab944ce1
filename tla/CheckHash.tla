------------------------------ MODULE CheckHash ------------------------------
(***************************************************************************)
(* support/download/check-hash: compare a file with the hashes a package's *)
(* .hash file records for it, and report the verdict as an exit status.    *)
(*                                                                         *)
(* A digest is abstracted to the content it was computed from: two         *)
(* contents have the same digest only when they are equal.  A file that    *)
(* vanished before it was hashed has the content NoFile, whose digest (the *)
(* empty string `cut' prints) is never one a .hash file records.           *)
(***************************************************************************)
EXTENDS Naturals, Sequences

\* Digest types check_one_hash computes; "none" is accepted without a digest.
KnownTypes == {"md5", "sha1", "sha224", "sha256", "sha384", "sha512"}

HashTypes == KnownTypes \cup {"none", "bogus"}

\* One line of a .hash file: `type  digest  name', the digest given by the
\* content it is the digest of.
HashLines(contents, names) ==
    [type : HashTypes, known : contents, name : names]

\* The line asks for a digest type that check_one_hash does not know.
UnknownType(line) == line.type \notin KnownTypes \cup {"none"}

\* check_one_hash would leave the script (exit 4 or exit 2) on this line.
FailsOn(line, content) ==
    \/ UnknownType(line)
    \/ line.type \in KnownTypes /\ line.known # content

\* Exit status when there is no hash to compare with: the file may be exempt
\* (BR_NO_CHECK_HASH_FOR), otherwise that is an error.
NoHashStatus(exempt) == IF exempt THEN 0 ELSE 3

\* Positions of the lines that are about the file called base.
LinesFor(h, base) == {i \in DOMAIN h.lines : h.lines[i].name = base}

(***************************************************************************)
(* The exit status of check-hash.  h.exists: -H names a file that exists;  *)
(* h.exempt: base is listed in BR_NO_CHECK_HASH_FOR; h.lines: the lines of *)
(* the .hash file that are neither blank nor comments, in file order.  The *)
(* first line that fails decides the status; check_one_hash exits there.   *)
(***************************************************************************)
CheckHashStatus(h, base, content) ==
    LET mine    == LinesFor(h, base)
        failing == {i \in mine : FailsOn(h.lines[i], content)}
    IN  IF ~ h.exists \/ mine = {} THEN NoHashStatus(h.exempt)
        ELSE IF failing = {} THEN 0
        ELSE LET first == CHOOSE i \in failing : \A j \in failing : i <= j
             IN  IF UnknownType(h.lines[first]) THEN 4 ELSE 2
==============================================================================
