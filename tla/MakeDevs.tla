------------------------------ MODULE MakeDevs ------------------------------
(***************************************************************************)
(* makedevs.c: gives the files of the target their owners and modes, and   *)
(* makes directories and device nodes, as a device table says.  One step   *)
(* is one line of the table.  A path is a sequence of names, a name a text *)
(* and the number at its end; -1 is no number.                             *)
(***************************************************************************)
EXTENDS Integers, SequencesExt

CONSTANTS
    Lines,               \* the lines a table is made of
    MaxLines,
    Files,               \* the regular files that are there, by path
    Ids,                 \* the entries of etc/passwd and etc/group, and numbers
    Limit                \* 0xfffff

VARIABLES
    table, linenum,
    extended,            \* built with EXTENDED_ATTRIBUTES
    broken,              \* the path the system refuses to change, and in which way
    fs,                  \* by path: type, mode, owner, group, device, capabilities
    full_name,           \* <<>> before the first file
    user, group,         \* what the last line with such a field has left in the arrays
    reported,            \* the lines an error was reported for
    pc

vars == <<table, linenum, extended, broken, fs, full_name, user, group, reported, pc>>
fixed == <<table, extended, broken>>

Node(t, mode, rdev) ==
    [type |-> t, mode |-> mode, user |-> "", group |-> "", rdev |-> rdev, caps |-> {}]
Exists(f, p) == p \in DOMAIN f
IsDirectory(f, p) == p = <<>> \/ (Exists(f, p) /\ f[p].type = "d")
Create(f, p, node) == [q \in DOMAIN f \cup {p} |-> IF q = p THEN node ELSE f[q]]

\* Missing parents are made too, with mode 777: main() has set the umask to 0.
\* Nothing is made below something that is no directory.
bb_make_directory(f, p, mode) ==
    LET ancestors == {SubSeq(p, 1, n) : n \in 1 .. Len(p)}
        made == {q \in ancestors :
                    /\ ~Exists(f, q)
                    /\ \A r \in ancestors : Len(r) < Len(q) /\ Exists(f, r) => IsDirectory(f, r)}
        ModeOf(q) == IF q = p /\ broken # <<p, "chmod">> THEN mode ELSE 777
    IN  [q \in DOMAIN f \cup made |-> IF q \in made THEN Node("d", ModeOf(q), <<>>) ELSE f[q]]

\* chown(), then chmod(); what is not there has no owner.
Changed(f, p, own, mode) ==
    IF ~Exists(f, p) \/ broken = <<p, "chown">> THEN [fs |-> f, ok |-> FALSE]
    ELSE IF broken = <<p, "chmod">>
         THEN [fs |-> [f EXCEPT ![p].user = own[1], ![p].group = own[2]], ok |-> FALSE]
         ELSE [fs |-> [f EXCEPT ![p].user = own[1], ![p].group = own[2], ![p].mode = mode],
               ok |-> TRUE]

\* Mutant of Numbers: the loop ends before start + count.
NumbersShort(l) ==
    IF l.count > 1 THEN l.start .. l.start + l.count - 2 ELSE {l.start}

Numbers(l) == l.start .. l.start + (IF l.count > 0 THEN l.count - 1 ELSE 0)
\* A single node has no number, wherever counting starts.
full_name_inc(l, i) ==
    IF l.count > 1 THEN [l.name EXCEPT ![Len(l.name)] = <<@[1], i>>] ELSE l.name
Targets(l) == IF l.type \in {"d", "f"} THEN {l.name} ELSE {full_name_inc(l, i) : i \in Numbers(l)}

\* The nodes are made in turn; one that cannot be made does not stop the others.
MakeNode(done, l, i, own) ==
    LET p == full_name_inc(l, i)
        rdev == IF l.type = "p" THEN <<>> ELSE <<l.major, l.minor + (i - l.start) * l.increment>>
        made == Changed(Create(done.fs, p, Node(l.type, l.mode, rdev)), p, own, l.mode)
    IN  IF Exists(done.fs, p) \/ ~IsDirectory(done.fs, Front(p))
        THEN [done EXCEPT !.ok = FALSE]
        ELSE [fs |-> made.fs, ok |-> done.ok /\ made.ok]
MakeNodes(l, own) ==
    LET done[i \in {l.start - 1} \cup Numbers(l)] ==
            IF i < l.start THEN [fs |-> fs, ok |-> TRUE] ELSE MakeNode(done[i - 1], l, i, own)
    IN  done[Max(Numbers(l))]

Tables == UNION {[1 .. n -> Lines] : n \in 1 .. MaxLines}
Refusals ==
    LET paths == UNION {Targets(l) : l \in {k \in Range(table) : k.kind = "entry"}}
    IN  {<<<<>>, "">>} \cup (paths \X {"chown", "chmod"})
Init ==
    /\ table \in Tables
    /\ extended \in BOOLEAN
    /\ broken \in Refusals
    /\ fs = [p \in Files |-> Node("f", 600, <<>>)]
    /\ linenum = 1 /\ full_name = <<>> /\ reported = {} /\ pc = "read"
    \* The arrays are not initialized: empty, or something nobody is called.
    /\ user \in {"", "?"} /\ group = user

line == table[linenum]
Reading(kind) == pc = "read" /\ linenum <= Len(table) /\ line.kind = kind
Continue == linenum' = linenum + 1 /\ UNCHANGED <<fixed, pc>>
Report(b) == reported' = IF b THEN reported ELSE reported \cup {linenum}
Die == pc' = "died" /\ UNCHANGED <<fixed, linenum, reported, fs>>

\* The fields the line has, even when it is skipped in the end.
Scan ==
    /\ user' = IF line.user # "-" THEN line.user ELSE user
    /\ group' = IF line.group # "-" THEN line.group ELSE group

IsNumber(l) == \A v \in {l.major, l.minor, l.start, l.increment, l.count} : v <= Limit
Comment ==
    /\ Reading("comment")
    /\ Scan /\ Continue /\ UNCHANGED <<fs, full_name, reported>>
Refused ==
    /\ Reading("entry") /\ ~IsNumber(line)
    /\ Scan /\ Report(FALSE) /\ Continue /\ UNCHANGED <<fs, full_name>>
UnknownOwner ==
    /\ Reading("entry") /\ IsNumber(line)
    /\ Scan /\ ~({user', group'} \subseteq Ids \cup {""})
    /\ Die /\ UNCHANGED full_name

Apply ==
    /\ Reading("entry") /\ IsNumber(line)
    /\ Scan /\ {user', group'} \subseteq Ids \cup {""}
    /\ full_name' = line.name
    /\ \E done \in {CASE line.type = "d" ->
                            Changed(bb_make_directory(fs, line.name, line.mode), line.name, <<user', group'>>, line.mode)
                      [] line.type = "f" ->
                            IF Exists(fs, line.name) /\ fs[line.name].type = "f"
                            THEN Changed(fs, line.name, <<user', group'>>, line.mode)
                            ELSE [fs |-> fs, ok |-> FALSE]
                      [] line.type \in {"c", "b", "p"} -> MakeNodes(line, <<user', group'>>)
                      [] OTHER -> [fs |-> fs, ok |-> FALSE]} :
          fs' = done.fs /\ Report(done.ok)
    /\ Continue

\* A capability is added to the file of the last entry, whatever became of it.
MayHaveCaps ==
    extended /\ line.xattr # "?" /\ Exists(fs, full_name) /\ fs[full_name].type = "f"
Xattr ==
    /\ Reading("xattr") /\ MayHaveCaps
    /\ fs' = [fs EXCEPT ![full_name].caps = @ \cup {line.xattr}]
    /\ Continue /\ UNCHANGED <<full_name, user, group, reported>>
XattrFails ==
    /\ Reading("xattr") /\ ~MayHaveCaps
    /\ Die /\ UNCHANGED <<full_name, user, group>>

EndOfTable ==
    /\ pc = "read" /\ linenum > Len(table) /\ pc' = "exit"
    /\ UNCHANGED <<fixed, linenum, fs, full_name, user, group, reported>>

Next == Comment \/ Refused \/ UnknownOwner \/ Apply \/ Xattr \/ XattrFails \/ EndOfTable

-----------------------------------------------------------------------------
Entries == {n \in 1 .. linenum - 1 : table[n].kind = "entry" /\ IsNumber(table[n])}
\* The n-th node of a line of count nodes has number start + n - 1 and minor
\* number minor + (n - 1) * increment.
Count(l) == IF l.count > 1 /\ l.type \in {"c", "b", "p"} THEN l.count ELSE 1
Nth(l, n) == IF Count(l) > 1 THEN [l.name EXCEPT ![Len(l.name)] = <<@[1], l.start + n - 1>>] ELSE l.name
Names(l) == {Nth(l, n) : n \in 1 .. Count(l)}
Decides(n, p) == \A k \in Entries : k > n => p \notin Names(table[k])
\* Something else is there when the line is read.
Taken(n, p) ==
    \/ p \in Files
    \/ \E k \in Entries : k < n /\ p \in Names(table[k]) /\ table[k].type # "d"
LastEntry(k) == {n \in Entries : n < k /\ \A o \in Entries : o < k => o <= n}
XattrLines(p) ==
    {k \in 1 .. linenum - 1 : table[k].kind = "xattr" /\ \E n \in LastEntry(k) : table[n].name = p}

\* What the lines that were not reported say of a file holds in the end, as the
\* last of them says it, whatever happened to the others; a file has the
\* capabilities of the xattr lines behind its own lines.  A directory line takes
\* for a directory what is there, a short line its owner from another line.
TableIsApplied ==
    /\ \A n \in Entries \ reported : \A k \in 1 .. Count(table[n]) :
          LET l == table[n]
              p == Nth(l, k)
          IN  Decides(n, p) =>
                /\ Exists(fs, p) /\ fs[p].mode = l.mode
                /\ fs[p].type = l.type \/ (l.type = "d" /\ Taken(n, p))
                /\ l.type \in {"c", "b"} => fs[p].rdev = <<l.major, l.minor + (k - 1) * l.increment>>
                /\ l.user # "-" => fs[p].user = l.user
                /\ l.group # "-" => fs[p].group = l.group
    /\ \A p \in DOMAIN fs : fs[p].caps = {table[k].xattr : k \in XattrLines(p)}
=============================================================================
