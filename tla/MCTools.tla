------------------------------ MODULE MCTools ------------------------------
(* Small instances of the programs of Tools, and of KString.               *)
EXTENDS Tools

VARIABLES symbols, dotconfig, changes

MCLetters == <<"a", "b", "a", "b", "a">>

\* Texts of one to seven lines, some without a line end at the end, and three
\* with the entries of a search.
Text(text, entries) == [text |-> text, entries |-> entries]
MCTexts ==
    {Text(<<"c", "n", "n", "c", "n">>, <<>>), Text(<<"c">>, <<>>), Text(<<"n", "c", "n", "c">>, <<>>),
     Text(<<"c", "n", "c", "n", "c", "n", "n", "c", "n", "c", "n">>, <<0, 2, 4, 9>>),
     Text(<<"c", "n", "n", "c", "n", "n">>, <<3>>)}

MCSymType == [M |-> "tristate", W |-> "string"]

Word(o, p) == [opt |-> o, path |-> p]
MCOptions == <<"-I", "-L">>
MCArguments ==
    {Word("-I", "none"), Word("-I", "/usr/lib"), Word("-L", "none"), Word("-L", "lib"),
     Word("none", "/usr/lib"), Word("none", "lib"), Word("-mcpu=", "none"), Word("-msoft-float", "none")}

\* Nodes with and without numbers, directories on the way to them and in their
\* place, a file with two owners, lines that are refused or short.
At1(name) == <<<<name, -1>>>>
At2(dir, name) == <<<<dir, -1>>, <<name, -1>>>>
Line(name, type, mode, owner, major, minor, start, increment, count) ==
    [kind |-> "entry", name |-> name, type |-> type, mode |-> mode, user |-> owner[1],
     group |-> owner[2], major |-> major, minor |-> minor, start |-> start,
     increment |-> increment, count |-> count]
MCDeviceLines ==
    {Line(At2("dev", "tty"), "c", 640, <<"0", "5">>, 3, 1, 1, 2, 2),
     Line(At2("dev", "tty"), "b", 660, <<"0", "0">>, 1, 0, 2, 1, 1),
     Line(At2("dev", "tty"), "p", 600, <<"-", "-">>, 0, 0, 0, 0, 3),
     Line(At2("dev", "tty"), "d", 700, <<"5", "0">>, 0, 0, 0, 0, 0),
     Line(At1("dev"), "d", 755, <<"0", "0">>, 0, 0, 0, 0, 0),
     Line(At1("bin"), "f", 644, <<"5", "5">>, 0, 0, 0, 0, 0),
     Line(At1("bin"), "d", 755, <<"?", "0">>, 0, 0, 0, 0, 0),
     Line(At2("bin", "sh"), "d", 755, <<"0", "-">>, 0, 0, 0, 0, 0),
     Line(At1("bin"), "x", 755, <<"0", "0">>, 0, 0, 0, 0, 0),
     Line(At1("bin"), "f", 600, <<"0", "0">>, 0, 0, 0, 0, 1048576),
     [kind |-> "comment", user |-> "5", group |-> "5"],
     [kind |-> "xattr", xattr |-> "cap"], [kind |-> "xattr", xattr |-> "?"]}
MCTargetFiles == {At1("bin")}
\* NAME and ADDR come and go with SHOW and have defaults that change with ALT;
\* PORT and ADDR have ranges that change with it; TITLE has NAME as its default.
Constant(cond, text) == [cond |-> cond, from |-> "-", text |-> text]
None == <<"none">>
Entry(n, p, a, t) == [NAME |-> n, PORT |-> p, ADDR |-> a, TITLE |-> t]
Dotconfig(on, n, p, a, t) == [on |-> on, line |-> Entry(n, p, a, t)]
EntryTypes == Entry("string", "int", "hex", "string")
Prompts == Entry({"SHOW"}, {}, {"SHOW"}, {})
DefaultTexts ==
    Entry(<<Constant({"ALT"}, <<"a">>), Constant({}, <<"b">>)>>, <<Constant({}, <<"", 12>>)>>,
          <<Constant({"ALT"}, <<"", 3>>), Constant({"SHOW"}, <<"0x", 7>>)>>,
          <<[Constant({"SHOW"}, <<>>) EXCEPT !.from = "NAME"]>>)
NumberRanges ==
    Entry(<<>>, <<[cond |-> {"ALT"}, lo |-> 2, hi |-> 9], [cond |-> {}, lo |-> 0, hi |-> 20]>>,
          <<[cond |-> {"ALT"}, lo |-> 4, hi |-> 6]>>, <<>>)
TypedTexts ==
    Entry({<<"b">>, <<"a", "q", "\\">>}, {<<"", 1>>, <<"", 9>>, <<"0x", 3>>},
          {<<"", 5>>, <<"0x", 7>>}, {<<"\\", "q">>})
Dotconfigs ==
    {Dotconfig({}, None, None, None, None),
     Dotconfig({"SHOW"}, <<"q", "b", "q">>, <<"", 30>>, <<>>, <<"a">>),
     Dotconfig({"ALT"}, <<"q", "b", "\\", "q">>, <<"", 1>>, <<"", 3>>, <<"q", "\\", "\\", "q">>)}
EntryNames == <<"NAME", "PORT", "ADDR", "TITLE">>
Strings == INSTANCE KString WITH
    Switches <- {"SHOW", "ALT"}, Entries <- EntryNames, MaxEdits <- 3, Type <- EntryTypes,
    Prompt <- Prompts, Defaults <- DefaultTexts, Ranges <- NumberRanges, Typed <- TypedTexts,
    Files <- Dotconfigs, st <- symbols, config <- dotconfig, edits <- changes

stringVars == <<symbols, dotconfig, changes>>
StringsIdle ==
    /\ symbols = [Strings!Empty({}) EXCEPT !.changed = TRUE]
    /\ dotconfig = [on |-> {}, line |-> <<>>] /\ changes = 0

MCInit == ToolsInit /\ IF component = "strings" THEN Strings!Init ELSE StringsIdle
StringsNext == component = "strings" /\ Strings!Next /\ UNCHANGED allVars
MCNext == (ToolsNext /\ UNCHANGED stringVars) \/ StringsNext
MCSpec == MCInit /\ [][MCNext]_<<allVars, stringVars>>

\* A text keeps its meaning on its way through .config. (symbol.c, confdata.c)
TextsAreKept == Strings!TextsAreKept
=============================================================================
