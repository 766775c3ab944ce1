------------------------------ MODULE KConfdata ------------------------------
(***************************************************************************)
(* support/kconfig/confdata.c: reading and writing configuration files.    *)
(*                                                                         *)
(* A file is a function from the named symbols to the value its line gives *)
(* them: "y", "m", "n" (for `# X is not set' too) or "-" when it has no    *)
(* line for the symbol.  Its lines are in menu order, as kconfig writes    *)
(* them.                                                                   *)
(***************************************************************************)
EXTENDS KSymbol

CONSTANT NoFile

Words == {"y", "m", "n", "-"}

\* conf_write_symbol for the value t of s: without modules m is written as n.
Word(st, s) == CASE StringTri(st, s) = yes -> "y"
                 [] StringTri(st, s) = mod -> "m"
                 [] OTHER -> "n"

Value(word) == CASE word = "y" -> yes [] word = "m" -> mod [] OTHER -> no

NamedOrder == SelectSeq(MenuOrder, LAMBDA s : s \in Named)

------------------------------------------------------------------------------
(* conf_read *)

\* conf_read_simple before the first line: forget what the user had set.
ResetUser(st) ==
    [st EXCEPT !.valid = All(FALSE), !.has = [s \in Symbols |-> s \in ChoiceSyms],
               !.user = All(no), !.pick = None, !.warned = FALSE]

\* The choice learns that it is on, not which value it has.
SetChoiceOnly(st, s) == [st EXCEPT !.user[ChoiceOf[s]] = TriOr(@, st.user[s])]

\* setsym: a line for a choice value also changes the choice.
SetChoice(st, s) ==
    LET c == ChoiceOf[s]
        v == st.user[s]
        clash == v = mod /\ st.user[c] = yes
    IN  [st EXCEPT !.pick[c] = IF v = yes THEN s ELSE @,
                   !.warned = @ \/ clash \/ (v = yes /\ st.user[c] # no),
                   !.has[c] = @ /\ ~ clash,
                   !.user[c] = TriOr(@, v)]

TellChoice(st, s) == IF IsChoiceValue(s) THEN SetChoice(st, s) ELSE st

\* One line of the file: conf_set_sym_val refuses m for a boolean.
ReadLine(st, s, word) ==
    IF word = "-" THEN st
    ELSE IF word = "m" /\ Decl[s].type = "bool" THEN [st EXCEPT !.warned = TRUE]
    ELSE TellChoice([st EXCEPT !.user[s] = Value(word), !.has[s] = TRUE], s)

\* conf_read_simple(name, S_DEF_USER) of a file that exists.
ReadSimple(st, file) ==
    CalcModules(FoldLeft(LAMBDA t, s : ReadLine(t, s, file[s]), ResetUser(st), NamedOrder))

\* conf_read: is the value of s different from what the file says?
Unsaved(st, s) ==
    /\ s \in Named
    /\ ~ (st.has[s] /\ st.write[s] /\ st.user[s] = st.curr[s])
    /\ st.has[s] \/ st.write[s]

\* The symbols are calculated in the order of the hash table, the choices, which
\* have no name, first.
HashOrder == SelectSeq(MenuOrder, LAMBDA s : s \in ChoiceSyms) \o NamedOrder

\* An invisible symbol is new again, unless the file disagrees with Config.in.
Compared(st) ==
    LET unsaved == \E s \in Symbols : Unsaved(st, s)
    IN  [st EXCEPT !.changed = st.warned \/ unsaved,
                   !.has = [s \in Symbols |->
                      @[s] /\ (IsChoiceValue(s) \/ st.vis[s] # no \/ unsaved)]]
ConfReadFile(st, file) == Compared(FoldLeft(CalcValue, ReadSimple(st, file), HashOrder))

\* conf_read(NULL), .config: without a file only the change counter moves.
ConfReadDotConfig(st, file) ==
    IF file # NoFile THEN ConfReadFile(st, file)
    ELSE CalcModules([st EXCEPT !.changed = TRUE])

------------------------------------------------------------------------------
(* conf_write *)

\* The loop over the menus: a symbol with SYMBOL_WRITE gets a line and loses
\* the flag.  w has the table and the lines written so far.
Lined(st, file, s) ==
    IF st.write[s]
    THEN [st |-> [st EXCEPT !.write[s] = FALSE], file |-> [file EXCEPT ![s] = Word(st, s)]]
    ELSE [st |-> st, file |-> file]
\* ... with the value that was there before the last change.
WriteLineUncalculated(w, s) == Lined(w.st, w.file, s)
WriteLine(w, s) == Lined(CalcValue(w.st, s), w.file, s)

Blank == [s \in Named |-> "-"]

\* What conf_write does before it renames: the table and the lines of the file.
WriteOut(st) ==
    FoldLeft(WriteLine,
             [st |-> IF st.changed THEN st ELSE ClearAllValid(st), file |-> Blank],
             NamedOrder)

\* sym_get_string_default: what a reader without a line would calculate.
StringDefault(r, s) ==
    IF r.tri = mod /\ (Decl[s].type = "bool" \/ (~ IsChoiceValue(s) /\ r.st.mods = no))
    THEN yes ELSE r.tri
DefaultOf[x \in Tables \X Symbols] ==
    DefaultValue(Calculated, DefaultProp(Calculated, x[1], x[2]), x[2])
Visibility[x \in Tables \X Symbols] == CalcVisibility(Calculated, x[1], x[2])
SymStringDefault(st, s) == StringDefault(DefaultOf[<<Visibility[<<st, s>>], s>>], s)

\* conf_write_defconfig: s is left out, because it cannot be changed or because
\* a reader gives it the same value without a line.
\* Every value a choice has is taken for its default.
RedundantChoice(st, s) ==
    \/ ~ Changable(st, s)
    \/ StringTri(st, s) = SymStringDefault(st, s)
    \/ IsChoiceValue(s) /\ st.curr[s] = yes

Redundant(st, s) ==
    LET c == ChoiceOf[s]
    IN  \/ ~ Changable(st, s)
        \/ StringTri(st, s) = SymStringDefault(st, s)
        \/ /\ c # NoSym /\ ~ Decl[c].optional
           /\ ChoiceDefault(Calculated, st, c).sym = s
           /\ Decl[s].type = "bool" /\ st.curr[s] = yes

DefconfigLined(st, file, s) ==
    IF st.write[s] /\ ~ Redundant(st, s) THEN Lined(st, file, s)
    ELSE [st |-> [st EXCEPT !.write[s] = FALSE], file |-> file]
DefconfigLine(w, s) == DefconfigLined(CalcValue(w.st, s), w.file, s)

WriteDefconfig(st) ==
    FoldLeft(DefconfigLine, [st |-> ClearAllValid(st), file |-> Blank], NamedOrder).file
==============================================================================
