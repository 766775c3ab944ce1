------------------------------ MODULE KSession ------------------------------
(***************************************************************************)
(* A menuconfig session on .config: mconf.c with the symbol table of       *)
(* KSymbol and the files of KConfdata.  The user looks at menus, changes   *)
(* values, saves, loads a file and leaves; the process may die at any      *)
(* point and be started again.                                             *)
(*                                                                         *)
(* conf_write is several steps: .tmpconfig is written, .config becomes     *)
(* .config.old, .tmpconfig becomes .config.                                *)
(*                                                                         *)
(* A definition just before an action and not used by Next is the action   *)
(* with a plausible mistake in it.                                         *)
(***************************************************************************)
EXTENDS KReference, TLAPS

CONSTANTS InitialFiles,   \* what .config may hold at first, NoFile included
          MaxEdits,       \* bound on changed values and loaded files
          MaxSaves,       \* bound on the calls of conf_write
          RenameMayFail,  \* the second rename of conf_write may fail
          LoadMissing     \* the user may ask for a file that does not exist

ASSUME BoundsAssumption == MaxEdits \in Nat /\ MaxSaves \in Nat
ASSUME FaultsAssumption == RenameMayFail \in BOOLEAN /\ LoadMissing \in BOOLEAN

VARIABLES st,      \* the symbol table
          pc,      \* "edit", "written", "renamed" (in conf_write), or "off"
          config,  \* .config
          old,     \* .config.old
          tmp,     \* .tmpconfig.<pid>
          edits, saves

files == <<config, old, tmp>>
vars == <<st, pc, files, edits, saves>>

Init ==
    /\ config \in InitialFiles
    /\ st = ConfReadDotConfig(FreshTable, config)
    /\ pc = "edit"
    /\ old = NoFile /\ tmp = NoFile
    /\ edits = 0 /\ saves = 0

\* A menu with the entry s is drawn: build_conf asks menu_is_visible.
Show(s) ==
    /\ pc = "edit" /\ ~ st.valid[s]
    /\ st' = MenuIsVisible(st, s).st
    /\ UNCHANGED <<pc, files, edits, saves>>

\* The values of the other symbols are kept.
SetKeepsValid(s, v) ==
    /\ pc = "edit" /\ edits < MaxEdits
    /\ st.valid[s] /\ MenuIsVisible(st, s).shown
    /\ MaySet(st, s, v)
    /\ st' = [SetTristateValue(st, s, v) EXCEPT
                 !.valid = [t \in Symbols |-> st.valid[t] /\ t # s]]
    /\ edits' = edits + 1
    /\ UNCHANGED <<pc, files, saves>>

\* A change is not counted.
SetUncounted(s, v) ==
    /\ pc = "edit" /\ edits < MaxEdits
    /\ st.valid[s] /\ MenuIsVisible(st, s).shown
    /\ MaySet(st, s, v)
    /\ st' = [SetTristateValue(st, s, v) EXCEPT !.changed = st.changed]
    /\ edits' = edits + 1
    /\ UNCHANGED <<pc, files, saves>>

\* The user gives a shown entry another value, or confirms the one it has.
Set(s, v) ==
    /\ pc = "edit" /\ edits < MaxEdits
    /\ st.valid[s] /\ MenuIsVisible(st, s).shown
    /\ MaySet(st, s, v)
    /\ st' = SetTristateValue(st, s, v)
    /\ edits' = edits + 1
    /\ UNCHANGED <<pc, files, saves>>

\* conf_load with an existing file: it counts as a change.
Load(file) ==
    /\ pc = "edit" /\ edits < MaxEdits /\ file # NoFile
    /\ st' = [ConfReadFile(st, file) EXCEPT !.changed = TRUE]
    /\ edits' = edits + 1
    /\ UNCHANGED <<pc, files, saves>>

\* conf_load with a name no file has: conf_read has reset the change counter
\* when it finds out.
LoadNothing ==
    /\ pc = "edit" /\ LoadMissing /\ edits < MaxEdits
    /\ st' = [st EXCEPT !.changed = FALSE]
    /\ edits' = edits + 1
    /\ UNCHANGED <<pc, files, saves>>

\* conf_write up to fclose.
WriteTmp ==
    /\ pc = "edit" /\ saves < MaxSaves
    /\ \E w \in {WriteOut(st)} :
          st' = w.st /\ tmp' = w.file
    /\ pc' = "written"
    /\ saves' = saves + 1
    /\ UNCHANGED <<config, old, edits>>

\* .config is removed without a copy.
DropOld ==
    /\ pc = "written"
    /\ config' = NoFile
    /\ pc' = "renamed"
    /\ UNCHANGED <<st, old, tmp, edits, saves>>

\* rename(newname, dirname): not checked, and without effect when there is no
\* .config.
RenameOld ==
    /\ pc = "written"
    /\ old' = IF config = NoFile THEN old ELSE config
    /\ config' = NoFile
    /\ pc' = "renamed"
    /\ UNCHANGED <<st, tmp, edits, saves>>

\* rename(tmpname, newname)
RenameNew ==
    /\ pc = "renamed"
    /\ config' = tmp /\ tmp' = NoFile
    /\ st' = [st EXCEPT !.changed = FALSE]
    /\ pc' = "edit"
    /\ UNCHANGED <<old, edits, saves>>

\* ... which fails; the dialog says so and the session goes on.
RenameFails ==
    /\ pc = "renamed" /\ RenameMayFail
    /\ pc' = "edit"
    /\ UNCHANGED <<st, files, edits, saves>>

\* The user leaves, or the process is killed.
Leave ==
    /\ pc # "off"
    /\ pc' = "off"
    /\ st' = FreshTable /\ tmp' = NoFile
    /\ UNCHANGED <<config, old, edits, saves>>

\* make menuconfig again
Restart ==
    /\ pc = "off"
    /\ st' = ConfReadDotConfig(FreshTable, config)
    /\ pc' = "edit"
    /\ UNCHANGED <<files, edits, saves>>

Next ==
    \/ \E s \in Symbols : Show(s) \/ \E v \in Tristate : Set(s, v)
    \/ \E file \in InitialFiles : Load(file)
    \/ LoadNothing \/ WriteTmp \/ RenameOld \/ RenameNew \/ RenameFails
    \/ Leave \/ Restart

Spec == Init /\ [][Next]_vars

------------------------------------------------------------------------------
(* Properties *)

\* Values of all symbols when all of them are calculated anew.
Anew(t) == CalcAll([t EXCEPT !.valid = All(FALSE)]).curr

\* A boolean is never m.
TypeOK ==
    /\ st.valid \in [Symbols -> BOOLEAN] /\ st.write \in [Symbols -> BOOLEAN]
    /\ st.has \in [Symbols -> BOOLEAN] /\ st.need \in [Symbols -> BOOLEAN]
    /\ st.user \in [Symbols -> Tristate] /\ st.curr \in [Symbols -> Tristate]
    /\ st.vis \in [Symbols -> Tristate] /\ st.rev \in [Symbols -> Tristate]
    /\ st.dir \in [Symbols -> {no, yes}] /\ st.mods \in Tristate
    /\ \A c \in ChoiceSyms : st.pick[c] \in Symbols \cup {NoSym}
                             /\ st.sel[c] \in Symbols \cup {NoSym}
    /\ \A s \in Symbols : Decl[s].type = "bool" => mod \notin {st.vis[s], st.curr[s], st.rev[s]}
    /\ st.changed \in BOOLEAN /\ st.warned \in BOOLEAN
    /\ pc \in {"edit", "written", "renamed", "off"}
    /\ config \in Files /\ old \in Files /\ tmp \in Files
    /\ edits \in 0..MaxEdits /\ saves \in 0..MaxSaves

\* A value that is kept (SYMBOL_VALID) is the one a new calculation would give,
\* in whatever order the menus were looked at.
KeptValuesAreFresh ==
    pc = "edit" => LET fresh == Anew(st)
                   IN  \A s \in Symbols : st.valid[s] => st.curr[s] = fresh[s]

\* When sym_set_tristate_value accepts a value, the symbol gets it, and the
\* calculation that follows does not take it back.
AcceptedValueSticks ==
    [][\A s \in Symbols, v \in Tristate :
          Set(s, v) => Anew(st')[s] = v]_vars

\* A file conf_write leaves in .config is a configuration Config.in allows:
\* what is on has its dependencies or is selected, what is selected is on, and
\* a visible choice has one value.
WrittenIsConsistent == [][RenameNew => Consistent(config')]_vars

\* The next process that reads the file conf_write left gets the same values
\* for all symbols.
WrittenReadsBack ==
    [][RenameNew => LET read == Current(ConfReadFile(FreshTable, config'))
                    IN  \A s \in Named : read[s] = Value(config'[s])]_vars

\* As long as the change counter is zero, in which case nobody asks whether to
\* save, .config has the values of the session (mconf.c: "Do you wish to save
\* your new configuration?").
ChangesAreCounted ==
    pc = "edit" /\ ~ st.changed /\ config # NoFile =>
        LET fresh == Anew(st)
        IN  \A s \in Named : fresh[s] = Value(config[s])

\* Wherever the process dies, .config or .config.old is a file that was once a
\* complete .config, and .config goes only when .config.old has its content.
ConfigSurvives ==
    [][config # NoFile /\ config' # config => old' = config]_vars

\* "configuration written to": when conf_write says so, .config has the values
\* of the session.
WrittenIsCurrent ==
    [][RenameNew => LET fresh == Anew(st)
                    IN  \A s \in Named : fresh[s] = Value(config'[s])]_vars

\* What conf_write leaves in .config is both: allowed, and what the session has.
WrittenIsSound == WrittenIsConsistent /\ WrittenIsCurrent

\* The symbol table is one that an order of looking at the menus cannot have
\* changed, in all states of the session. (sym_calc_value, sym_set_tristate_value)
TableIsSound == TypeOK /\ KeptValuesAreFresh

------------------------------------------------------------------------------
(* Proof *)

\* Between its two renames conf_write has no .config to lose.
BetweenRenames == pc = "renamed" => config = NoFile

LEMMA RenamesStep == BetweenRenames /\ [Next]_vars => BetweenRenames'
<1> SUFFICES ASSUME BetweenRenames, [Next]_vars PROVE BetweenRenames'
  OBVIOUS
<1>1. CASE UNCHANGED vars
  BY <1>1 DEF vars, files, BetweenRenames
<1>2. CASE \E s \in Symbols : Show(s) \/ \E v \in Tristate : Set(s, v)
  BY <1>2 DEF Show, Set, files, BetweenRenames
<1>3. CASE (\E file \in InitialFiles : Load(file)) \/ LoadNothing \/ WriteTmp
  BY <1>3 DEF Load, LoadNothing, WriteTmp, files, BetweenRenames
<1>4. CASE RenameOld \/ RenameNew \/ RenameFails
  BY <1>4 DEF RenameOld, RenameNew, RenameFails, files, BetweenRenames
<1>5. CASE Leave \/ Restart
  BY <1>5 DEF Leave, Restart, files, BetweenRenames
<1> QED
  BY <1>1, <1>2, <1>3, <1>4, <1>5 DEF Next

\* For every Config.in, every .config at the start and every order of changes,
\* saves, failures of rename and deaths of the process: what .config held is in
\* .config.old when .config changes. (conf_write)
THEOREM ConfigAlwaysSurvives == Spec => ConfigSurvives
<1>1. Init => BetweenRenames
  BY DEF Init, BetweenRenames
<1>2. BetweenRenames /\ [Next]_vars => [config # NoFile /\ config' # config => old' = config]_vars
  <2> SUFFICES ASSUME BetweenRenames, Next, config # NoFile, config' # config PROVE old' = config
    OBVIOUS
  <2>1. CASE RenameOld
    BY <2>1 DEF RenameOld
  <2>2. CASE RenameNew
    BY <2>2 DEF RenameNew, BetweenRenames
  <2>3. CASE ~ RenameOld /\ ~ RenameNew
    BY <2>3 DEF Next, Show, Set, Load, LoadNothing, WriteTmp, RenameFails, Leave, Restart, files
  <2> QED
    BY <2>1, <2>2, <2>3
<1> QED
  BY <1>1, <1>2, RenamesStep, PTL DEF Spec, ConfigSurvives
==============================================================================
