-------------------------------- MODULE KConf --------------------------------
(***************************************************************************)
(* support/kconfig/conf.c, the modes that ask nothing: defconfig,          *)
(* olddefconfig, savedefconfig, allnoconfig, allyesconfig, allmodconfig,   *)
(* alldefconfig and randconfig.  One process reads a file (or none), gives *)
(* values to the symbols that have none, and writes .config; savedefconfig *)
(* writes a minimal file, which `make defconfig' turns into a .config      *)
(* again.  KCONFIG_ALLCONFIG is not set and there is no .defconfig.        *)
(*                                                                         *)
(* A definition that no other one uses is the next one with a plausible    *)
(* mistake in it.                                                          *)
(***************************************************************************)
EXTENDS KReference

CONSTANTS InitialFiles,    \* what .config may hold at first
          AskFiles,        \* the same, for the modes that ask (KAsk)
          MaxPasses        \* bound on the passes of randconfig

ASSUME PassesAssumption == MaxPasses \in Nat

VARIABLES st,         \* the symbol table
          mode,       \* input_mode
          pc,         \* "read", "set", "ask", "write" or "done"
          config,     \* .config
          minimal,    \* the file savedefconfig wrote
          passes      \* passes of randconfig's loop so far

vars == <<st, mode, pc, config, minimal, passes>>

Asking == {"oldconfig", "oldaskconfig"}
Reading == {"olddefconfig", "savedefconfig", "defconfig"} \cup Asking
Setting == {"allnoconfig", "allyesconfig", "allmodconfig", "alldefconfig", "defconfig"}
Modes == Reading \cup Setting \cup {"randconfig"}

------------------------------------------------------------------------------
(* conf_set_all_new_symbols *)

\* The value a symbol nobody has set gets, by mode.
NewUser(m) == CASE m = "allyesconfig" -> yes [] m = "allmodconfig" -> mod [] OTHER -> no

\* The symbols its first loop looks at.
IsNew(t, s) == ~ t.has[s] /\ ~ t.valid[s]

GiveNewValues(t, m) ==
    IF m \in {"alldefconfig", "defconfig"} THEN t
    ELSE [t EXCEPT !.user = [s \in Symbols |-> IF IsNew(t, s) THEN NewUser(m) ELSE @[s]],
                   !.has = [s \in Symbols |-> @[s] \/ IsNew(t, s)]]

\* The second loop: the choices have to tell their values before use.
MarkChoices(t) ==
    [t EXCEPT !.need = [s \in Symbols |->
        @[s] \/ IsChoiceValue(s) \/ (s \in ChoiceSyms /\ ~ t.has[s])]]

\* The third loop: a choice without a value of its own gets one now.
SettleChoice(t, c) ==
    IF c \notin ChoiceSyms \/ t.has[c] THEN t
    ELSE SetAllChoiceValues(CalcValue(t, c), c)

SetAllNewSymbols(t, m) ==
    FoldLeft(SettleChoice, MarkChoices(ClearAllValid(GiveNewValues(t, m))), HashOrder)

\* The same for def_random, with the values f the dice give to the new symbols
\* and the value g they pick in each choice.
RandomizeChoice(t, c, m) ==
    [t EXCEPT !.user = [s \in Symbols |-> IF ChoiceOf[s] # c THEN @[s]
                                          ELSE IF s = m THEN yes ELSE no],
              !.pick[c] = m,
              !.has = [s \in Symbols |-> @[s] \/ s = c \/ ChoiceOf[s] = c],
              !.valid = [s \in Symbols |-> @[s] /\ s # c /\ ChoiceOf[s] # c]]

\* A choice that is off also asks for another pass.
RandomizeAgain(t, c, m) ==
    [st |-> IF t.curr[c] = yes THEN RandomizeChoice(t, c, m) ELSE t, again |-> TRUE]
RandomizeIfOn(t, c, m) ==
    IF t.curr[c] = yes THEN [st |-> RandomizeChoice(t, c, m), again |-> TRUE]
    ELSE [st |-> t, again |-> FALSE]

\* w.again: the last choice without a value got one, or there is no such choice
\* and some symbol was new.
RandomChoices(w, c, g) ==
    IF c \notin ChoiceSyms \/ w.st.has[c] THEN w
    ELSE RandomizeIfOn(CalcValue(w.st, c), c, g[c])

SetRandomSymbols(t, f, g) ==
    LET new == {s \in Symbols : IsNew(t, s)}
        thrown == [t EXCEPT !.user = [s \in Symbols |-> IF s \in new THEN f[s] ELSE @[s]],
                            !.has = [s \in Symbols |-> @[s] \/ s \in new \cap Named]]
    IN  FoldLeft(LAMBDA w, c : RandomChoices(w, c, g),
                 [st |-> ClearAllValid(thrown), again |-> new # {}], HashOrder)

\* What the dice can give to the new symbols.
Dice(t) ==
    LET new == {s \in Symbols : IsNew(t, s)}
    IN  {[s \in Symbols |-> IF s \in new THEN f[s] ELSE no] :
            f \in {g \in [new -> Tristate] : \A s \in new : g[s] = mod => Decl[s].type = "tristate"}}
Picks == {g \in [ChoiceSyms -> Symbols] : \A c \in ChoiceSyms : ChoiceOf[g[c]] = c}

\* check_conf of a mode that asks nothing: it looks at what is below a shown menu.
Below(s) == Decl[s].members \o Decl[s].submenu
Top(s) == \A t \in Symbols : ~ Contains(Below(t), s)
CheckBelow(V, w, s) ==
    IF w.shown THEN FoldLeft(LAMBDA t, m : V[<<t, m>>], w.st, Below(s)) ELSE w.st
Checked[x \in Tables \X Symbols] ==
    CheckBelow(Checked, MenuIsVisible(x[1], x[2]), x[2])
CheckConf(t, s) == Checked[<<t, s>>]

------------------------------------------------------------------------------
Init ==
    /\ mode \in Modes \ {"defconfig"}
    /\ config \in IF mode \in Asking THEN AskFiles
                  ELSE IF mode \in Reading THEN InitialFiles ELSE {NoFile}
    /\ st = FreshTable
    /\ pc = "read"
    /\ minimal = NoFile
    /\ passes = 0

\* conf_read(NULL), conf_read(defconfig_file), or nothing at all.
Read ==
    /\ pc = "read"
    /\ st' = IF mode = "defconfig" THEN ConfReadFile(st, minimal)
             ELSE IF mode \in Reading THEN ConfReadDotConfig(st, config)
             ELSE st
    /\ pc' = "set"
    /\ UNCHANGED <<mode, config, minimal, passes>>

\* conf_set_all_new_symbols, or check_conf.
SetAll ==
    /\ pc = "set" /\ mode \notin Asking \cup {"randconfig"}
    /\ st' = IF mode \in Setting THEN SetAllNewSymbols(st, mode)
             ELSE IF mode = "olddefconfig"
             THEN FoldLeft(CheckConf, st, SelectSeq(MenuOrder, Top))
             ELSE st
    /\ pc' = "write"
    /\ UNCHANGED <<mode, config, minimal, passes>>

\* while (conf_set_all_new_symbols(def_random))
RandomPass ==
    /\ pc = "set" /\ mode = "randconfig" /\ passes < MaxPasses
    /\ \E f \in Dice(st), g \in Picks :
          \E w \in {SetRandomSymbols(st, f, g)} :
              st' = w.st /\ pc' = IF w.again THEN "set" ELSE "write"
    /\ passes' = passes + 1
    /\ UNCHANGED <<mode, config, minimal>>

\* conf_write
Write ==
    /\ pc = "write" /\ mode # "savedefconfig"
    /\ \E w \in {WriteOut(st)} :
          st' = [w.st EXCEPT !.changed = FALSE] /\ config' = w.file
    /\ pc' = "done"
    /\ UNCHANGED <<mode, minimal, passes>>

\* conf_write_defconfig
WriteMinimal ==
    /\ pc = "write" /\ mode = "savedefconfig"
    /\ minimal' = WriteDefconfig(st)
    /\ pc' = "done"
    /\ UNCHANGED <<st, mode, config, passes>>

\* The next make runs another mode, or make defconfig with the minimal file.
Again ==
    /\ pc = "done"
    /\ \/ mode' = "savedefconfig" /\ mode \notin {"savedefconfig", "defconfig"} \cup Asking
       \/ mode' = "defconfig" /\ mode = "savedefconfig"
       \/ mode' = "oldconfig" /\ mode \in Asking
    /\ st' = FreshTable /\ pc' = "read"
    /\ UNCHANGED <<config, minimal, passes>>

Next == Read \/ SetAll \/ RandomPass \/ Write \/ WriteMinimal \/ Again

Spec == Init /\ [][Next]_vars

------------------------------------------------------------------------------
(* Properties *)

TypeOK ==
    /\ st.has \in [Symbols -> BOOLEAN] /\ st.need \in [Symbols -> BOOLEAN]
    /\ st.user \in [Symbols -> Tristate] /\ st.curr \in [Symbols -> Tristate]
    /\ mode \in Modes
    /\ pc \in {"read", "set", "ask", "write", "done"}
    /\ config \in Files /\ minimal \in Files
    /\ passes \in 0..MaxPasses

\* Whatever the mode, and whatever the dice, the .config that is written is one
\* Config.in allows.
WrittenIsConsistent ==
    pc = "done" /\ mode # "savedefconfig" => Consistent(config)

\* conf_write_defconfig: "All values that has default values are skipped as
\* this is redundant."  make defconfig with the minimal file gives the
\* configuration savedefconfig was given.
MinimalIsEnough ==
    [][Write /\ mode = "defconfig" =>
          LET given == Current(ConfReadDotConfig(FreshTable, config))
          IN  \A s \in Named : Value(config'[s]) = given[s]]_vars

\* The help text: "New config where all options are answered with yes", and
\* "with no": an option that is asked for and not selected has that answer.
AllAnswered ==
    pc = "done" /\ mode \in {"allyesconfig", "allnoconfig"} =>
        LET val == ValuesIn(config)
            answer == IF mode = "allyesconfig" THEN yes ELSE no
        IN  \A s \in Named :
               /\ ~ IsChoiceValue(s)
               /\ Holds(val, PromptExpr[s]) # no /\ Holds(val, RevDep[s]) = no
               => val[s] = TriAnd(answer, Holds(val, PromptExpr[s]))

\* The loop of randconfig ("Really nothing to do in this loop") comes to an
\* end: each pass that asks for another one has settled one more choice.
RandconfigEnds ==
    mode = "randconfig" /\ pc = "set" => passes <= Cardinality(ChoiceSyms)

\* A batch run settles: randconfig ends, and the all-yes and all-no runs have
\* answered what they were to answer. (conf_set_all_new_symbols)
BatchSettles == TypeOK /\ AllAnswered /\ RandconfigEnds
==============================================================================
