------------------------------- MODULE KSymbol -------------------------------
(***************************************************************************)
(* support/kconfig: the symbol table and the value of a boolean, tristate  *)
(* or choice symbol (symbol.c, expr.c and the propagation of dependencies  *)
(* in menu.c).                                                             *)
(*                                                                         *)
(* Values are calculated when somebody asks for them and kept until        *)
(* SYMBOL_VALID is cleared, so asking changes the symbol table: every      *)
(* operator that calculates takes the table and gives back the table it    *)
(* leaves.  Calculating one symbol calculates others, so the operators     *)
(* sym_calc_value is made of take the function V that calculates these.    *)
(*                                                                         *)
(* Operators that no other definition uses are the one after them with a   *)
(* plausible mistake.                                                      *)
(*                                                                         *)
(* Strings, integers and ranges are in KString, the rewriting of           *)
(* expressions in KExpr and KRewrite.  The menu tree is flat but for the   *)
(* choices; a menu's own dependency is written into its entries.           *)
(***************************************************************************)
EXTENDS Naturals, Sequences, SequencesExt

CONSTANTS Symbols,     \* names, choices included (these have no name in a file)
          Decl,        \* Decl[s]: the declaration of s in Config.in
          MenuOrder,   \* the symbols in menu order
          ModulesSym,  \* the symbol with `option modules', NoSym for "n"
          NoSym

(***************************************************************************)
(* A declaration is a record                                               *)
(*   type      "bool" or "tristate"                                        *)
(*   members   the choice values, in order; <<>> unless s is a choice      *)
(*   optional  the choice may have no value; TRUE for an ordinary symbol   *)
(*   depends   its `depends on'                                            *)
(*   prompt    the `if' of its prompt, Const(no) without a prompt          *)
(*   defaults  its defaults, [val, cond]; in a choice val is Sym(member)   *)
(*   selects   its selects, [sym, cond]                                    *)
(*   submenu   the symbols menu_finalize puts below it                     *)
(***************************************************************************)

\* enum tristate
no == 0
mod == 1
yes == 2
Tristate == {no, mod, yes}

\* EXPR_AND and EXPR_OR
TriAnd(a, b) == IF a < b THEN a ELSE b
TriOr(a, b) == IF a > b THEN a ELSE b

\* struct expr, in postfix order, which is the order of expr_calc_value.
Const(t) == << <<"const", t>> >>
Sym(s) == << <<"sym", s>> >>
Equal(s, t) == << <<"equal", s, t>> >>     \* E_EQUAL with one of y, m, n
Not(e) == Append(e, <<"not">>)
And(e, f) == e \o f \o << <<"and">> >>
Or(e, f) == e \o f \o << <<"or">> >>

ChoiceSyms == {s \in Symbols : Decl[s].members # <<>>}
Named == Symbols \ ChoiceSyms

\* The choice a choice value belongs to.
ChoiceOf ==
    [s \in Symbols |->
        IF \E c \in ChoiceSyms : Contains(Decl[c].members, s)
        THEN CHOOSE c \in ChoiceSyms : Contains(Decl[c].members, s)
        ELSE NoSym]
IsChoiceValue(s) == ChoiceOf[s] # NoSym

ASSUME OrderAssumption == ToSet(MenuOrder) = Symbols /\ NoSym \notin Symbols

------------------------------------------------------------------------------
(* menu_finalize *)

\* menu->dep, which becomes dir_dep: a choice value also depends on its choice.
BaseDep ==
    [s \in Symbols |->
        LET c == ChoiceOf[s]
        IN  IF c = NoSym THEN Decl[s].depends
            ELSE IF Decl[c].type = "tristate" /\ Decl[s].type # "tristate"
                 THEN And(Equal(c, yes), And(Sym(c), Decl[s].depends))
            ELSE And(Sym(c), Decl[s].depends)]

\* visible.expr of the prompt of s.
PromptExpr == [s \in Symbols |-> And(BaseDep[s], Decl[s].prompt)]

\* visible.expr of the i-th default of s.
DefaultExpr(s, i) == And(BaseDep[s], Decl[s].defaults[i].cond)

\* rev_dep: the symbols that select s; a choice that is not optional is at
\* least m when it is visible.
RevDep ==
    [s \in Symbols |->
        LET AddSelects(e, t) ==
                FoldLeft(LAMBDA f, p : IF p.sym = s
                                       THEN Or(f, And(Sym(t), And(BaseDep[t], p.cond)))
                                       ELSE f,
                         e, Decl[t].selects)
        IN  FoldLeft(AddSelects,
                     IF Decl[s].optional THEN Const(no)
                     ELSE And(PromptExpr[s], Const(mod)),
                     MenuOrder)]

------------------------------------------------------------------------------
(***************************************************************************)
(* The symbol table, one function per field of struct symbol:              *)
(*   valid, write, has, need   the flags SYMBOL_VALID, SYMBOL_WRITE,       *)
(*                 SYMBOL_DEF_USER and SYMBOL_NEED_SET_CHOICE_VALUES       *)
(*   user, pick    def[S_DEF_USER], for a choice the value it had last     *)
(*   curr, sel     curr.tri, and for a choice curr.val                     *)
(*   vis, dir, rev   visible, dir_dep.tri, rev_dep.tri                     *)
(* and the globals mods (modules_val), changed (sym_change_count # 0) and  *)
(* warned (conf_warnings # 0).                                             *)
(***************************************************************************)
All(x) == [s \in Symbols |-> x]
None == [c \in ChoiceSyms |-> NoSym]

Tables ==
    [valid : [Symbols -> BOOLEAN], write : [Symbols -> BOOLEAN],
     has : [Symbols -> BOOLEAN], need : [Symbols -> BOOLEAN],
     user : [Symbols -> Nat], pick : [ChoiceSyms -> Symbols \cup {NoSym}],
     curr : [Symbols -> Nat], sel : [ChoiceSyms -> Symbols \cup {NoSym}],
     vis : [Symbols -> Nat], dir : [Symbols -> Nat], rev : [Symbols -> Nat],
     mods : Nat, changed : BOOLEAN, warned : BOOLEAN]

\* After conf_parse.
FreshTable ==
    [valid |-> All(FALSE), write |-> All(FALSE), has |-> All(FALSE),
     need |-> All(FALSE), user |-> All(no), pick |-> None, curr |-> All(no),
     sel |-> None, vis |-> All(no), dir |-> All(no), rev |-> All(no),
     mods |-> no, changed |-> TRUE, warned |-> FALSE]

SymGetType(st, s) ==
    IF \/ IsChoiceValue(s) /\ st.vis[s] = yes
       \/ st.mods = no
    THEN "bool" ELSE Decl[s].type

\* A boolean takes m for y.
Promote(st, s, tri) == IF tri = mod /\ SymGetType(st, s) = "bool" THEN yes ELSE tri

\* sym_get_string_value compared with a constant: m reads n without modules.
StringTri(st, s) ==
    IF st.curr[s] = mod /\ (ModulesSym = NoSym \/ st.mods = no) THEN no ELSE st.curr[s]

\* expr_calc_value: both operands are always calculated, the left one first;
\* w has the table and the values still to be used, the latest first.
Push(w, st, t) == [st |-> st, stack |-> <<t>> \o w.stack]
PushValue(w, st, s) == Push(w, st, st.curr[s])
PushEqual(w, st, s, t) == Push(w, st, IF StringTri(st, s) = t THEN yes ELSE no)
Join(op, l, r) == IF op = "and" THEN TriAnd(l, r) ELSE TriOr(l, r)
CalcOperation(V, w, o) ==
    CASE o[1] = "const" -> Push(w, w.st, o[2])
      [] o[1] = "sym" -> PushValue(w, V[<<w.st, o[2]>>], o[2])
      [] o[1] = "equal" -> PushEqual(w, V[<<w.st, o[2]>>], o[2], o[3])
      [] o[1] = "not" -> [w EXCEPT !.stack[1] = yes - @]
      [] OTHER -> [w EXCEPT !.stack = <<Join(o[1], @[2], @[1])>> \o SubSeq(@, 3, Len(@))]
Result(w) == [st |-> w.st, tri |-> Head(w.stack)]

CalcExpr(V, st, e) ==
    Result(FoldLeft(LAMBDA w, o : CalcOperation(V, w, o), [st |-> st, stack |-> <<>>], e))

StoreVisible(p, s) ==
    [p.st EXCEPT !.vis[s] =
        IF p.tri = mod /\ (Decl[s].type # "tristate" \/ p.st.mods = no)
        THEN yes ELSE p.tri]
StoreDirDep(d, s) == [d.st EXCEPT !.dir[s] = IF d.tri = no THEN no ELSE yes]
StoreRevDep(r, s) == [r.st EXCEPT !.rev[s] = Promote(r.st, s, r.tri)]
CalcDirDep(V, st, s) ==
    IF s \in ChoiceSyms THEN [st |-> st, tri |-> yes] ELSE CalcExpr(V, st, BaseDep[s])
CalcDeps(V, st, s) ==
    IF IsChoiceValue(s) THEN st
    ELSE StoreRevDep(CalcExpr(V, StoreDirDep(CalcDirDep(V, st, s), s), RevDep[s]), s)

CalcVisibility(V, st, s) ==
    CalcDeps(V, StoreVisible(CalcExpr(V, st, PromptExpr[s]), s), s)

\* sym_get_default_prop: the first default whose condition is not n; i is 0
\* when there is none.
Indices(seq) == [i \in DOMAIN seq |-> i]
Try(r, i) == [st |-> r.st, i |-> IF r.tri = no THEN 0 ELSE i, tri |-> r.tri]
DefaultProp(V, st, s) ==
    FoldLeft(LAMBDA d, i : IF d.i # 0 THEN d ELSE Try(CalcExpr(V, d.st, DefaultExpr(s, i)), i),
             [st |-> st, i |-> 0, tri |-> no], Indices(Decl[s].defaults))

\* sym_choice_default: the first default with a visible value; without one, the
\* first visible value.
FirstVisible(st, c) ==
    LET seen == SelectSeq(Decl[c].members, LAMBDA m : st.vis[m] # no)
    IN  IF seen = <<>> THEN NoSym ELSE Head(seen)
TryMember(r, m) ==
    [st |-> r.st, sym |-> IF r.tri # no /\ r.st.vis[m] # no THEN m ELSE NoSym]
OrFirst(d, c) == IF d.sym # NoSym THEN d ELSE [d EXCEPT !.sym = FirstVisible(d.st, c)]
ChoiceDefault(V, st, c) ==
    OrFirst(FoldLeft(LAMBDA d, i : IF d.sym # NoSym THEN d
                                   ELSE TryMember(CalcExpr(V, d.st, DefaultExpr(c, i)),
                                                  Decl[c].defaults[i].val[1][2]),
                     [st |-> st, sym |-> NoSym], Indices(Decl[c].defaults)), c)

\* sym_calc_choice: the user's value if it is visible, otherwise the default.
\* A visible value the user has not seen yet makes the choice new again.
ForgetIfNew(st, c) ==
    [st EXCEPT !.has[c] =
        @ /\ \A m \in ToSet(Decl[c].members) : st.vis[m] # no => st.has[m]]
Select(d, c) ==
    IF d.sym = NoSym THEN [d.st EXCEPT !.curr[c] = no] ELSE [d.st EXCEPT !.sel[c] = d.sym]
PickOrDefault(V, st, c) ==
    IF st.pick[c] # NoSym /\ st.vis[st.pick[c]] # no
    THEN [st EXCEPT !.sel[c] = st.pick[c]]
    ELSE Select(ChoiceDefault(V, st, c), c)
CalcMembers(V, st, c) ==
    FoldLeft(LAMBDA t, m : CalcVisibility(V, t, m), st, Decl[c].members)

CalcChoice(V, st, c) == PickOrDefault(V, ForgetIfNew(CalcMembers(V, st, c), c), c)

\* The switch of sym_calc_value on a boolean or tristate symbol: the value the
\* choice gives, the user's value, or the default.
UserValueUnselected(st, s) ==
    [st |-> [st EXCEPT !.write[s] = TRUE], tri |-> TriAnd(st.user[s], st.vis[s])]
UserValue(st, s) ==
    [st |-> [st EXCEPT !.write[s] = TRUE],
     tri |-> TriOr(TriAnd(st.user[s], st.vis[s]), st.rev[s])]

WriteIfSeen(st, s) == [st EXCEPT !.write[s] = @ \/ st.vis[s] # no \/ st.rev[s] # no]
Limit(v, s, tri) == [v EXCEPT !.tri = TriOr(TriAnd(@, tri), v.st.rev[s])]
DefaultValue(V, d, s) ==
    IF d.i = 0 THEN [st |-> d.st, tri |-> d.st.rev[s]]
    ELSE Limit(CalcExpr(V, [d.st EXCEPT !.write[s] = TRUE], Decl[s].defaults[d.i].val),
               s, d.tri)

NewValue(V, st, s) ==
    IF IsChoiceValue(s) /\ st.vis[s] = yes
    THEN [st |-> st, tri |-> IF st.sel[ChoiceOf[s]] = s THEN yes ELSE no]
    ELSE IF st.vis[s] # no /\ st.has[s] THEN UserValue(st, s)
    ELSE IF s \in ChoiceSyms THEN [st |-> WriteIfSeen(st, s), tri |-> st.rev[s]]
    ELSE DefaultValue(V, DefaultProp(V, WriteIfSeen(st, s), s), s)

\* set_all_choice_values
SetAllChoiceValues(st, c) ==
    [st EXCEPT !.user = [s \in Symbols |->
                            IF ChoiceOf[s] = c /\ ~ st.has[s] THEN no ELSE @[s]],
               !.has[c] = TRUE, !.valid[c] = FALSE, !.need[c] = FALSE]

\* sym_calc_value, from its beginning to its end.
AskChoice(V, st, s) ==
    IF IsChoiceValue(s) /\ st.need[s]
    THEN V[<<[st EXCEPT !.need[s] = FALSE], ChoiceOf[s]>>] ELSE st
Begin(st, s) == [st EXCEPT !.valid[s] = TRUE, !.write[s] = @ /\ IsChoiceValue(s)]
Reset(st, s) ==
    [st EXCEPT !.curr[s] = no,
               !.sel = IF s \in ChoiceSyms THEN [@ EXCEPT ![s] = NoSym] ELSE @]
StoreValue(r, s) ==
    [r.st EXCEPT !.curr[s] = Promote(r.st, s, r.tri),
                 !.mods = IF s = ModulesSym THEN Promote(r.st, s, r.tri) ELSE @]
ChooseValue(V, st, s) ==
    IF s \in ChoiceSyms /\ st.curr[s] = yes THEN CalcChoice(V, st, s) ELSE st
WriteMembers(st, c) ==
    IF c \in ChoiceSyms /\ st.write[c]
    THEN [st EXCEPT !.write = [m \in Symbols |->
                                  @[m] \/ (ChoiceOf[m] = c /\ st.vis[m] # no)]]
    ELSE st
Settle(st, s) == IF st.need[s] THEN SetAllChoiceValues(st, s) ELSE st

Look(V, st, s) == Reset(CalcVisibility(V, Begin(AskChoice(V, st, s), s), s), s)
Finish(V, st, s) == Settle(WriteMembers(ChooseValue(V, st, s), s), s)

Calculated[x \in Tables \X Symbols] ==
    LET st == x[1]
        s  == x[2]
    IN  IF st.valid[s] THEN st
        ELSE Finish(Calculated,
                    StoreValue(NewValue(Calculated, Look(Calculated, st, s), s), s), s)

CalcValue(st, s) == Calculated[<<st, s>>]

CalcAll(st) == FoldLeft(CalcValue, st, MenuOrder)

\* sym_clear_all_valid
CalcModules(st) == IF ModulesSym = NoSym THEN st ELSE CalcValue(st, ModulesSym)
ClearAllValid(st) == CalcModules([st EXCEPT !.valid = All(FALSE), !.changed = TRUE])

------------------------------------------------------------------------------
(* What the user interfaces call *)

\* menu_is_visible: a symbol without a visible prompt is shown for the sake of
\* an entry below it, and then counts as set by the user.
ShownForBelow(w, s) == IF w.shown THEN [w EXCEPT !.st.has[s] = TRUE] ELSE w
Shown(V, st, s) ==
    IF st.vis[s] # no THEN [st |-> st, shown |-> TRUE]
    ELSE IF st.curr[s] = no THEN [st |-> st, shown |-> FALSE]
    ELSE ShownForBelow(FoldLeft(LAMBDA w, m : IF w.shown THEN w ELSE V[<<w.st, m>>],
                                [st |-> st, shown |-> FALSE], Decl[s].submenu), s)
MenuVisible[x \in Tables \X Symbols] ==
    IF Decl[x[2]].prompt = Const(no) THEN [st |-> x[1], shown |-> FALSE]
    ELSE Shown(MenuVisible, CalcValue(x[1], x[2]), x[2])
MenuIsVisible(st, s) == MenuVisible[<<st, s>>]

\* sym_is_changable
Changable(st, s) == st.vis[s] > st.rev[s]

\* sym_tristate_within_range
TristateWithinRange(st, s, v) ==
    /\ st.vis[s] # no
    /\ ~ (SymGetType(st, s) = "bool" /\ v = mod)
    /\ Changable(st, s)
    /\ IF IsChoiceValue(s) /\ st.vis[s] = yes THEN v = yes
       ELSE st.rev[s] <= v /\ v <= st.vis[s]

\* sym_set_tristate_value accepts v for s.
MaySet(st, s, v) == st.curr[s] = v \/ TristateWithinRange(st, s, v)

\* The table after sym_set_tristate_value has accepted v for s: setting a
\* choice value also makes the choice and its other values old.
PickValue(st, s) ==
    LET c == ChoiceOf[s]
    IN  [st EXCEPT !.pick[c] = s,
                   !.has = [m \in Symbols |->
                       @[m] \/ m = c \/ m = s \/ (ChoiceOf[m] = c /\ st.vis[m] # no)]]
SetUserOnly(st, s, v) == [st EXCEPT !.user[s] = v, !.has[s] = TRUE]
SetUser(st, s, v) ==
    [(IF IsChoiceValue(s) /\ v = yes THEN PickValue(st, s) ELSE st)
        EXCEPT !.user[s] = v, !.has[s] = TRUE]
SetTristateValue(st, s, v) ==
    IF st.curr[s] # v THEN ClearAllValid(SetUser(st, s, v)) ELSE SetUser(st, s, v)
==============================================================================
