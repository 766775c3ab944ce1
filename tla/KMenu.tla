-------------------------------- MODULE KMenu --------------------------------
(***************************************************************************)
(* support/kconfig/menu.c: menu_finalize, which turns the menus as they    *)
(* are written in Config.in into those that are shown: dependencies go     *)
(* down the tree, entries that depend on the symbol before them become its *)
(* submenu, and what is below an entry without a prompt moves up.          *)
(*                                                                         *)
(* A menu is a record                                                      *)
(*   kind      "config", "choice", "menu", "if" or "comment"               *)
(*   sym       its symbol, NoSym for the last three                        *)
(*   dep       its `depends on', NoExpr without one                        *)
(*   prompt    the condition of its prompt, NoPrompt without a prompt      *)
(*   visible   its `visible if', NoExpr without one                        *)
(*   defaults  the conditions of its defaults                              *)
(*   selects   its selects, [sym, cond]                                    *)
(*   optional  SYMBOL_OPTIONAL                                             *)
(*   list      the menus below it                                          *)
(***************************************************************************)
EXTENDS KExpr

CONSTANTS NoSym,
          ModulesName   \* the symbol with `option modules'
NoPrompt == <<"none">>

And(e, f) == Alloc("and", e, f)

------------------------------------------------------------------------------
(* What the parser makes of an entry *)

\* menu_check_dep: m asks for modules as well.
RECURSIVE CheckDep(_)
CheckDep(e) ==
    CASE e[1] \in Joins -> Chain(e[1], [i \in DOMAIN e[2] |-> CheckDep(e[2][i])])
      [] e[1] = "not" -> Not(CheckDep(e[2]))
      [] e = Sym("m") -> And(e, Sym(ModulesName))
      [] OTHER -> e

\* menu_add_prop: the prompt of a symbol also needs every `visible if' above it,
\* the nearest one first.
AddPrompt(above, m) ==
    IF m.prompt = NoPrompt \/ m.sym = NoSym THEN CheckDep(m.prompt)
    ELSE FoldRight(LAMBDA a, e : And(e, a.visible), above, CheckDep(m.prompt))

\* menu_add_dep, menu_add_prop and menu_add_visibility on all entries.
RECURSIVE Parsed(_, _)
Parsed(above, m) ==
    [m EXCEPT !.dep = CheckDep(@),
              !.prompt = AddPrompt(above, m),
              !.defaults = [i \in DOMAIN @ |-> CheckDep(@[i])],
              !.selects = [i \in DOMAIN @ |-> [@[i] EXCEPT !.cond = CheckDep(@)]],
              !.list = [i \in DOMAIN @ |-> Parsed(Append(above, m), @[i])]]

------------------------------------------------------------------------------
(* Dependencies go down *)

\* parentdep
Gate(m) ==
    CASE m.kind = "choice" -> Sym(m.sym)
      [] m.prompt # NoPrompt -> m.prompt
      [] OTHER -> m.dep

Limited(gate, e) == EliminateDups(And(gate, Transform(e)))

\* One pass of the first loop over parent->list.
Propagate(gate, m) ==
    LET base == Limited(gate, m.dep)
        Vis(e) == LET d == Limited(base, e)
                  IN  IF m.sym # NoSym /\ Type[m.sym] # "tristate" THEN TransBool(d) ELSE d
    IN  [m EXCEPT !.dep = base,
                  !.prompt = IF @ = NoPrompt THEN @ ELSE Vis(@),
                  !.defaults = [i \in DOMAIN @ |-> Vis(@[i])],
                  !.selects = [i \in DOMAIN @ |-> [@[i] EXCEPT !.cond = Vis(@)]]]

------------------------------------------------------------------------------
(* Entries move *)

\* When the expression e is not n.
IsOn(e) == EliminateDups(Transform(TransCompare(e, "ne", "n")))

\* The entry x, after the entry m, goes below m: it depends on m, or is about m
\* and can only be visible when m is.
Belongs(m, x) ==
    LET dep == IF x.prompt # NoPrompt THEN x.prompt ELSE x.dep
        base == IF m.prompt # NoPrompt THEN m.prompt ELSE NoExpr
    IN  /\ ContainsSymbol(dep, m.sym)
        /\ DependsSymbol(dep, m.sym) \/ EliminateEq(IsOn(dep), IsOn(base))[2] = Y

\* An entry in a choice is one of its values; in a tristate choice a boolean
\* value also needs the choice to be y.
ChoiceValue(c, k) ==
    LET only == <<"eq", c.sym, "y">>
    IN  IF c.kind # "choice" \/ k.sym = NoSym \/ Type[c.sym] # "tristate"
           \/ Type[k.sym] = "tristate" THEN k
        ELSE [k EXCEPT !.dep = And(only, @),
                       !.prompt = IF @ = NoPrompt THEN @ ELSE And(only, @),
                       !.defaults = [i \in DOMAIN @ |-> And(only, @[i])]]

\* What is lifted comes after all the others.
RECURSIVE Lift(_, _)
LiftedToEnd(k, parent, after) ==
    <<[k EXCEPT !.list = <<>>]>> \o Lift(parent, after \o k.list)
Lifted(k, parent, after) ==
    <<[k EXCEPT !.list = <<>>]>> \o Lift(parent, k.list \o after)

\* The last loop: what is below an entry without a prompt comes after it.
Lift(parent, kids) ==
    IF kids = <<>> THEN <<>>
    ELSE LET k == ChoiceValue(parent, Head(kids))
         IN  IF k.list # <<>> /\ k.prompt = NoPrompt THEN Lifted(k, parent, Tail(kids))
             ELSE <<k>> \o Lift(parent, Tail(kids))

\* menu_finalize of m, after which come the entries `after': the entry that
\* becomes of m and the entries that are still after it.
RECURSIVE Finalize(_, _)
RECURSIVE FinalizeAll(_)
FinalizeAll(ms) ==
    IF ms = <<>> THEN <<>>
    ELSE LET r == Finalize(Head(ms), Tail(ms)) IN <<r.menu>> \o FinalizeAll(r.after)

\* The first following entry that does not belong ends the submenu.
RECURSIVE Submenu(_, _, _)
Submenu(m, below, after) ==
    IF after = <<>> \/ ~ Belongs(m, Head(after)) THEN [below |-> below, after |-> after]
    ELSE LET r == Finalize(Head(after), Tail(after))
         IN  Submenu(m, Append(below, r.menu), r.after)

Finalize(m, after) ==
    LET kids == FinalizeAll([i \in DOMAIN m.list |-> Propagate(Gate(m), m.list[i])])
        sub == IF m.sym # NoSym THEN Submenu(m, <<>>, after)
               ELSE [below |-> <<>>, after |-> after]
    IN  IF m.list # <<>>
        THEN [menu |-> [m EXCEPT !.list = Lift(m, kids)], after |-> after]
        ELSE [menu |-> [m EXCEPT !.list = Lift(m, sub.below)], after |-> sub.after]

\* conf_parse: the whole file, then menu_finalize(&rootmenu).
ConfParse(root) == Finalize(Parsed(<<>>, root), <<>>).menu
ConfParseOf == [root \in Any |-> ConfParse(root)]

------------------------------------------------------------------------------
(* What a finished tree says *)

\* The entries of a tree, each with the entries above it, top down.
RECURSIVE Paths(_, _)
Paths(above, m) ==
    <<[menu |-> m, above |-> above]>> \o
        FlattenSeq([i \in DOMAIN m.list |-> Paths(Append(above, m), m.list[i])])

\* rev_dep: from selects, and from the prompt of a symbol that is not optional.
RevDepAdd(e, m, s) ==
    FoldLeft(LAMBDA f, x : Alloc("or", f, And(Sym(m.sym), x.cond)), e,
             SelectSeq(m.selects, LAMBDA x : x.sym = s))
AtLeastMod(e, m, s) ==
    IF m.sym = s /\ ~ m.optional /\ m.prompt # NoPrompt
    THEN Alloc("or", e, And(m.prompt, Sym("m"))) ELSE e
RevDepOf(root, s) ==
    FoldLeft(LAMBDA e, p : AtLeastMod(RevDepAdd(e, p.menu, s), p.menu, s),
             NoExpr, Paths(<<>>, root))
==============================================================================
