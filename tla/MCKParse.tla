------------------------------ MODULE MCKParse ------------------------------
(***************************************************************************)
(* Expressions and menu trees for KRewrite and KTree: a behaviour rewrites *)
(* one expression, or finalizes one tree.                                  *)
(***************************************************************************)
EXTENDS KTree

MCType == [A |-> "bool", B |-> "bool", T |-> "tristate", C |-> "tristate"]

\* Two tristates T and C give every join of expr.c; A is a boolean.
TestsOf(S) == {<<r, s, c>> : r \in Relations, s \in S, c \in Consts}
Leaves == {Sym("A"), Sym("T"), Y, N, Sym("m")} \cup TestsOf({"T"})
Few == {Sym("A"), Sym("T"), Not(Sym("T")), Sym("C"), <<"eq", "T", "m">>}
TC == {Sym("T"), Not(Sym("T")), Sym("C"), Not(Sym("C"))}
Pairs(S, R) == {<<op, <<x, y>>>> : op \in Joins, x \in S, y \in R}
Nests == {<<op, <<<<Other(op), <<a, b>>>>, x>>>> : op \in Joins, a \in TC, b \in TC,
             x \in Pairs({Sym("T"), Not(Sym("T"))}, {Sym("C"), Not(Sym("C"))})}
Selections == {<<"or", <<<<"and", <<Sym("A"), x>>>>, <<"and", <<Sym("T"), y>>>>>>>> :
                  x \in Few, y \in Few}
MCExprs == Leaves \cup {Not(x) : x \in Leaves} \cup TestsOf({"A"})
    \cup Pairs(Leaves, Leaves) \cup Nests \cup Selections
MCPartners == {Sym("A"), Not(Sym("T"))} \cup Pairs({Sym("A"), Sym("T")}, {Sym("C")})

Entry(kind, sym, dep, prompt, list) ==
    [kind |-> kind, sym |-> sym, dep |-> dep, prompt |-> prompt, visible |-> NoExpr,
     defaults |-> <<>>, selects |-> <<>>, optional |-> kind # "choice", list |-> list]
Config(sym, deps, prompts) ==
    {Entry("config", sym, d, p, <<>>) : d \in deps, p \in prompts}
Root(list) == Entry("menu", NoSym, NoExpr, NoExpr, list)

\* A file has A, then B, which selects T, then T, with these conditions, and a
\* menu, a choice or one or two ifs around the last two or around B.
Deps == {NoExpr, Sym("A"), Not(Sym("A")), <<"or", <<Sym("A"), Sym("C")>>>>, <<"ne", "C", "n">>}
As == Config("A", {NoExpr}, {NoPrompt, NoExpr, Sym("C")})
Bs == {[b EXCEPT !.selects = <<[sym |-> "T", cond |-> Sym("C")]>>] :
          b \in Config("B", Deps, {NoPrompt, NoExpr})}
Ts == Config("T", Deps, {NoExpr, Sym("C")})
If(dep, list) == Entry("if", NoSym, dep, NoPrompt, list)
Menu(list) == [Entry("menu", NoSym, NoExpr, Sym("C"), list) EXCEPT !.visible = Sym("m")]
Around(list) ==
    {If(Sym("A"), list), Menu(list), Menu(<<If(Not(Sym("A")), list)>>),
     Entry("choice", "C", NoExpr, Sym("A"), list)}
MCTrees ==
    UNION {{Root(<<a, b, t>>)} \cup {Root(<<a, w, t>>) : w \in Around(<<b>>)}
                               \cup {Root(<<a, w>>) : w \in Around(<<b, t>>)} :
              a \in As, b \in Bs, t \in Ts}

Init == \/ RewriteInit /\ source = NoTree /\ tree = NoTree
        \/ TreeInit /\ e = NoExpr
Next == \/ e # NoExpr /\ RewriteNext /\ UNCHANGED trees
        \/ TreeNext /\ UNCHANGED e
Spec == Init /\ [][Next]_<<e, trees>>
==============================================================================
