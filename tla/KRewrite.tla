------------------------------ MODULE KRewrite ------------------------------
(***************************************************************************)
(* An expression on its way through expr.c: the functions menu_finalize    *)
(* and the front ends call on it, in any order.                            *)
(***************************************************************************)
EXTENDS KExpr

CONSTANTS Exprs,     \* the expressions the parser may have built
          Partners   \* expressions they are compared with

VARIABLE e

Names == DOMAIN Type
Valuations ==
    {v \in [Names \cup Consts -> 0..2] :
        /\ v["y"] = 2 /\ v["m"] = 1 /\ v["n"] = 0
        /\ \A s \in Names : Type[s] = "bool" => v[s] # 1}
Crisp == {v \in Valuations : \A s \in Names : v[s] # 1}

Least(S) == CHOOSE x \in S : \A y \in S : x <= y
Greatest(S) == CHOOSE x \in S : \A y \in S : x >= y

\* expr_calc_value of x when the symbols have the values v.
RECURSIVE Calc(_, _)
Calc(x, v) ==
    CASE x = NoExpr -> 2
      [] x[1] = "sym" -> v[x[2]]
      [] x[1] = "eq" -> IF v[x[2]] = v[x[3]] THEN 2 ELSE 0
      [] x[1] = "ne" -> IF v[x[2]] = v[x[3]] THEN 0 ELSE 2
      [] x[1] = "not" -> 2 - Calc(x[2], v)
      [] x[1] = "and" -> Least({Calc(x[2][i], v) : i \in DOMAIN x[2]})
      [] OTHER -> Greatest({Calc(x[2][i], v) : i \in DOMAIN x[2]})
CalcOf == [q \in Any |-> Calc(q[1], q[2])]
ValueOf(x, v) == CalcOf[x, v]

RewriteInit == e \in Exprs

CallTransform == e' = TransformOf[e]
CallEliminateYN == e' = EliminateYNOf[e]
CallEliminateDups == e' = EliminateDupsOf[e]
CallTransBool == e' = TransBoolOf[e]
CallTransCompare == e' = TransCompareOf[e, "ne", "n"]

RewriteNext ==
    \/ CallTransform \/ CallEliminateYN \/ CallEliminateDups \/ CallTransBool
    \/ CallTransCompare

------------------------------------------------------------------------------
(* Properties *)

Same(x, y, vs) == \A v \in vs : ValueOf(x, v) = ValueOf(y, v)

\* expr_transform and expr_eliminate_yn do not change what an expression means,
\* whatever values its symbols have, m included.
TransformKeepsValue ==
    [][CallTransform \/ CallEliminateYN => Same(e, e', Valuations)]_e

\* expr_eliminate_dups replaces a value that is y or n by no other one; m may
\* become y or n ("(FOO || BAR) && (!FOO && !BAR) -> n", which is m when FOO
\* and BAR are).  Visibilities and dependencies are calculated from what it
\* leaves.
DupsKeepDecidedValue ==
    [][CallEliminateDups =>
          \A v \in Valuations : ValueOf(e, v) # 1 => ValueOf(e', v) = ValueOf(e, v)]_e

\* As long as no symbol is m, a rewritten comparison is y when e has the value
\* it asks for and n when it has not.
CompareIsExact ==
    ~ ContainsSymbolOf[e, "m"] =>
        \A rel \in Relations, c \in {"y", "n"} :
            LET compared == TransCompareOf[e, rel, c]
            IN  \A v \in Crisp :
                   ValueOf(compared, v) = IF (ValueOf(e, v) = v[c]) = (rel = "eq") THEN 2 ELSE 0

\* expr_eq, by which joins and submenus are decided, takes two expressions for
\* equal only if they are, although it compares by cancelling operands.
EqIsSound == \A f \in Partners : EqOf[e, f] => Same(e, f, Valuations)

\* expr_depends_symbol: an entry is put below s because it can only be visible
\* when s is not n.  expr_contains_symbol: a symbol it does not find has no say.
DependsIsReal ==
    \A s \in Names :
        /\ DependsSymbolOf[e, s] =>
               \A v \in Valuations : v[s] = 0 => ValueOf(e, v) = 0
        /\ ~ ContainsSymbolOf[e, s] =>
               \A v \in Valuations : ValueOf(e, v) = ValueOf(e, [v EXCEPT ![s] = 0])

\* What is printed in a help text or a warning reads in one way only:
\* parentheses are left out only where precedence gives them back.
PrintIsUnambiguous ==
    \A f \in Partners :
        PrintOf[e] = PrintOf[f] => Same(e, f, Valuations)

\* rev_dep as menu_finalize builds it: who selects, and when.
Selector(x) == IF x[1] = "and" THEN x[2][1] ELSE x
IsRevDep(x) ==
    \A i \in DOMAIN Pieces("or", x) : Selector(Pieces("or", x)[i]) \in {Sym(s) : s \in Names}

\* The warning of sym_calc_value about a symbol whose dependency f is n although
\* its reverse dependency e is y: one of the symbols it names is on, and so
\* selects the other one against its dependency.
UnmetDepNamesCulprit ==
    IsRevDep(e) =>
        \A f \in Partners :
            LET w == SimplifyUnmetDepOf[e, f]
            IN  \A v \in Crisp :
                   ValueOf(e, v) = 2 /\ ValueOf(f, v) = 0 =>
                       \E s \in Names : v[s] = 2 /\ ContainsSymbolOf[w, s]

\* Rewriting an expression keeps its meaning as far as the callers in menu.c and
\* symbol.c rely on it. (expr_transform, expr_eliminate_yn, expr_eliminate_dups)
RewritingKeepsMeaning == TransformKeepsValue /\ DupsKeepDecidedValue

\* What the other operations of expr.c answer, make or print is right for every
\* expression that rewriting can leave. (expr_trans_compare, expr_eq,
\* expr_depends_symbol, expr_print, expr_simplify_unmet_dep)
ResultsAreExact ==
    /\ CompareIsExact
    /\ EqIsSound
    /\ DependsIsReal
    /\ PrintIsUnambiguous
    /\ UnmetDepNamesCulprit
==============================================================================
