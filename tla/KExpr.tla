-------------------------------- MODULE KExpr --------------------------------
(***************************************************************************)
(* support/kconfig/expr.c: the rewriting of dependency expressions.        *)
(*                                                                         *)
(* An expression is <<"sym", s>>, <<"eq", s, r>>, <<"ne", s, r>>,          *)
(* <<"not", e>>, <<"and", es>> or <<"or", es>>; "y", "m" and "n" are the   *)
(* constant symbols, NoExpr the null pointer.  How like operators are      *)
(* nested is left out: es has the operands of a whole chain, left to       *)
(* right, the order in which the recursive functions of expr.c meet them.  *)
(*                                                                         *)
(* Operators that no other definition uses are the one after them with a   *)
(* plausible mistake.                                                      *)
(***************************************************************************)
EXTENDS Naturals, Sequences, SequencesExt

CONSTANT Type      \* Type[s]: "bool" or "tristate", for every symbol

Consts == {"y", "m", "n"}
Joins == {"and", "or"}
Relations == {"eq", "ne"}
NoExpr == <<"null">>

Sym(s) == <<"sym", s>>
Not(e) == <<"not", e>>
Y == Sym("y")
N == Sym("n")

Other(op) == CHOOSE p \in Joins : p # op
Opposite(rel) == CHOOSE r \in Relations : r # rel
Neutral(op) == IF op = "and" THEN Y ELSE N
Absorbing(op) == IF op = "and" THEN N ELSE Y

\* The operands of e when it is taken for a chain of op.
Pieces(op, e) == IF e[1] = op THEN e[2] ELSE <<e>>
Chain(op, es) ==
    IF Len(es) = 1 THEN es[1]
    ELSE <<op, FlattenSeq([i \in DOMAIN es |-> Pieces(op, es[i])])>>

\* expr_alloc_and and expr_alloc_or
Alloc(op, e, f) ==
    IF e = NoExpr THEN f ELSE IF f = NoExpr THEN e ELSE Chain(op, <<e, f>>)

\* The order in which two nested recursions visit m times n operands.
Grid(m, n) == [k \in 1..(m * n) |-> <<((k - 1) \div n) + 1, ((k - 1) % n) + 1>>]

------------------------------------------------------------------------------
(* Equality *)

\* expr_eliminate_yn
Reduced(op, es) ==
    LET rest == SelectSeq(es, LAMBDA x : x # Neutral(op))
    IN  IF Contains(es, Absorbing(op)) THEN Absorbing(op)
        ELSE IF rest = <<>> THEN Neutral(op)
        ELSE Chain(op, rest)
RECURSIVE EliminateYN(_)
EliminateYN(e) ==
    IF e[1] \notin Joins THEN e
    ELSE Reduced(e[1], [i \in DOMAIN e[2] |-> EliminateYN(e[2][i])])

RECURSIVE Eq(_, _)

\* __expr_eliminate_eq: operands of two chains that are equal cancel out.
CancelSwapped(op, w, ij) ==
    LET a == w.a[ij[1]]
        b == w.b[ij[2]]
    IN  IF (a = b /\ a \in {Y, N}) \/ ~ Eq(a, b) THEN w
        ELSE [w EXCEPT !.a[ij[1]] = Absorbing(op), !.b[ij[2]] = Absorbing(op)]
Cancel(op, w, ij) ==
    LET a == w.a[ij[1]]
        b == w.b[ij[2]]
    IN  IF (a = b /\ a \in {Y, N}) \/ ~ Eq(a, b) THEN w
        ELSE [w EXCEPT !.a[ij[1]] = Neutral(op), !.b[ij[2]] = Neutral(op)]
Chains(op, w) == <<Chain(op, w.a), Chain(op, w.b)>>
EliminateEqIn(op, e, f) ==
    LET as == Pieces(op, e)
        bs == Pieces(op, f)
    IN  Chains(op, FoldLeft(LAMBDA x, ij : Cancel(op, x, ij), [a |-> as, b |-> bs],
                            Grid(Len(as), Len(bs))))

\* expr_eliminate_eq, first with the operator of e, then with that of f.
EliminateByLeft(p) ==
    IF p[1][1] \in Joins THEN EliminateEqIn(p[1][1], p[1], p[2]) ELSE p
EliminateByRight(p) ==
    IF p[1][1] # p[2][1] /\ p[2][1] \in Joins THEN EliminateEqIn(p[2][1], p[1], p[2]) ELSE p
BothYN(p) == <<EliminateYN(p[1]), EliminateYN(p[2])>>
EliminateEq(e, f) == BothYN(EliminateByRight(EliminateByLeft(<<e, f>>)))

\* expr_eq: two chains are equal when nothing but one symbol is left of them.
SameSymbol(p) == p[1] = p[2] /\ p[1][1] = "sym"
Eq(e, f) ==
    /\ e[1] = f[1]
    /\ CASE e[1] \in Joins -> SameSymbol(EliminateEq(e, f))
         [] e[1] = "not" -> Eq(e[2], f[2])
         [] OTHER -> e = f

------------------------------------------------------------------------------
(* Transformations *)

\* expr_trans_bool
RECURSIVE TransBool(_)
TransBool(e) ==
    CASE e[1] \in Joins -> <<e[1], [i \in DOMAIN e[2] |-> TransBool(e[2][i])]>>
      [] e[1] = "not" -> Not(TransBool(e[2]))
      [] e[1] = "ne" /\ e[2] \notin Consts /\ e[3] = "n" ->
            IF Type[e[2]] = "tristate" THEN Sym(e[2]) ELSE e
      [] OTHER -> e

\* expr_transform, on a node whose operands have been transformed.
TransformRelation(e) ==
    IF e[2] \in Consts \/ e[3] \notin Consts THEN e
    ELSE IF Type[e[2]] # "bool" THEN e
    ELSE CASE e[3] = "m" -> IF e[1] = "eq" THEN N ELSE Y
           [] (e[1] = "eq") = (e[3] = "y") -> Sym(e[2])
           [] OTHER -> Not(Sym(e[2]))

RECURSIVE Transform(_)
TransformNot(e) ==
    LET c == e[2]
    IN  CASE c[1] = "not" -> Transform(c[2])
          [] c[1] \in Relations -> <<Opposite(c[1]), c[2], c[3]>>
          [] c[1] \in Joins ->
                Transform(<<Other(c[1]), [i \in DOMAIN c[2] |-> Not(c[2][i])]>>)
          [] c = Y -> N
          [] c = N -> Y
          [] c = Sym("m") -> c
          [] OTHER -> e
Transform(e) ==
    CASE e[1] \in Joins -> Chain(e[1], [i \in DOMAIN e[2] |-> Transform(e[2][i])])
      [] e[1] = "not" -> TransformNot(Not(Transform(e[2])))
      [] e[1] \in Relations -> TransformRelation(e)
      [] OTHER -> e

------------------------------------------------------------------------------
(* Duplicates *)

\* What expr_join_or and expr_join_and need of their operands: both simple and
\* about the same symbol, which is returned; "y" when there is nothing to join.
Subject(e, below) ==
    CASE e[1] \in Relations \cup {"sym"} -> e[2]
      [] e[1] = "not" -> IF e[2][1] \in below THEN e[2][2] ELSE "y"
      [] OTHER -> "y"
Common(e, f) ==
    LET s == Subject(e, Relations \cup {"sym"})
    IN  IF s = Subject(f, {"sym"}) /\ s \notin Consts THEN s ELSE "y"

\* The third constant, of three.
Third(a, b) == CHOOSE c \in Consts : c \notin {a, b}
Ends(e, f, rel) == {e[1], f[1]} = {rel} /\ {e[3], f[3]} \subseteq Consts
Either(e, f, a, b) == <<e, f>> \in {<<a, b>>, <<b, a>>}

\* expr_join_or: e || f as one simple expression, NoExpr if there is none.
JoinOr(e, f) ==
    LET s == Common(e, f)
    IN  CASE Eq(e, f) -> e
          [] s = "y" -> NoExpr
          [] Type[s] = "tristate" /\ Ends(e, f, "eq") -> <<"ne", s, Third(e[3], f[3])>>
          [] Type[s] = "bool" /\ Either(e, f, Sym(s), Not(Sym(s))) -> Y
          [] OTHER -> NoExpr

\* (a='b') && (a!='c'), the wrong way round.
JoinEqNeSwapped(s, e, f) == IF e[3] # f[3] THEN N ELSE <<"eq", s, e[3]>>
JoinEqNe(s, e, f) == IF e[3] # f[3] THEN <<"eq", s, e[3]>> ELSE N

\* expr_join_and
JoinAnd(e, f) ==
    LET s == Common(e, f)
        bare == Sym(s)
    IN  CASE Eq(e, f) -> e
          [] s = "y" -> NoExpr
          [] Either(e, f, bare, <<"eq", s, "y">>) -> <<"eq", s, "y">>
          [] Either(e, f, bare, <<"ne", s, "n">>) -> bare
          [] Either(e, f, bare, <<"ne", s, "m">>) -> <<"eq", s, "y">>
          [] Type[s] = "tristate" /\ {e[1], f[1]} = Relations
                /\ {e[3], f[3]} \subseteq Consts ->
                IF e[1] = "eq" THEN JoinEqNe(s, e, f) ELSE JoinEqNe(s, f, e)
          [] Type[s] = "tristate" /\ Ends(e, f, "ne") -> <<"eq", s, Third(e[3], f[3])>>
          [] OTHER -> NoExpr
JoinPair(op, e, f) == IF op = "and" THEN JoinAnd(e, f) ELSE JoinOr(e, f)

\* expr_eliminate_dups1: every operand is joined with every other one; w has
\* the operands and the number of changes, trans_count.
RECURSIVE Dups1(_, _)
WithInner(w, i, op, r) == [es |-> [w.es EXCEPT ![i] = <<op, r.es>>], count |-> w.count + r.count]
Inner1(w, i) ==
    IF w.es[i][1] \notin Joins THEN w
    ELSE WithInner(w, i, w.es[i][1], Dups1(w.es[i][1], w.es[i][2]))
WithJoined(op, w, i, j, e) ==
    IF e = NoExpr THEN w
    ELSE [es |-> [w.es EXCEPT ![i] = Neutral(op), ![j] = e], count |-> w.count + 1]
Joined(op, w, i, j) == WithJoined(op, w, i, j, JoinPair(op, w.es[i], w.es[j]))
Dups1(op, es) ==
    FoldLeft(LAMBDA w, ij : IF ij[1] = ij[2] THEN w
                            ELSE Joined(op, Inner1(w, ij[1]), ij[1], ij[2]),
             [es |-> es, count |-> 0], Grid(Len(es), Len(es)))

\* expr_extract_eq_and and expr_extract_eq_or: what is left of e when the
\* operands it has in common with f are taken out.
Extract(op, w, ij) ==
    IF Eq(w.a[ij[1]], w.b[ij[2]])
    THEN [a |-> [w.a EXCEPT ![ij[1]] = Neutral(op)],
          b |-> [w.b EXCEPT ![ij[2]] = Neutral(op)], found |-> TRUE]
    ELSE w
RestOf(op, e, w) == IF w.found THEN EliminateYN(Chain(op, w.a)) ELSE e
ExtractEq(op, e, f) ==
    LET as == Pieces(op, e)
        bs == Pieces(op, f)
    IN  RestOf(op, e, FoldLeft(LAMBDA w, ij : Extract(op, w, ij),
                               [a |-> as, b |-> bs, found |-> FALSE],
                               Grid(Len(as), Len(bs))))

\* expr_eliminate_dups2: an operand whose negation consists of other operands
\* decides the whole chain.  It is compared with each operand and, as number 0,
\* with the whole.
RECURSIVE Dups2(_, _)
Inner2(w, i) ==
    IF w.es[i][1] \notin Joins THEN w
    ELSE WithInner(w, i, w.es[i][1], Dups2(w.es[i][1], w.es[i][2]))
Contradicts(op, w, i, j) ==
    /\ w.es[i][1] \in Joins
    /\ ExtractEq(op, Transform(Not(w.es[i])),
                 IF j = 0 THEN <<op, w.es>> ELSE w.es[j]) = Neutral(op)
Decide(op, w, i, j) ==
    IF ~ Contradicts(op, w, i, j) THEN w
    ELSE [es |-> [w.es EXCEPT ![i] = Absorbing(op)], count |-> w.count + 1]
Dups2(op, es) ==
    LET n == Len(es)
    IN  FoldLeft(LAMBDA w, ij : IF ij[1] = ij[2] THEN w
                                ELSE Decide(op, Inner2(w, ij[1]), ij[1], ij[2] % (n + 1)),
                 [es |-> es, count |-> 0], Grid(n, n + 1))

\* expr_eliminate_dups
RECURSIVE EliminateDups(_)
Again(op, w) == IF w.count = 0 THEN <<op, w.es>> ELSE EliminateDups(EliminateYN(<<op, w.es>>))
BothDups(op, d) == [Dups2(op, d.es) EXCEPT !.count = @ + d.count]
EliminateDups(e) ==
    IF e[1] \notin Joins THEN e ELSE Again(e[1], BothDups(e[1], Dups1(e[1], e[2])))

------------------------------------------------------------------------------
(* Questions about expressions *)

\* expr_trans_compare: e = c or e != c, for a constant c.
CompareRelation(e, rel, c) ==
    CASE c = "m" -> IF rel = "eq" THEN N ELSE Y
      [] (rel = "eq") = (c = "y") -> e
      [] OTHER -> Not(e)
RECURSIVE TransCompare(_, _, _)
CompareJoin(e, c) ==
    LET op == IF c = "y" THEN e[1] ELSE Other(e[1])
    IN  IF c = "m" THEN e
        ELSE Chain(op, [i \in DOMAIN e[2] |-> TransCompare(e[2][i], "eq", c)])
Negated(rel, e) == IF rel = "ne" THEN Not(e) ELSE e
TransCompare(e, rel, c) ==
    CASE e = NoExpr -> Negated(rel, Sym(c))
      [] e[1] \in Joins -> Negated(rel, CompareJoin(e, c))
      [] e[1] = "not" -> TransCompare(e[2], Opposite(rel), c)
      [] e[1] \in Relations -> CompareRelation(e, rel, c)
      [] OTHER -> <<rel, e[2], c>>

\* expr_contains_symbol
RECURSIVE ContainsSymbol(_, _)
ContainsSymbol(e, s) ==
    CASE e[1] \in Joins -> \E i \in DOMAIN e[2] : ContainsSymbol(e[2][i], s)
      [] e[1] = "not" -> ContainsSymbol(e[2], s)
      [] e[1] \in Relations -> s \in {e[2], e[3]}
      [] OTHER -> e = Sym(s)

\* expr_depends_symbol, which does not look into a disjunction.
RECURSIVE DependsSymbolAnywhere(_, _)
DependsSymbolAnywhere(e, s) ==
    \/ e[1] \in Joins /\ \E i \in DOMAIN e[2] : DependsSymbolAnywhere(e[2][i], s)
    \/ e \in {Sym(s), <<"eq", s, "y">>, <<"eq", s, "m">>, <<"ne", s, "n">>}
RECURSIVE DependsSymbol(_, _)
DependsSymbol(e, s) ==
    \/ e[1] = "and" /\ \E i \in DOMAIN e[2] : DependsSymbol(e[2][i], s)
    \/ e \in {Sym(s), <<"eq", s, "y">>, <<"eq", s, "m">>, <<"ne", s, "n">>}

\* expr_get_leftmost_symbol; it takes the symbol of a relation for an
\* expression, which has no defined outcome.
Undefined == <<"undefined">>
RECURSIVE Leftmost(_)
Leftmost(e) ==
    CASE e = NoExpr \/ e[1] = "sym" -> e
      [] e[1] \in Joins -> Leftmost(e[2][1])
      [] e[1] = "not" -> Leftmost(e[2])
      [] OTHER -> Undefined

\* expr_simplify_unmet_dep: of the selecting expressions e, those that do not
\* imply the dependency d.
RECURSIVE SimplifyUnmetDep(_, _)
UnmetDisjuncts(e, d) ==
    FoldLeft(LAMBDA f, x : Alloc("and", f, SimplifyUnmetDep(x, d)), NoExpr, e[2])
Unmet(e, d) ==
    IF Eq(EliminateDups(Alloc("and", e, d)), e) THEN NoExpr ELSE Leftmost(e)
SimplifyUnmetDep(e, d) ==
    CASE e[1] = "or" -> UnmetDisjuncts(e, d)
      [] e[1] = "and" -> Unmet(e, d)
      [] OTHER -> Leftmost(e)

\* expr_print, as a sequence of tokens; a parenthesis where expr_compare_type
\* says that the operator around e binds tighter.
Rank(op) == CASE op = "not" -> 3 [] op = "and" -> 2 [] op = "or" -> 1 [] OTHER -> 4
RECURSIVE PrintTokens(_, _)
PrintBare(e) ==
    CASE e = NoExpr -> <<"y">>
      [] e[1] = "sym" -> <<e[2]>>
      [] e[1] \in Relations -> <<e[2], e[1], e[3]>>
      [] e[1] = "not" -> <<"!">> \o PrintTokens(e[2], "not")
      [] OTHER -> FlattenSeq([i \in DOMAIN e[2] |->
                     (IF i = 1 THEN <<>> ELSE <<e[1]>>) \o PrintTokens(e[2][i], e[1])])
PrintTokens(e, around) ==
    IF around # "none" /\ e[1] \in Joins /\ Rank(around) > Rank(e[1])
    THEN <<"(">> \o PrintBare(e) \o <<")">> ELSE PrintBare(e)

------------------------------------------------------------------------------
(* The functions of expr.c as values, for modules that evaluate them often. *)
TransformOf == [e \in Any |-> Transform(e)]
EliminateYNOf == [e \in Any |-> EliminateYN(e)]
EliminateDupsOf == [e \in Any |-> EliminateDups(e)]
TransBoolOf == [e \in Any |-> TransBool(e)]
TransCompareOf == [q \in Any |-> TransCompare(q[1], q[2], q[3])]
EqOf == [q \in Any |-> Eq(q[1], q[2])]
ContainsSymbolOf == [q \in Any |-> ContainsSymbol(q[1], q[2])]
DependsSymbolOf == [q \in Any |-> DependsSymbol(q[1], q[2])]
SimplifyUnmetDepOf == [q \in Any |-> SimplifyUnmetDep(q[1], q[2])]
PrintOf == [e \in Any |-> PrintTokens(e, "none")]
==============================================================================
