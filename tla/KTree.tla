-------------------------------- MODULE KTree --------------------------------
(***************************************************************************)
(* What menu_finalize has to keep of a Config.in file: the entries and     *)
(* their order, the conditions under which they are visible, and that      *)
(* what is visible can be reached.                                         *)
(***************************************************************************)
EXTENDS KMenu, KRewrite

CONSTANTS Trees,      \* root menus as the parser leaves them
          NoTree

VARIABLES source,     \* the tree the parser built
          tree        \* the tree that is shown

trees == <<source, tree>>

TreeInit == source \in Trees /\ tree = NoTree

\* conf_parse calls menu_finalize once, when everything has been parsed.
TreeNext ==
    /\ tree = NoTree /\ source # NoTree
    /\ tree' = ConfParseOf[source]
    /\ UNCHANGED source

------------------------------------------------------------------------------
(* Properties *)

\* The dependency and the visibility an entry has by what Config.in says: its
\* own conditions and those of all that is around it; v has the values.  An m
\* needs modules, except in a `visible if', which menu_check_dep never sees.
Written(x, v) == ValueOf(x, [v EXCEPT !["m"] = Least({1, v[ModulesName]})])
RECURSIVE WrittenDep(_, _, _)
WrittenGate(above, v) ==
    LET a == Last(above)
        dep == WrittenDep(Front(above), a, v)
    IN  IF above = <<>> THEN 2
        ELSE IF a.kind = "choice" THEN v[a.sym]
        ELSE IF a.prompt = NoPrompt THEN dep
        ELSE Least({dep, Written(a.prompt, v)})
WrittenDep(above, m, v) ==
    IF above = <<>> THEN Written(m.dep, v)
    ELSE Least({WrittenGate(above, v), Written(m.dep, v)})
WrittenPrompt(above, m, v) ==
    Least({WrittenDep(above, m, v), Written(m.prompt, v)}
          \cup (IF m.sym = NoSym THEN {} ELSE {ValueOf(a.visible, v) : a \in ToSet(above)}))

\* A boolean takes m for y.
Seen(m, value) ==
    IF value = 1 /\ (m.sym = NoSym \/ Type[m.sym] = "bool") THEN 2 ELSE value

\* After menu_finalize an entry has the visibility that Config.in gives it by all
\* the entries around it, although the entries have moved and their conditions
\* have been rewritten; only a value of m may be decided differently.
VisibilityIsAsWritten ==
    tree # NoTree =>
        LET before == Paths(<<>>, source)
            after == Paths(<<>>, tree)
        IN  \A i \in DOMAIN before, v \in Valuations :
               LET m == after[i].menu
                   written == WrittenPrompt(before[i].above, before[i].menu, v)
               IN  m.prompt # NoPrompt /\ written # 1 =>
                       Seen(m, ValueOf(m.prompt, v)) = written

\* A symbol is selected when one that selects it is on, and what Config.in writes
\* around the select holds.
SelectsAreAsWritten ==
    tree # NoTree =>
        \A s \in Names, v \in Valuations :
            LET rev == RevDepOf(tree, s)
                by == {<<p, x>> \in UNION {{p} \X ToSet(p.menu.selects) :
                                              p \in ToSet(Paths(<<>>, source))} :
                           x.sym = s}
                written == {Least({v[q[1].menu.sym], Written(q[2].cond, v),
                                   WrittenDep(q[1].above, q[1].menu, v)}) : q \in by}
            IN  by # {} /\ 1 \notin written =>
                    ValueOf(rev, v) = Greatest(written)

\* Moving entries into submenus and out of them loses none, repeats none and
\* keeps the order in which they are written.
NothingIsLost ==
    tree # NoTree =>
        LET Order(t) == [i \in DOMAIN Paths(<<>>, t) |->
                            <<Paths(<<>>, t)[i].menu.kind, Paths(<<>>, t)[i].menu.sym>>]
        IN  Order(tree) = Order(source)

\* menu_is_visible
RECURSIVE IsShown(_, _)
IsShown(m, v) ==
    /\ m.prompt # NoPrompt
    /\ ValueOf(m.visible, v) # 0
    /\ \/ ValueOf(m.prompt, v) # 0
       \/ /\ m.sym # NoSym /\ v[m.sym] # 0
          /\ \E i \in DOMAIN m.list : IsShown(m.list[i], v)

\* Every symbol whose prompt is visible can be reached: each menu above it is
\* shown, whatever entry menu_finalize has put it below.
VisibleIsReachable ==
    tree # NoTree =>
        \A p \in ToSet(Paths(<<>>, tree)), v \in Valuations :
            p.menu.sym # NoSym /\ p.menu.prompt # NoPrompt /\ ValueOf(p.menu.prompt, v) # 0 =>
                \A a \in ToSet(p.above) : IsShown(a, v)

\* The tree that menu_finalize leaves means what Config.in says, and every part
\* of it can be reached. (menu_finalize, menu_is_visible)
TreeIsAsWritten ==
    /\ VisibilityIsAsWritten
    /\ SelectsAreAsWritten
    /\ NothingIsLost
    /\ VisibleIsReachable
==============================================================================
