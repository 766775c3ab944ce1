------------------------------ MODULE KExamples ------------------------------
(***************************************************************************)
(* Small Config.in files made of the constructs Buildroot's use, for the   *)
(* instances of KSession and KConf.                                        *)
(***************************************************************************)
EXTENDS KConfdata

Config(depends, prompt, defaults, selects) ==
    [type |-> "bool", members |-> <<>>, optional |-> TRUE, depends |-> depends,
     prompt |-> prompt, defaults |-> defaults, selects |-> selects, submenu |-> <<>>]

Above(below, decl) == [decl EXCEPT !.submenu = below]
Tri(decl) == [decl EXCEPT !.type = "tristate"]

Choice(type, members, defaults) ==
    [type |-> type, members |-> members, optional |-> FALSE, depends |-> Const(yes),
     prompt |-> Const(yes), defaults |-> defaults, selects |-> <<>>, submenu |-> <<>>]

Y == Const(yes)
Default(val, cond) == <<[val |-> val, cond |-> cond]>>

\* A toolchain choice whose second value needs A and is the default then; B is
\* a package that selects the library L, which needs the second toolchain; H
\* is derived from both.
ToolchainDecl ==
    [A  |-> Config(Y, Y, <<>>, <<>>),
     C  |-> Choice("bool", <<"V1", "V2">>, Default(Sym("V2"), Sym("A"))),
     V1 |-> Config(Y, Y, <<>>, <<>>),
     V2 |-> Config(Sym("A"), Y, <<>>, <<>>),
     B  |-> Config(Not(Sym("V1")), Y, Default(Y, Sym("A")),
                   <<[sym |-> "L", cond |-> Sym("A")]>>),
     L  |-> Config(Sym("V2"), Y, <<>>, <<>>),
     H  |-> Config(Y, Const(no), Default(Sym("L"), Sym("B")), <<>>)]
ToolchainOrder == <<"A", "C", "V1", "V2", "B", "L", "H">>

\* M enables modules; T and S can be modules, and S selects T, which the second
\* value of the choice D needs; U has S below it and is shown for its sake when
\* X is off.
ModulesDecl ==
    [M  |-> Config(Y, Y, Default(Y, Y), <<>>),
     D  |-> Choice("bool", <<"W1", "W2">>, <<>>),
     W1 |-> Config(Y, Y, <<>>, <<>>),
     W2 |-> Config(Sym("T"), Y, <<>>, <<>>),
     T  |-> Tri(Config(Y, Y, <<>>, <<>>)),
     X  |-> Above(<<"U">>, Config(Y, Y, <<>>, <<>>)),
     U  |-> Above(<<"S">>, Config(Y, Sym("X"), Default(Y, Y), <<>>)),
     S  |-> Tri(Config(Sym("U"), Y, <<>>, <<[sym |-> "T", cond |-> Y]>>))]
ModulesOrder == <<"M", "D", "W1", "W2", "T", "X", "U", "S">>

\* A choice that is there when A is on, whose second value needs modules and is
\* then the default; the package P, which can be a module, is selected by L; K,
\* which can be one too, depends on P.
MixedDecl ==
    [M  |-> Config(Y, Y, Default(Y, Y), <<>>),
     A  |-> Config(Y, Y, <<>>, <<>>),
     C  |-> [Choice("bool", <<"V1", "V2">>, Default(Sym("V2"), Sym("M")))
                EXCEPT !.depends = Sym("A")],
     V1 |-> Config(Y, Y, <<>>, <<>>),
     V2 |-> Config(Sym("M"), Y, <<>>, <<>>),
     L  |-> Config(Sym("V2"), Y, <<>>, <<[sym |-> "P", cond |-> Y]>>),
     P  |-> Tri(Config(Y, Y, <<>>, <<>>)),
     K  |-> Tri(Config(Sym("P"), Y, Default(Y, Sym("L")), <<>>))]
MixedOrder == <<"M", "A", "C", "V1", "V2", "L", "K", "P">>

\* Every .config in menu order in which each line can say y or n or be missing,
\* and m for what can be a module, or no .config; M and A have their lines.
AnyFile == {f \in [Named -> Words] :
               /\ \A s \in Named : f[s] = "m" => Decl[s].type = "tristate"
               /\ \A s \in {"M", "A"} \cap Named : f[s] # "-"} \cup {NoFile}
\* No .config, a new one with nothing in it, and hand-written ones.
FewFiles == {NoFile, Blank, [s \in Named |-> "y"], [s \in Named |-> "n"],
             [s \in Named |-> IF s \in {"A", "V2"} THEN "y" ELSE "-"]}
\* The same, and .configs to which one choice, or one option and another one
\* before it that depends on it, are new.
NewFor(new) == [s \in Named |-> IF s \in new THEN "-" ELSE IF s = "A" THEN "y" ELSE "n"]
AskedFiles == FewFiles \cup {NewFor({"V1", "V2"}), NewFor({"K", "P"})}
ModFiles == {NoFile, Blank, [s \in Named |-> IF Decl[s].type = "bool" THEN "y" ELSE "m"]}
==============================================================================
