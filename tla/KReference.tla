----------------------------- MODULE KReference -----------------------------
(***************************************************************************)
(* What a configuration file means, without a symbol table: the reference  *)
(* KSession and KConf are compared with.                                   *)
(***************************************************************************)
EXTENDS KConfdata, FiniteSets

Files == [Named -> Words] \cup {NoFile}

\* The value of expression e when the symbols have the values val.
Holds(val, e) ==
    LET Operation(stack, o) ==
            CASE o[1] = "const" -> <<o[2]>> \o stack
              [] o[1] = "sym" -> <<val[o[2]]>> \o stack
              [] o[1] = "not" -> [stack EXCEPT ![1] = yes - @]
              [] o[1] = "equal" -> <<IF val[o[2]] = o[3] THEN yes ELSE no>> \o stack
              [] o[1] = "and" -> <<TriAnd(stack[2], stack[1])>> \o SubSeq(stack, 3, Len(stack))
              [] OTHER -> <<TriOr(stack[2], stack[1])>> \o SubSeq(stack, 3, Len(stack))
    IN  Head(FoldLeft(Operation, <<>>, e))

\* What a build reads from a file: a choice is on when one of its values is.
ValuesIn(file) ==
    [s \in Symbols |->
        IF s \in Named THEN Value(file[s])
        ELSE IF \E m \in Named : ChoiceOf[m] = s /\ file[m] = "y" THEN yes
        ELSE IF \E m \in Named : ChoiceOf[m] = s /\ file[m] = "m" THEN mod
        ELSE no]

\* What is on has its dependencies or is selected, what is selected is on, and
\* a visible choice has one value.
Consistent(file) ==
    LET val == ValuesIn(file)
    IN  /\ \A s \in Named :
              /\ val[s] # no => Holds(val, Or(BaseDep[s], RevDep[s])) # no
              /\ Holds(val, RevDep[s]) # no => val[s] # no
        /\ \A c \in ChoiceSyms :
              LET on == {m \in Named : ChoiceOf[m] = c /\ val[m] = yes}
                  shown == {m \in Named : ChoiceOf[m] = c
                               /\ Holds(val, Decl[m].depends) # no
                               /\ Holds(val, Decl[m].prompt) # no}
              IN  /\ Cardinality(on) <= 1
                  /\ Holds(val, PromptExpr[c]) # no /\ shown # {} => on # {}

\* The values of a process that has read the file.
Current(t) == CalcAll(t).curr
==============================================================================
