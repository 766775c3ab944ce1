-------------------------------- MODULE KAsk --------------------------------
(***************************************************************************)
(* support/kconfig/conf.c, the modes that ask: oldconfig asks about the    *)
(* symbols nobody has set, oldaskconfig first asks about every symbol.     *)
(*                                                                         *)
(* conf() and check_conf() call each other and themselves all over the     *)
(* menu tree while the answers change it.  `todo' holds the calls that are *)
(* still to be made, the next one first:                                   *)
(*   check s   check_conf: look for new symbols at and below s             *)
(*   conf s    conf: go through s and what is below it                     *)
(*   ask s     conf_sym: the question for s, if there has to be one        *)
(*   choose s  conf_choice: which value, when the choice is on; `new' says *)
(*             whether it was new at the beginning                         *)
(* The end of the input answers like an empty line.  There are no menus,   *)
(* so check_conf() goes through the whole tree when it finds a new symbol. *)
(***************************************************************************)
EXTENDS KConf

VARIABLES todo,
          all,        \* the first pass of oldaskconfig, which asks everything
          restarted,  \* conf_cnt # 0
          rounds,     \* passes of the loop around check_conf so far
          second      \* this is oldconfig for a .config that a mode that asks has written

askVars == <<todo, all, restarted, rounds, second>>

Call(op, s) == [op |-> op, sym |-> s, new |-> FALSE]
Calls(op, seq) == [i \in DOMAIN seq |-> Call(op, seq[i])]
Roots == SelectSeq(MenuOrder, Top)

next == Head(todo)
rest == Tail(todo)
At(op) == pc = "ask" /\ todo # <<>> /\ next.op = op
Go(t, calls) ==
    /\ st' = t /\ todo' = calls \o rest
    /\ UNCHANGED <<mode, pc, config, minimal, passes, all, rounds, second>>

AskInit == Init /\ todo = <<>> /\ all = FALSE /\ restarted = FALSE /\ rounds = 0 /\ second = FALSE

StartAsking ==
    /\ pc = "set" /\ mode \in Asking /\ pc' = "ask"
    /\ all' = (mode = "oldaskconfig")
    /\ todo' = Calls(IF mode = "oldaskconfig" THEN "conf" ELSE "check", Roots)
    /\ UNCHANGED <<st, mode, config, minimal, passes, restarted, rounds, second>>

\* check_conf: a new symbol that can be set, or a new choice that is on, makes
\* conf() go through everything.
IsUnset(t, s) == ~ t.has[s] /\ (Changable(t, s) \/ (s \in ChoiceSyms /\ t.curr[s] = yes))

Check ==
    /\ At("check")
    /\ \E w \in {MenuIsVisible(st, next.sym)} :
          LET below == Calls("check", Below(next.sym))
              again == w.shown /\ IsUnset(w.st, next.sym)
          IN  /\ Go(w.st, IF ~ w.shown THEN <<>>
                          ELSE IF again THEN Calls("conf", Roots) \o below ELSE below)
              /\ restarted' = (restarted \/ again)

\* conf: a choice that is m is asked value by value.
Conf ==
    /\ At("conf")
    /\ \E w \in {MenuIsVisible(st, next.sym)} :
          LET s == next.sym
              question == IF s \in Named \/ Changable(w.st, s) THEN <<Call("ask", s)>> ELSE <<>>
          IN  Go(w.st, IF ~ w.shown THEN <<>>
                       ELSE IF s \in Named THEN question \o Calls("conf", Below(s))
                       ELSE Append(question, [Call("choose", s) EXCEPT !.new = ~ w.st.has[s]]))
    /\ UNCHANGED restarted

\* conf_askvalue
Waits == At("ask") /\ Changable(st, next.sym) /\ (all \/ ~ st.has[next.sym])

\* An answer that is not accepted gets the help text and the question again.
Answer ==
    /\ Waits
    /\ \E v \in Tristate :
          /\ MaySet(st, next.sym, v)
          /\ Go(SetTristateValue(st, next.sym, v), <<>>)
    /\ UNCHANGED restarted
NoQuestion == At("ask") /\ ~ Waits /\ Go(st, <<>>) /\ UNCHANGED restarted

\* The values of a choice that are shown; looking changes the table.
Look2(w, m) ==
    LET v == MenuIsVisible(w.st, m) IN [st |-> v.st, seen |-> IF v.shown THEN Append(w.seen, m) ELSE w.seen]
SeenMembers(t, c) == FoldLeft(Look2, [st |-> t, seen |-> <<>>], Decl[c].members)

\* sym_set_choice_value
Pick(t, m) == Go(IF MaySet(t, m, yes) THEN SetTristateValue(t, m, yes) ELSE t, Calls("conf", Below(m)))

\* A choice with one value to choose from is not asked about.
Asked(w) == Len(w.seen) # 1 /\ (all \/ next.new)
Choose ==
    /\ At("choose")
    /\ \E t \in {CalcValue(st, next.sym)} :
          CASE t.curr[next.sym] = no -> Go(t, <<>>)
            [] t.curr[next.sym] = mod -> Go(t, Calls("conf", Below(next.sym)))
            [] OTHER ->
                 \E w \in {SeenMembers(t, next.sym)} :
                    \E m \in ToSet(w.seen) :
                       /\ ~ Asked(w) => m = w.st.sel[next.sym] \/ Len(w.seen) = 1
                       /\ Pick(w.st, m)
    /\ UNCHANGED restarted

\* Mutant of Round: the loop ends after one pass.
RoundOnce ==
    /\ pc = "ask" /\ todo = <<>>
    /\ IF all THEN todo' = Calls("check", Roots) /\ UNCHANGED <<pc, rounds>>
       ELSE pc' = "write" /\ UNCHANGED <<todo, rounds>>
    /\ all' = FALSE /\ restarted' = FALSE
    /\ UNCHANGED <<st, mode, config, minimal, passes, second>>

\* "Update until a loop caused no more changes"; what follows the first pass of
\* oldaskconfig is silentoldconfig.
Round ==
    /\ pc = "ask" /\ todo = <<>>
    /\ CASE all -> todo' = Calls("check", Roots) /\ UNCHANGED <<pc, rounds>>
         [] ~ all /\ restarted -> todo' = Calls("check", Roots) /\ rounds' = rounds + 1 /\ UNCHANGED pc
         [] OTHER -> pc' = "write" /\ UNCHANGED <<todo, rounds>>
    /\ all' = FALSE /\ restarted' = FALSE
    /\ UNCHANGED <<st, mode, config, minimal, passes, second>>

AskNext ==
    \/ /\ Next
       /\ second' = (second \/ (pc = "done" /\ mode \in Asking))
       /\ rounds' = IF pc = "done" THEN 0 ELSE rounds
       /\ UNCHANGED <<todo, all, restarted>>
    \/ StartAsking \/ Check \/ Conf \/ Answer \/ NoQuestion \/ Choose \/ Round

AskSpec == AskInit /\ [][AskNext]_<<vars, askVars>>

\* When the loop ends, nobody has been left unasked, in whatever order the
\* answers made things visible; so make oldconfig for the .config that has been
\* written asks nothing; and every pass but the last one has set a symbol.
NothingLeftToAsk ==
    /\ pc = "write" /\ mode \in Asking =>
          \E t \in {CalcAll(st)} : \A s \in Symbols : t.vis[s] # no => ~ IsUnset(t, s)
    /\ second => ~ Waits /\ ~ restarted /\ \A i \in DOMAIN todo : ~ todo[i].new
    /\ rounds <= Cardinality(Symbols)
==============================================================================
