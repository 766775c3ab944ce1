----------------------------- MODULE KAutoconf -----------------------------
(***************************************************************************)
(* silentoldconfig at the start of a build: conf_write_autoconf() of       *)
(* confdata.c touches one stamp per changed symbol and replaces the three  *)
(* files the build reads.  It can be stopped between any two of its steps; *)
(* make starts it again as long as auto.conf is older than .config.        *)
(***************************************************************************)
EXTENDS Integers, FiniteSets

CONSTANTS
    Syms,
    Type,          \* Syms -> {"bool", "tristate", "string"}
    Strings,       \* what a string may hold
    NoValue,       \* not written to the file
    MaxEdits

Values(s) == CASE Type[s] = "bool" -> {"n", "y"}
               [] Type[s] = "tristate" -> {"n", "m", "y"}
               [] OTHER -> Strings
Files == {"header", "tristate", "auto.conf"}

VARIABLES
    config,        \* .config, complete and consistent; NoValue: without SYMBOL_WRITE
    file, tmp,     \* the three files, and what they are renamed from
    fresh,         \* auto.conf is newer than .config
    pc, todo, old, \* conf: where it is, what is left to compare, S_DEF_AUTO
    touched,       \* the stamps newer than the objects that depend on them
    seen,          \* what an object was built from
    edits

vars == <<config, file, tmp, fresh, pc, todo, old, touched, seen, edits>>

Configs == {c \in [Syms -> {NoValue, "n", "m", "y"} \cup Strings] : \A s \in Syms : c[s] \in Values(s) \cup {NoValue}}
Empty == [s \in Syms |-> NoValue]
Nothing == [f \in Files |-> Empty]

\* The printers: none writes n for a switch, and the one of tristate.conf writes
\* tristates only.
IsNo(s) == Type[s] # "string" /\ config[s] = "n"
kconfig_print_symbol(s) == IF IsNo(s) THEN NoValue ELSE config[s]
header_print_symbol(s) == IF IsNo(s) THEN NoValue ELSE config[s]
tristate_print_symbol(s) == IF config[s] = "n" \/ Type[s] # "tristate" THEN NoValue ELSE config[s]
Lines(f) ==
    [s \in Syms |-> CASE f = "header" -> header_print_symbol(s)
                       [] f = "tristate" -> tristate_print_symbol(s)
                       [] OTHER -> kconfig_print_symbol(s)]

Init ==
    /\ config \in Configs /\ file = Nothing /\ tmp = Nothing /\ fresh = FALSE
    /\ pc = "make" /\ todo = {} /\ old = Empty
    /\ touched = Syms /\ seen = [s \in Syms |-> [f \in Files |-> NoValue]] /\ edits = 0

\* Another front end saves another configuration.
Edit ==
    /\ pc = "make" /\ edits < MaxEdits /\ edits' = edits + 1
    /\ config' \in Configs \ {config} /\ fresh' = FALSE
    /\ UNCHANGED <<file, tmp, pc, todo, old, touched, seen>>

\* conf_split_config() reads the last auto.conf.
Start ==
    /\ pc = "make" /\ ~fresh
    /\ pc' = "split" /\ todo' = Syms /\ old' = file["auto.conf"]
    /\ UNCHANGED <<config, file, tmp, fresh, touched, seen, edits>>

\* A symbol is compared with its old value; for a switch, n and no value are the same.
Differs(s) ==
    IF config[s] # NoValue
    THEN IF old[s] # NoValue THEN config[s] # old[s] ELSE ~ IsNo(s)
    ELSE old[s] # NoValue
Compare(s) ==
    /\ pc = "split" /\ s \in todo
    /\ todo' = todo \ {s}
    /\ touched' = IF Differs(s) THEN touched \cup {s} ELSE touched
    /\ UNCHANGED <<config, file, tmp, fresh, pc, old, seen, edits>>

\* All three files are written before the first of them is put in place.
WriteTmp ==
    /\ pc = "split" /\ todo = {}
    /\ tmp' = [f \in Files |-> Lines(f)]
    /\ pc' = "header"
    /\ UNCHANGED <<config, file, fresh, todo, old, touched, seen, edits>>

\* Mutant of After: auto.conf is put in place before tristate.conf.
AfterEarly(at) == CASE at = "header" -> "auto.conf" [] at = "auto.conf" -> "tristate" [] OTHER -> "make"

After(at) == CASE at = "header" -> "tristate" [] at = "tristate" -> "auto.conf" [] OTHER -> "make"
Rename ==
    /\ pc \in Files
    /\ file' = [file EXCEPT ![pc] = tmp[pc]]
    /\ fresh' = (fresh \/ pc = "auto.conf")
    /\ pc' = After(pc)
    /\ UNCHANGED <<config, tmp, todo, old, touched, seen, edits>>

\* Killed, or one of open(), mkdir() and rename() failed: make stops.
Stop ==
    /\ pc # "make" /\ pc' = "make"
    /\ todo' = {}
    /\ UNCHANGED <<config, file, tmp, fresh, old, touched, seen, edits>>

\* The build makes the objects again that are older than a stamp, one by one.
Make(s) ==
    /\ pc = "make" /\ fresh /\ s \in touched
    /\ touched' = touched \ {s}
    /\ seen' = [seen EXCEPT ![s] = [f \in Files |-> file[f][s]]]
    /\ UNCHANGED <<config, file, tmp, fresh, pc, todo, old, edits>>

Next ==
    \/ Edit \/ Start \/ WriteTmp \/ Rename \/ Stop
    \/ \E s \in Syms : Compare(s) \/ Make(s)

-----------------------------------------------------------------------------
\* "This must be the last step": when auto.conf is newer than .config, all
\* three files hold the configuration, and every object that is not about to be
\* built again was built from it - whatever was interrupted, and whichever
\* configurations came and went in between.
BuildSeesConfig ==
    pc = "make" /\ fresh =>
        \A f \in Files : /\ file[f] = Lines(f)
                         /\ \A s \in Syms \ touched : seen[s][f] = file[f][s]
=============================================================================
