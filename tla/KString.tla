------------------------------ MODULE KString ------------------------------
(***************************************************************************)
(* support/kconfig/symbol.c and confdata.c for the entries that hold a     *)
(* string, an int or a hex number: defaults, ranges, what the user types,  *)
(* and the lines of .config.  Switches are boolean symbols that can always *)
(* be set; the conditions of prompts, defaults and ranges are sets of      *)
(* switches that must be on.                                               *)
(*                                                                         *)
(* A text is <<>>, for a string a sequence of characters, and for a number *)
(* <<prefix, value>> with the prefix "" or "0x" ("10" is <<"", 16>> for a  *)
(* hex entry).  A line of .config is a text too; a string has quotes there.*)
(*                                                                         *)
(* A definition just before another one and used nowhere is that           *)
(* definition with a plausible mistake in it.                              *)
(***************************************************************************)
EXTENDS Integers, SequencesExt

CONSTANTS Switches,
          Entries,   \* in the order of the symbol table
          Type,      \* of each entry: "string", "int" or "hex"
          Prompt,    \* of each entry: the condition of its prompt
          Defaults,  \* of each entry: a sequence of [cond, from, text]
          Ranges,    \* of each entry: a sequence of [cond, lo, hi]
          Typed,     \* of each entry: the texts the user may type
          Files,     \* what .config may hold at first
          MaxEdits   \* bound on what the user changes
NoEntry == "-"       \* the `from' of a default that is a constant
NoLine == <<"none">>
NoProperty == [cond |-> {}]
Names == DOMAIN Type

VARIABLES st,        \* the symbol table
          config,    \* .config: [on, line]
          edits
vars == <<st, config, edits>>

------------------------------------------------------------------------------
(* Numbers *)

\* sym_string_valid
StringValid(e, t) ==
    CASE Type[e] = "string" -> TRUE
      [] Type[e] = "int" -> Len(t) = 2 /\ t[1] = ""
      [] Type[e] = "hex" -> Len(t) = 2

\* strtoll
Number(t) == IF Len(t) = 2 THEN t[2] ELSE 0

\* The first property whose condition holds.
FirstProp(st_, props) ==
    LET on == SelectSeq(props, LAMBDA p : p.cond \subseteq st_.on)
    IN  IF on = <<>> THEN NoProperty ELSE on[1]
RangeProp(t, e) == FirstProp(t, Ranges[e])
DefaultProp(t, e) == FirstProp(t, Defaults[e])
Visible(t, e) == Prompt[e] \subseteq t.on

Within(r, n) == r # NoProperty => r.lo <= n /\ n <= r.hi

\* sym_string_within_range
WithinRange(t, e, text) ==
    StringValid(e, text) /\ (Type[e] = "string" \/ Within(RangeProp(t, e), Number(text)))

\* sym_validate_range: the value that counts.
Validated(t, e, text) ==
    LET r == RangeProp(t, e)
        n == Number(text)
    IN  IF Type[e] = "string" \/ Within(r, n) THEN text
        ELSE <<IF Type[e] = "int" THEN "" ELSE "0x", IF n < r.lo THEN r.lo ELSE r.hi>>

------------------------------------------------------------------------------
(* The symbol table *)

\* sym_calc_value
RECURSIVE Calc(_, _)
Calc(t, e) ==
    LET d == DefaultProp(t, e)
        mine == Visible(t, e) /\ t.has[e]
        u == IF mine \/ d = NoProperty \/ d.from = NoEntry THEN t ELSE Calc(t, d.from)
        new == CASE mine -> t.user[e]
                 [] d = NoProperty -> <<>>
                 [] d.from = NoEntry -> d.text
                 [] OTHER -> u.curr[d.from]
    IN  IF t.valid[e] THEN t
        ELSE [u EXCEPT !.valid[e] = TRUE, !.curr[e] = Validated(t, e, new),
                       !.write[e] = Visible(t, e) \/ d # NoProperty]
CalcAll(t) == FoldLeft(Calc, t, Entries)
ClearAllValid(t) == [t EXCEPT !.valid = [e \in Names |-> FALSE]]

\* sym_get_string_value, after sym_calc_value
Shown(t, e) == Calc(t, e).curr[e]

\* sym_set_string_value of a text that is accepted.  When DEF_USER was not set
\* it is now, but nothing else happens if the text is the one that is kept.
Prefixed(e, text) == IF Type[e] = "hex" /\ text[1] = "" THEN <<"0x", text[2]>> ELSE text
SetString(t, e, text) ==
    LET u == [t EXCEPT !.has[e] = TRUE]
    IN  IF Prefixed(e, text) = text /\ t.user[e] = text THEN u
        ELSE [ClearAllValid(u) EXCEPT !.user[e] = Prefixed(e, text), !.changed = TRUE]

------------------------------------------------------------------------------
(* .config *)

\* Backslashes are left as they are.
EscapeQuotes(t) ==
    <<"q">> \o FoldLeft(LAMBDA a, c : a \o (IF c = "q" THEN <<"\\", c>> ELSE <<c>>), <<>>, t) \o <<"q">>

\* sym_escape_string_value; "q" is the character that quotes.
Escape(t) ==
    <<"q">> \o FoldLeft(LAMBDA a, c : a \o (IF c \in {"q", "\\"} THEN <<"\\", c>> ELSE <<c>>), <<>>, t)
            \o <<"q">>

\* The string after the opening quote, up to the quote that closes it.
Scan(a, c) ==
    CASE a.closed -> a
      [] a.escaped -> [a EXCEPT !.text = Append(@, c), !.escaped = FALSE]
      [] c = "\\" -> [a EXCEPT !.escaped = TRUE]
      [] c = "q" -> [a EXCEPT !.closed = TRUE]
      [] OTHER -> [a EXCEPT !.text = Append(@, c)]
Scanned(line) == FoldLeft(Scan, [text |-> <<>>, escaped |-> FALSE, closed |-> FALSE], Tail(line))

\* conf_set_sym_val: a string without quotes is passed over without a word.
Warn(t) == [t EXCEPT !.warned = TRUE]
Keep(t, e, text) == [t EXCEPT !.user[e] = text, !.has[e] = TRUE]
ReadLine(t, e, line) ==
    CASE line = NoLine -> t
      [] Type[e] # "string" -> IF StringValid(e, line) THEN Keep(t, e, line) ELSE Warn(t)
      [] line = <<>> \/ line[1] # "q" -> t
      [] OTHER -> LET s == Scanned(line) IN IF s.closed THEN Keep(t, e, s.text) ELSE Warn(t)

\* conf_read, first loop: what the file says is not what counts.
Unsaved(t, e) ==
    IF t.has[e] /\ t.write[e] THEN t.curr[e] # t.user[e] ELSE t.has[e] \/ t.write[e]

\* conf_read, second loop: invisible entries forget that the user set them, but
\* not what to, unless something is unsaved; so do entries out of range.
Reset(t, e) ==
    LET u == [t EXCEPT !.has[e] = @ /\ (Visible(t, e) \/ t.changed)]
    IN  IF ~ t.has[e] THEN t
        ELSE IF WithinRange(t, e, t.user[e]) THEN u
        ELSE [u EXCEPT !.has[e] = FALSE, !.valid[e] = FALSE, !.changed = TRUE]

\* A new process reads the file.  `changed' is conf_unsaved until the end.
Empty(on) ==
    [on |-> on, user |-> [e \in Names |-> NoLine], has |-> [e \in Names |-> FALSE],
     curr |-> [e \in Names |-> <<>>], valid |-> [e \in Names |-> FALSE],
     write |-> [e \in Names |-> FALSE], changed |-> FALSE, warned |-> FALSE]
ConfRead(file) ==
    LET read == FoldLeft(LAMBDA t, e : ReadLine(t, e, file.line[e]), Empty(file.on), Entries)
        calc == CalcAll(read)
        first == [calc EXCEPT !.changed = \E e \in Names : Unsaved(calc, e)]
        last == FoldLeft(Reset, first, Entries)
    IN  [last EXCEPT !.changed = @ \/ last.warned, !.warned = FALSE]

\* conf_write_symbol
LineOf(e, text) == IF Type[e] = "string" THEN Escape(text) ELSE text

\* conf_write: without a change everything is calculated anew.
Written(t) == CalcAll(IF t.changed THEN t ELSE ClearAllValid(t))
FileOf(t) ==
    [on |-> t.on, line |-> [e \in Names |-> IF t.write[e] THEN LineOf(e, t.curr[e]) ELSE NoLine]]

\* sym_get_string_default, and conf_write_defconfig, which leaves out what has
\* its default.  A range does not count there.
StringDefault(t, e) ==
    LET d == DefaultProp(t, e)
    IN  CASE d = NoProperty -> <<>>
          [] d.from = NoEntry -> d.text
          [] OTHER -> Shown(t, d.from)
Defconfig(t) ==
    LET u == CalcAll(ClearAllValid(t))
    IN  [on |-> u.on,
         line |-> [e \in Names |-> IF Visible(u, e) /\ u.curr[e] # StringDefault(u, e)
                                   THEN LineOf(e, u.curr[e]) ELSE NoLine]]

------------------------------------------------------------------------------
Init == config \in Files /\ st = ConfRead(config) /\ edits = 0

\* The menu with the entries is drawn.
Draw == st' = CalcAll(st) /\ UNCHANGED <<config, edits>>

Edit == edits < MaxEdits /\ edits' = edits + 1 /\ UNCHANGED config

Toggle(s) ==
    /\ Edit
    /\ st' = [ClearAllValid(st) EXCEPT
                 !.on = IF s \in @ THEN @ \ {s} ELSE @ \cup {s}, !.changed = TRUE]

\* conf_string: Enter on a text in the input box for e.
Enter(e, text) ==
    /\ Edit
    /\ Visible(st, e) /\ st.valid[e] /\ WithinRange(st, e, text)
    /\ st' = SetString(st, e, text)

\* conf_string of conf.c: an empty answer stands for the value shown, which may be
\* refused; and the input box of menuconfig starts with it.
Confirm(e) == Enter(e, st.curr[e])

Save ==
    \E t \in {Written(st)} :
        /\ config' = FileOf(t)
        /\ st' = [t EXCEPT !.write = [e \in Names |-> FALSE], !.changed = FALSE]
        /\ UNCHANGED edits

\* The program ends, or is killed, and is started again.
Restart == st' = ConfRead(config) /\ UNCHANGED <<config, edits>>

Next ==
    \/ Draw
    \/ \E e \in Names : Confirm(e) \/ \E text \in Typed[e] : Enter(e, text)
    \/ \E s \in Switches : Toggle(s)
    \/ Save \/ Restart

Spec == Init /\ [][Next]_vars

------------------------------------------------------------------------------
Values(t) == [e \in Names |-> Shown(t, e)]

\* While no change is counted, which is when the program ends without asking,
\* .config has the value of every entry.
NothingIsUnsaved ==
    ~ st.changed => \A e \in Names : config.line[e] \in {LineOf(e, Shown(st, e)), NoLine}

\* A .config that was saved, and the minimal configuration made of it, give
\* every entry its value back, and reading the first is not a change: through
\* quotes and backslashes, prefixes, ranges, defaults that become others and
\* entries that come and go.
SavedReadsBack ==
    [][config' # config /\ Save => \E file \in {config'}, u \in {st'} :
                   \E t \in {ConfRead(file)} :
                       /\ ~ t.changed /\ Values(t) = Values(u)
                       /\ \E minimal \in {ConfRead(Defconfig(t))} : Values(minimal) = Values(t)]_vars

\* Both. (sym_set_string_value, sym_validate_range, conf_read, conf_write)
TextsAreKept == []NothingIsUnsaved /\ SavedReadsBack

\* "Enter the requested information and press <ENTER>": an entry that is not
\* refused as invalid has the text that was entered. (conf_string,
\* sym_set_string_value)
EnteredIsShown ==
    [][\A e \in Names : \A text \in Typed[e] :
          Enter(e, text) => Shown(st', e) = Prefixed(e, text)]_vars
==============================================================================
