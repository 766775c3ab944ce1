------------------------------ MODULE InputBox ------------------------------
(***************************************************************************)
(* Typing a value in menuconfig: conf_string() of mconf.c and the input    *)
(* line it shows (lxdialog/inputbox.c).                                    *)
(*                                                                         *)
(* The text is longer than the field it is shown in.  Every key redraws    *)
(* the field up to the end of the text only; `field` is what can be seen.  *)
(***************************************************************************)
EXTENDS Integers, Sequences

CONSTANTS
    Chars, Invalid,  \* those that a text may have; with Invalid it is refused
    Space,
    box_width,
    MAX_LEN

\* The field has at least one column.
ASSUME WidthAssumption == box_width \in Nat \ {0}

VARIABLES
    open,            \* "menu", "in" dialog_inputbox(), "back" in conf_string()
    value,           \* sym_get_string_value()
    instr, pos,      \* dialog_input_result, and where the next character goes
    show_x, input_x, \* the first character that is shown, the cursor's column
    field,
    button, lit,     \* -1 the text, 0 Ok, 1 Help; and the one drawn as active
    stale,           \* after a resize lit does not follow button
    ok               \* what dialog_inputbox() returned

vars == <<open, value, instr, pos, show_x, input_x, field, button, lit, stale, ok>>

len == Len(instr)
Columns == 0 .. box_width - 1
Inserted(s, at, c) == SubSeq(s, 1, at) \o <<c>> \o SubSeq(s, at + 1, Len(s))
Deleted(s, at) == SubSeq(s, 1, at - 1) \o SubSeq(s, at + 1, Len(s))
Window(text, from) == [i \in Columns |-> IF from + i < Len(text) THEN text[from + i + 1] ELSE Space]

Init ==
    /\ open = "menu" /\ value \in {<<>>} \cup [1 .. box_width + 1 -> Chars \ {Invalid}]
    /\ instr = value /\ pos = 0 /\ show_x = 0 /\ input_x = 0 /\ field = [i \in Columns |-> Space]
    /\ button = -1 /\ lit = 0 /\ stale = FALSE /\ ok = FALSE

\* The button drawn as active: -1 like 0.
print_buttons(selected) == IF selected = 1 THEN 1 ELSE 0

\* do_resize: the end of the text is shown, with room for one character more.
Setup(text) ==
    /\ instr' = text /\ pos' = Len(text)
    /\ show_x' = IF Len(text) >= box_width THEN Len(text) - box_width + 1 ELSE 0
    /\ input_x' = IF Len(text) >= box_width THEN box_width - 1 ELSE Len(text)
    /\ field' = Window(text, show_x')
    /\ lit' = print_buttons(0)

Start ==
    /\ open = "menu" \/ (open = "back" /\ ~ok)
    /\ open' = "in" /\ Setup(value) /\ button' = -1 /\ stale' = FALSE
    /\ UNCHANGED <<value, ok>>
Resize ==
    /\ open = "in" /\ Setup(instr) /\ stale' = (button = 1)
    /\ UNCHANGED <<open, value, button, ok>>

\* Mutant of Redrawn: the end of the text is not followed by a blank.
RedrawnUncleared(text, from) ==
    [i \in Columns |-> IF from + i < Len(text) THEN text[from + i + 1] ELSE field[i]]

\* The loop that redraws the field stops after one blank; what is behind it
\* stays.
Redrawn(text, from) ==
    [i \in Columns |-> CASE from + i < Len(text) -> text[from + i + 1]
                         [] from + i = Len(text) -> Space
                         [] OTHER -> field[i]]

Typing == open = "in" /\ button = -1
Edited(text, from) ==
    /\ instr' = text /\ show_x' = from /\ field' = Redrawn(text, from)
    /\ UNCHANGED <<open, value, button, lit, stale, ok>>

Type ==
    /\ Typing /\ len < MAX_LEN
    /\ pos' = pos + 1
    /\ input_x' = IF input_x = box_width - 1 THEN input_x ELSE input_x + 1
    /\ \E c \in Chars : Edited(Inserted(instr, pos, c), IF input_x = box_width - 1 THEN show_x + 1 ELSE show_x)
Backspace ==
    /\ Typing /\ pos > 0
    /\ pos' = pos - 1
    /\ input_x' = IF input_x = 0 THEN 0 ELSE input_x - 1
    /\ Edited(Deleted(instr, pos), IF input_x = 0 THEN show_x - 1 ELSE show_x)

\* The cursor moves; at the edge of the field the text moves instead.
Moved(from, column, at) ==
    /\ show_x' = from /\ input_x' = column /\ pos' = at
    /\ field' = IF from = show_x THEN field ELSE Redrawn(instr, from)
    /\ UNCHANGED <<open, value, instr, button, lit, stale, ok>>
Left ==
    /\ Typing /\ pos > 0
    /\ IF input_x > 0 THEN Moved(show_x, input_x - 1, pos - 1) ELSE Moved(show_x - 1, 0, pos - 1)
Right ==
    /\ Typing /\ pos < len
    /\ IF input_x < box_width - 1 THEN Moved(show_x, input_x + 1, pos + 1) ELSE Moved(show_x + 1, input_x, pos + 1)

\* TAB and the arrows that do not move the cursor.
Button ==
    /\ open = "in"
    /\ button' \in {-1, 0, 1} \ {button}
    /\ lit' = print_buttons(button')
    /\ stale' = FALSE
    /\ UNCHANGED <<open, value, instr, pos, show_x, input_x, field, ok>>

\* Enter stands for the button, and for Ok in the text; on a button the first
\* letter of either will do.
Enter ==
    /\ open = "in" /\ open' = "back"
    /\ ok' \in IF button = -1 THEN {TRUE} ELSE BOOLEAN
    /\ UNCHANGED <<value, instr, pos, show_x, input_x, field, button, lit, stale>>
Escape ==
    /\ open = "in" /\ open' = "menu" /\ UNCHANGED <<value, instr, pos, show_x, input_x, field, button, lit, stale, ok>>

\* sym_set_string_value() refuses what is not valid; conf_string() then asks
\* again, for the old value.
Accepts(text) == Invalid \notin {text[i] : i \in DOMAIN text}
SetValue ==
    /\ open = "back" /\ ok
    /\ IF Accepts(instr) THEN open' = "menu" /\ value' = instr /\ UNCHANGED ok
       ELSE ok' = FALSE /\ UNCHANGED <<open, value>>
    /\ UNCHANGED <<instr, pos, show_x, input_x, field, button, lit, stale>>

Next == Start \/ Resize \/ Type \/ Backspace \/ Left \/ Right \/ Button \/ Enter \/ Escape \/ SetValue

Spec == Init /\ [][Next]_vars

-----------------------------------------------------------------------------
\* The field shows the text from show_x on with nothing left over, the cursor
\* stands where the next character goes, and the value is one that is accepted.
LineIsTrue ==
    /\ open = "in" =>
          /\ field = Window(instr, show_x)
          /\ pos = show_x + input_x /\ input_x \in Columns /\ show_x >= 0 /\ pos <= len
          /\ ~stale => lit = print_buttons(button)
    /\ Accepts(value)
=============================================================================
