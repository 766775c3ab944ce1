----------------------------- MODULE NInputBox -----------------------------
(***************************************************************************)
(* The input line of nconfig: dialog_inputbox() of nconf.gui.c.            *)
(*                                                                         *)
(* The cursor is kept twice, in the text and in the window; the text that  *)
(* is shown starts at the difference of the two.  The buffer grows with    *)
(* the text.                                                               *)
(***************************************************************************)
EXTENDS Integers, Sequences

CONSTANTS
    Chars, Space,
    prompt_width,        \* the window is as wide as the widest line of the prompt
    MaxLen

VARIABLES
    open,
    result, result_len,  \* the text, and the size of the buffer
    cursor_position, cursor_form_win,
    form_win             \* the cells of the window

vars == <<open, result, result_len, cursor_position, cursor_form_win, form_win>>

len == Len(result)
Columns == 0 .. prompt_width - 1
Least(a, b) == IF a < b THEN a ELSE b
Window(text, from) == [i \in Columns |-> IF from + i < Len(text) THEN text[from + i + 1] ELSE Space]

Init ==
    /\ open = FALSE /\ result = <<>> /\ result_len \in 1 .. 2
    /\ cursor_position = 0 /\ cursor_form_win = 0 /\ form_win = [i \in Columns |-> Space]

\* The window shows the text before the cursor, and not more than fits.
Start ==
    /\ ~open /\ open' = TRUE
    /\ \E init \in UNION {[1 .. n -> Chars] : n \in 0 .. prompt_width + 1} :
         /\ result' = init
         /\ result_len' = IF Len(init) + 1 > result_len THEN Len(init) + 1 ELSE result_len
         /\ cursor_position' = Len(init)
         /\ cursor_form_win' = Least(Len(init), prompt_width - 1)
    /\ form_win' = Window(result', cursor_position' - cursor_form_win')

\* Mutant of Clamped: the cursor may leave the window.
Unclamped(column) == IF column < 0 THEN 0 ELSE column

Clamped(column) ==
    CASE column < 0 -> 0 [] column > prompt_width - 1 -> prompt_width - 1 [] OTHER -> column

\* After every key the window is cleared and filled.
Key(text, position, column) ==
    /\ open
    /\ result' = text /\ cursor_position' = position /\ cursor_form_win' = Clamped(column)
    /\ form_win' = Window(text, position - Clamped(column))
    /\ UNCHANGED open

Backspace ==
    /\ cursor_position > 0
    /\ Key(SubSeq(result, 1, cursor_position - 1) \o SubSeq(result, cursor_position + 1, len),
           cursor_position - 1, cursor_form_win - 1)
    /\ UNCHANGED result_len
Delete ==
    /\ cursor_position < len
    /\ Key(SubSeq(result, 1, cursor_position) \o SubSeq(result, cursor_position + 2, len),
           cursor_position, cursor_form_win)
    /\ UNCHANGED result_len
Right ==
    /\ cursor_position < len /\ Key(result, cursor_position + 1, cursor_form_win + 1) /\ UNCHANGED result_len
Left ==
    /\ cursor_position > 0 /\ Key(result, cursor_position - 1, cursor_form_win - 1) /\ UNCHANGED result_len
Home == Key(result, 0, 0) /\ UNCHANGED result_len
EndKey == Key(result, len, Least(len, prompt_width - 1)) /\ UNCHANGED result_len
Type ==
    /\ len < MaxLen
    /\ result_len' = IF len + 2 > result_len THEN len + 2 ELSE result_len
    /\ \E c \in Chars :
         Key(SubSeq(result, 1, cursor_position) \o <<c>> \o SubSeq(result, cursor_position + 1, len),
             cursor_position + 1, cursor_form_win + 1)

Leave ==
    /\ open /\ open' = FALSE
    /\ UNCHANGED <<result, result_len, cursor_position, cursor_form_win, form_win>>

Next == Start \/ Backspace \/ Delete \/ Right \/ Left \/ Home \/ EndKey \/ Type \/ Leave

-----------------------------------------------------------------------------
\* The cursor is inside the window and stands before the character of the text
\* that the next key acts on; the text and its end fit in the buffer.
WindowIsTrue ==
    open =>
        /\ cursor_form_win \in Columns /\ cursor_form_win <= cursor_position /\ cursor_position <= len
        /\ form_win[cursor_form_win] = (IF cursor_position < len THEN result[cursor_position + 1] ELSE Space)
        /\ len + 1 <= result_len
=============================================================================
