----------------------------- MODULE CheckList -----------------------------
(***************************************************************************)
(* Choosing one of the members of a choice in menuconfig: conf_choice() of *)
(* mconf.c and the list it shows (lxdialog/checklist.c).                   *)
(*                                                                         *)
(* As in a menu, a key changes only the lines it has to; and unlike in a   *)
(* menu, the cursor goes to the edge of the window before it scrolls.      *)
(* Items are numbered from 0.                                              *)
(***************************************************************************)
EXTENDS Integers, FiniteSetsExt

CONSTANTS
    MaxItems, MaxHeight,
    Letters,      \* the first letter of each item, as a sequence
    Comments      \* the items that are comments and cannot be chosen

VARIABLES
    open,         \* "menu", "in" dialog_checklist(), "back" in conf_choice()
    count, list_height,
    value,        \* sym_get_choice_value()
    active,       \* the member that is to be highlighted first, if any
    scroll, choice, button,
    shown,        \* the lines: an item and whether it is highlighted
    arrows,       \* the scroll indicators: up, down
    lit,          \* the button drawn as active
    stale,        \* the button or the arrows are those of before a resize
    result        \* what dialog_checklist() returned, and the highlighted item

vars == <<open, count, list_height, value, active, scroll, choice, button, shown, arrows, lit,
          stale, result>>

NoItem == -1
Blank == <<NoItem, FALSE>>
Line(item, is_lit) == <<item, is_lit>>
max_choice == IF list_height < count THEN list_height ELSE count

Init ==
    /\ open = "menu" /\ count \in 1 .. MaxItems /\ list_height \in 1 .. MaxHeight
    /\ value \in 0 .. count - 1 \ Comments /\ active = value
    /\ scroll = 0 /\ choice = 0 /\ button = 0 /\ shown = <<>> /\ arrows = <<FALSE, FALSE>>
    /\ lit = 0 /\ stale = {} /\ result = <<0, NoItem>>

\* The indicators are computed from the choice, as if it were the last line.
print_arrows(top, at) == <<top > 0, list_height < count /\ top + at < count - 1>>

\* do_resize: the window follows the choice only when it lies below it.
Setup(top, at) ==
    LET over == at >= list_height
        new_top == IF over THEN at - list_height + 1 ELSE top
        new_at == IF over THEN list_height - 1 ELSE at
    IN /\ open' = "in"
       /\ scroll' = new_top /\ choice' = new_at
       /\ shown' = [i \in 0 .. max_choice - 1 |-> Line(new_top + i, i = new_at)]
       /\ arrows' = print_arrows(new_top, new_at)
       /\ lit' = 0

\* conf_choice() builds the list and selects the members that are active; when
\* that is none, every comment is taken for it.
Show(member) ==
    /\ active' = member
    /\ button' = 0 /\ stale' = {}
    /\ Setup(0, IF member = NoItem THEN Min(Comments) ELSE member)

Start ==
    /\ open = "menu" /\ Show(value)
    /\ UNCHANGED <<count, list_height, value, result>>

Resize ==
    /\ open = "in"
    /\ Setup(scroll, choice)
    /\ stale' = {"arrows"} \cup {"button" : b \in {button} \ {0}}
    /\ UNCHANGED <<count, list_height, value, active, button, result>>

-----------------------------------------------------------------------------
print_item(lines, line, item, is_lit) == [lines EXCEPT ![line] = Line(item, is_lit)]
wscrl(lines, n) == [i \in DOMAIN lines |-> IF i + n \in DOMAIN lines THEN lines[i + n] ELSE Blank]

\* Mutant of ScrollBy: the highlight is not taken off before the window scrolls.
ScrollByLit(n, line, item) ==
    /\ shown' = print_item(IF list_height > 1 THEN wscrl(shown, n) ELSE shown, line, item, TRUE)
    /\ scroll' = scroll + n
    /\ arrows' = print_arrows(scroll + n, choice)
    /\ UNCHANGED choice

\* At the edge: the highlight is taken off, the window is scrolled, and the
\* line that comes in is highlighted.  A window of one line is overwritten.
ScrollBy(n, line, item) ==
    LET off == print_item(shown, line, scroll + line, FALSE)
    IN /\ shown' = print_item(IF list_height > 1 THEN wscrl(off, n) ELSE shown, line, item, TRUE)
       /\ scroll' = scroll + n
       /\ arrows' = print_arrows(scroll + n, choice)
       /\ UNCHANGED choice

MoveTo(line) ==
    /\ line # choice
    /\ shown' = print_item(print_item(shown, choice, scroll + choice, FALSE), line, scroll + line, TRUE)
    /\ choice' = line
    /\ UNCHANGED <<scroll, arrows>>

KeyUp ==
    \/ choice = 0 /\ scroll > 0 /\ ScrollBy(-1, 0, scroll - 1)
    \/ choice > 0 /\ MoveTo(choice - 1)
KeyDown ==
    \/ choice = max_choice - 1 /\ scroll + choice < count - 1 /\ ScrollBy(1, max_choice - 1, scroll + max_choice)
    \/ choice < max_choice - 1 /\ MoveTo(choice + 1)
Letter ==
    \E letter \in {Letters[i + 1] : i \in scroll .. scroll + max_choice - 1} :
        MoveTo(Min({i \in 0 .. max_choice - 1 : Letters[scroll + i + 1] = letter}))

Move ==
    /\ open = "in"
    /\ KeyUp \/ KeyDown \/ Letter
    /\ UNCHANGED <<open, count, list_height, value, active, button, lit, stale, result>>

Button ==
    /\ open = "in" /\ button' = 1 - button /\ lit' = button' /\ stale' = stale \ {"button"}
    /\ UNCHANGED <<open, count, list_height, value, active, scroll, choice, shown, arrows, result>>

\* 'h' stands for the second button, Enter for the active one.
Leave ==
    /\ open = "in" /\ open' = "back"
    /\ \E help \in BOOLEAN :
         result' = <<IF help THEN 1 ELSE button, scroll + choice>>
    /\ UNCHANGED <<count, list_height, value, active, scroll, choice, button, shown, arrows, lit, stale>>

\* conf_choice() sets the member; after a comment it shows the list again, and
\* after the help it does so with the item the help was about.
Set ==
    /\ open = "back" /\ result[1] = 0 /\ result[2] \notin Comments
    /\ open' = "menu" /\ value' = result[2]
    /\ UNCHANGED <<count, list_height, active, scroll, choice, button, shown, arrows, lit, stale, result>>
Again ==
    /\ open = "back" /\ (result[1] = 1 \/ result[2] \in Comments)
    /\ Show(CASE result[1] = 0 -> active
              [] result[1] = 1 /\ result[2] \in Comments -> NoItem
              [] OTHER -> result[2])
    /\ UNCHANGED <<count, list_height, value, result>>

Escape ==
    /\ open = "in" /\ open' = "menu"
    /\ UNCHANGED <<count, list_height, value, active, scroll, choice, button, shown, arrows, lit, stale, result>>

Next == Start \/ Resize \/ Move \/ Button \/ Leave \/ Set \/ Again \/ Escape

Spec == Init /\ [][Next]_vars

-----------------------------------------------------------------------------
Highlighted(lines) == {lines[i][1] : i \in {j \in DOMAIN lines : lines[j][2]}}

\* The screen is a window of the list with one highlighted line, the indicators
\* hide no item, and what dialog_checklist() has returned, which is what
\* conf_choice() sets, is the item that was highlighted.
ChoiceIsTrue ==
    /\ open = "in" =>
          /\ choice \in 0 .. max_choice - 1 /\ scroll \in 0 .. count - max_choice
          /\ shown = [i \in 0 .. max_choice - 1 |-> Line(scroll + i, i = choice)]
          /\ arrows[1] = (scroll > 0)
          /\ scroll + max_choice < count => arrows[2]
          /\ "arrows" \notin stale => arrows[2] = (scroll + max_choice < count)
          /\ "button" \notin stale => lit = button
    /\ open = "back" => Highlighted(shown) = {result[2]}

\* After the help of a member that member is highlighted again.
HelpComesBack ==
    Again /\ result[2] \notin Comments => Highlighted(shown') = {result[2]}

\* Both, after every step: no list is open at the start. (dialog_checklist)
ListIsTrue == [][ChoiceIsTrue' /\ HelpComesBack]_vars
=============================================================================
