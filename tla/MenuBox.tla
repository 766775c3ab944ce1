------------------------------ MODULE MenuBox ------------------------------
(***************************************************************************)
(* The menu of menuconfig (lxdialog/menubox.c), called by conf() of        *)
(* mconf.c again and again with the item that was picked last and with the *)
(* scroll position it left behind.                                         *)
(*                                                                         *)
(* The program never redraws the list: every key changes the lines that    *)
(* are on the screen, by scrolling the window and by printing single       *)
(* items.  `shown` is what the user sees, item by item; the other          *)
(* variables are those of dialog_menu().  Items are numbered from 0 and    *)
(* fit their line.                                                         *)
(***************************************************************************)
EXTENDS Integers, Sequences, FiniteSetsExt

CONSTANTS
    MaxItems, MaxRows,
    HotKeys,      \* the first letter of each item, as a sequence
    MaxCalls

VARIABLES
    open,         \* "out", "in" dialog_menu(), "closed": conf() has ended, "crashed"
    count, rows,  \* item_count() and menu_height
    selected,     \* the item conf() asks for, NoItem if it is not in the list
    s_scroll,
    scroll, choice, first_item, button,
    shown,        \* the lines: an item and whether it is highlighted
    arrows,       \* the scroll indicators: up, down
    lit,          \* the button drawn as active
    stale,        \* what a resize has drawn otherwise than the variables say
    picked, last, \* the item and the view at the last return
    calls

vars == <<open, count, rows, selected, s_scroll, scroll, choice, first_item, button, shown,
          arrows, lit, stale, picked, last, calls>>

NoItem == -1
Blank == <<NoItem, FALSE>>
Least(a, b) == IF a < b THEN a ELSE b
max_choice == Least(rows, count)
Line(item, is_lit) == <<item, is_lit>>
view == <<scroll, choice, shown>>

\* conf(): nothing has been drawn yet.
Init ==
    /\ open = "out" /\ count = 0 /\ rows = 1 /\ selected = NoItem /\ s_scroll = 0
    /\ scroll = 0 /\ choice = 0 /\ first_item = 0 /\ button = 0 /\ shown = <<>>
    /\ arrows = <<FALSE, FALSE>> /\ lit = 0 /\ stale = {} /\ picked = NoItem /\ last = <<>>
    /\ calls = 0

\* Mutant of Kept: a saved position above the default item is always used.
KeptUnbounded(m, n, wanted, saved) == saved <= wanted /\ 0 <= saved /\ saved + m <= n

\* The saved position is used if it shows the default item and fills the window.
Kept(m, n, wanted, saved) == saved <= wanted /\ wanted < saved + m /\ 0 <= saved /\ saved + m <= n

Centred(m, n, wanted) ==
    IF wanted >= n - m \div 2 THEN n - m ELSE wanted - m \div 2

print_arrows(item_no, at, height) == <<at > 0, height < item_no /\ at + height < item_no>>

\* do_resize: everything up to the first key, with the choice, the first item
\* and the number of items the label is reached with.
Setup(wanted, first, n, height) ==
    LET m == Least(height, n)
        kept == Kept(m, n, wanted, s_scroll)
        top == CASE kept -> s_scroll [] ~kept /\ wanted >= m -> Centred(m, n, wanted) [] OTHER -> 0
        from == IF kept \/ wanted >= m THEN top ELSE first
    IN /\ scroll' = top
       /\ choice' = wanted - top
       /\ first_item' = from
       /\ shown' = [i \in 0 .. m - 1 |-> Line(from + i, i = wanted - top)]
       /\ open' = IF m > 0 /\ from + m > n THEN "crashed" ELSE "in"
       /\ arrows' = print_arrows(n, top, height)
       /\ lit' = 0
       /\ stale' = {"list" : i \in {from} \ {top}} \cup {"button" : b \in {button'} \ {0}}

\* conf() calls with the items of the menu as they are now.
Call ==
    /\ open = "out" /\ calls < MaxCalls
    /\ calls' = calls + 1
    /\ rows' \in 1 .. MaxRows
    /\ count' \in 1 .. MaxItems
    /\ calls > 0 => count' \in count - 1 .. count + 1
    /\ selected' \in {NoItem} \cup IF calls = 0 THEN {} ELSE picked - 1 .. picked + 1 \cap 0 .. count' - 1
    /\ button' = 0
    /\ Setup(IF selected' = NoItem THEN 0 ELSE selected', 0, count', rows')
    /\ UNCHANGED <<s_scroll, picked, last>>

\* The terminal changes its size; without a default item the choice stays what
\* it was relative to the window.
Resize ==
    /\ open = "in"
    /\ rows' \in 1 .. MaxRows \ {rows}
    /\ UNCHANGED <<button, count>>
    /\ Setup(IF selected = NoItem THEN choice ELSE selected, first_item, count, rows')
    /\ UNCHANGED <<selected, s_scroll, picked, last, calls>>

-----------------------------------------------------------------------------
(* Keys.  A state of the list is [scroll, choice, shown]. *)

do_print_item(s, line, item, is_lit) == [s EXCEPT !.shown[line] = Line(item, is_lit)]

\* wscrl(): the line that comes in is empty until it is printed.
do_scroll(s, n) ==
    [s EXCEPT !.scroll = @ + n,
              !.shown = [i \in DOMAIN @ |-> IF i + n \in DOMAIN @ THEN @[i + n] ELSE Blank]]

ScrollDown(s) == do_print_item(do_scroll(s, -1), 0, s.scroll - 1, FALSE)
ScrollUp(s, m) == do_print_item(do_scroll(s, 1), m - 1, s.scroll + m, FALSE)

KeyUp(s) ==
    IF s.choice < 2 /\ s.scroll > 0 THEN ScrollDown(s)
    ELSE [s EXCEPT !.choice = IF @ > 0 THEN @ - 1 ELSE 0]
KeyDown(s, m, n) ==
    IF s.choice > m - 3 /\ s.scroll + m < n THEN ScrollUp(s, m)
    ELSE [s EXCEPT !.choice = Least(@ + 1, m - 1)]
PageUp(s) ==
    IF s.scroll > 0 THEN ScrollDown(s) ELSE [s EXCEPT !.choice = IF @ > 0 THEN @ - 1 ELSE 0]
PageDown(s, m, n) ==
    IF s.scroll + m < n THEN ScrollUp(s, m) ELSE [s EXCEPT !.choice = Least(@ + 1, m - 1)]

\* A page is max_choice single steps.
Repeat(Step(_), s, m) == LET f[k \in 0 .. m] == IF k = 0 THEN s ELSE Step(f[k - 1]) IN f[m]

\* The lines whose item starts with the letter: the next one after the choice,
\* else the first of the window.
Matches(letter) == {i \in 0 .. max_choice - 1 : scroll + i < count /\ HotKeys[scroll + i + 1] = letter}
HotKey(letter) ==
    LET after == {i \in Matches(letter) : i > choice}
    IN IF after # {} THEN Min(after) ELSE Min(Matches(letter))

\* Every move takes the highlight off, moves, and puts the highlight on.
Unlit == do_print_item([scroll |-> scroll, choice |-> choice, shown |-> shown], choice, scroll + choice, FALSE)

Lit(s) ==
    /\ scroll' = s.scroll /\ choice' = s.choice
    /\ shown' = do_print_item(s, s.choice, s.scroll + s.choice, TRUE).shown
    /\ arrows' = print_arrows(count, s.scroll, rows)

Move ==
    /\ open = "in" /\ count > 0
    /\ \/ Lit(KeyUp(Unlit))
       \/ Lit(KeyDown(Unlit, max_choice, count))
       \/ Lit(Repeat(PageUp, Unlit, max_choice))
       \/ Lit(Repeat(LAMBDA s : PageDown(s, max_choice, count), Unlit, max_choice))
       \/ \E letter \in Range(HotKeys) :
             /\ Matches(letter) # {}
             /\ Lit([Unlit EXCEPT !.choice = HotKey(letter)])
    /\ UNCHANGED <<open, count, rows, selected, s_scroll, first_item, button, lit, stale, picked, last, calls>>

Button ==
    /\ open = "in"
    /\ \E key \in {-1, 1} :
         button' = CASE button + key < 0 -> 4 [] button + key > 4 -> 0 [] OTHER -> button + key
    /\ lit' = button' /\ stale' = stale \ {"button"}
    /\ UNCHANGED <<open, count, rows, selected, s_scroll, scroll, choice, first_item, shown, arrows,
                   picked, last, calls>>

\* Enter or a key with a meaning of its own: the item of the choice is picked,
\* and conf() remembers where the window was.  Enter on Exit ends conf().
Leave ==
    /\ open = "in" /\ open' \in {"out"} \cup {"closed" : b \in {button} \cap {1}}
    /\ s_scroll' = scroll
    /\ picked' = scroll + choice
    /\ last' = IF "list" \in stale THEN <<>> ELSE <<count, rows, view>>
    /\ UNCHANGED <<count, rows, selected, scroll, choice, first_item, button, shown, arrows, lit, stale, calls>>

Escape ==
    /\ open = "in" /\ open' = "closed"
    /\ UNCHANGED <<count, rows, selected, s_scroll, scroll, choice, first_item, button, shown, arrows,
                   lit, stale, picked, last, calls>>

Next == Call \/ Resize \/ Move \/ Button \/ Leave \/ Escape

Spec == Init /\ [][Next]_vars

-----------------------------------------------------------------------------
\* Line by line the screen is a window of the list, without gaps, repetitions
\* or items that do not exist; the one highlighted line is the item that Enter
\* picks, the indicators say whether there is more, and the button drawn active
\* is the one that Enter means.
ScreenIsTrue ==
    open = "in" =>
        /\ choice \in 0 .. max_choice - 1 /\ scroll \in 0 .. count - max_choice
        /\ "list" \notin stale =>
              /\ shown = [i \in 0 .. max_choice - 1 |-> Line(scroll + i, i = choice)]
              /\ arrows = <<shown[0][1] > 0, shown[max_choice - 1][1] < count - 1>>
        /\ "button" \notin stale => lit = button

\* A menu that is shown again, with as many items and for the item that was
\* picked, looks as it did.
PlaceIsKept ==
    Call /\ last # <<>> /\ selected' = picked =>
        (last[1] = count' /\ last[2] = rows' => view' = last[3])

\* Both, after every step: nothing is on the screen at the start. (dialog_menu)
MenuIsTrue == [][ScreenIsTrue' /\ PlaceIsKept]_vars
=============================================================================
