------------------------------ MODULE TextBox ------------------------------
(***************************************************************************)
(* The pager of menuconfig (lxdialog/textbox.c), which shows help texts,   *)
(* and search_conf() of mconf.c, which shows its results in it: the        *)
(* entries on the screen get digits, a digit leads to the menu of its      *)
(* entry, and afterwards the results are shown again.                      *)
(*                                                                         *)
(* A position of the text is an index from 0; the text is a sequence of    *)
(* line ends (NL) and of other characters, followed by the end (in C, the  *)
(* byte 0).  The program keeps no line numbers: it walks over the text.    *)
(***************************************************************************)
EXTENDS Integers, Sequences, FiniteSetsExt

CONSTANTS
    Texts,        \* texts and the positions of their entries: [text, entries]
    MaxHeight, MaxMargin,
    JUMP_NB,      \* how many entries can have a digit at the same time: 9
    MaxOpens,
    NL

VARIABLES
    open,         \* dialog_textbox() is running
    doc,
    search,       \* update_text is update_text(): the text is a search result
    boxh,         \* the height of the window
    margin,       \* the lines of the dialogue around it
    page, begin_reached, end_reached, page_length,
    top,          \* the position of the first line on the screen
    header,       \* what the text says before each entry: a digit, or 0
    keys,         \* the digits that are answered, and their entries
    vscroll,
    target,       \* the entry that was jumped to last
    opens

vars == <<open, doc, search, boxh, margin, page, begin_reached, end_reached, page_length, top,
          header, keys, vscroll, target, opens>>

End == Len(doc.text)
NewLines(from, to) == {i \in from .. to : doc.text[i + 1] = NL}
At(p, begin, end) == [page |-> p, begin |-> begin, end |-> end]

\* The next line.  The end of the text is reached in the attempt to read on.
get_line(s) ==
    IF NewLines(s.page, End - 1) = {} THEN At(End, s.begin, TRUE)
    ELSE At(Min(NewLines(s.page, End - 1)) + 1, s.begin, FALSE)

\* One step back: to the start of the line that ends before the page.
LineBefore(s) ==
    IF NewLines(0, s.page - 2) = {} THEN At(0, TRUE, s.end)
    ELSE At(Max(NewLines(0, s.page - 2)) + 1, FALSE, s.end)

\* An end that has been reached counts as a line.
BackOne(s) ==
    CASE s.begin -> s
      [] ~s.begin /\ s.page = End /\ s.end -> At(s.page, FALSE, FALSE)
      [] ~s.begin /\ s.page = 0 /\ ~(s.page = End /\ s.end) -> At(0, TRUE, s.end)
      [] OTHER -> LineBefore(s)

Times(Step(_), s, n) ==
    LET t[k \in 0 .. n] == IF k = 0 THEN s ELSE Step(t[k - 1])
    IN  t[n]

back_lines(s, n) == Times(BackOne, At(s.page, FALSE, s.end), n)

\* update_text: with the results of a search, the page is moved back until it
\* fills the window.
Filled(height, s) ==
    IF search THEN back_lines(Times(get_line, s, height), height) ELSE s

\* Mutant of LengthFrom: the line in which the end is reached is not counted.
LengthFromShort(height, s) == Cardinality({k \in 1 .. height : ~Times(get_line, s, k).end})

\* How many lines are read until the end is reached, at most all.
LengthFrom(height, s) ==
    LET reached == {k \in 1 .. height : Times(get_line, s, k).end}
    IN IF reached = {} THEN height ELSE Min(reached)

\* update_text(): the entries on the page get the digits from their number.
Digit(entry) == ((entry - 1) % JUMP_NB) + 1
OnPage(from, to) == {e \in DOMAIN doc.entries : from <= doc.entries[e] /\ doc.entries[e] < to}
Numbered(from, to) ==
    {e \in OnPage(from, to) : Cardinality({o \in OnPage(from, to) : o < e}) < JUMP_NB}

update_text(from, to) ==
    IF search
    THEN /\ keys' = {<<Digit(e), e>> : e \in Numbered(from, to)}
         /\ header' = [e \in DOMAIN doc.entries |->
                          CASE e \in Numbered(from, to) -> Digit(e)
                            [] e \in OnPage(from, to) \ Numbered(from, to) -> 0
                            [] OTHER -> header[e]]
    ELSE UNCHANGED <<keys, header>>

\* print_page(): the page moves on to what follows the window.
print_page(height, from) ==
    \E s \in {Filled(height, from)} : \E e \in {Times(get_line, s, height)} :
        /\ update_text(s.page, e.page)
        /\ top' = s.page /\ begin_reached' = s.begin
        /\ page' = e.page /\ end_reached' = e.end
        /\ page_length' = LengthFrom(height, s)

Now == At(page, begin_reached, end_reached)

-----------------------------------------------------------------------------
Init ==
    /\ open = FALSE /\ doc \in Texts /\ search \in BOOLEAN
    /\ doc.entries # <<>> => search
    /\ boxh \in 1 .. MaxHeight /\ margin = MaxMargin
    /\ page = 0 /\ begin_reached = TRUE /\ end_reached = FALSE /\ page_length = 0 /\ top = 0
    /\ header = [e \in DOMAIN doc.entries |-> 0] /\ keys = {} /\ vscroll = 0 /\ target = 0
    /\ opens = 0

\* dialog_textbox(): from the line it was left at.
Open ==
    /\ ~open /\ open' = TRUE /\ opens < MaxOpens /\ opens' = opens + 1
    /\ boxh' = boxh
    /\ print_page(boxh, Times(get_line, At(0, vscroll = 0, FALSE), vscroll))
    /\ UNCHANGED <<doc, search, margin, vscroll, target>>

Show(s) ==
    /\ open /\ boxh' = boxh /\ print_page(boxh, s)
    /\ UNCHANGED <<open, doc, search, margin, vscroll, target, opens>>

Home == ~begin_reached /\ Show(At(0, TRUE, end_reached))
LastPage == Show(back_lines(At(End, begin_reached, TRUE), boxh))
LineUp == ~begin_reached /\ Show(back_lines(Now, page_length + 1))
PageUp == ~begin_reached /\ Show(back_lines(Now, page_length + boxh))
LineDown == ~end_reached /\ Show(back_lines(Now, page_length - 1))
PageDown == ~end_reached /\ Show(At(page, FALSE, end_reached))
Sideways == Show(back_lines(Now, page_length))

\* The height by which the page goes back is that of the dialogue.
Resize ==
    /\ open
    /\ \E height \in 1 .. MaxHeight \ {boxh} :
         boxh' = height /\ print_page(height, back_lines(Now, boxh + margin))
    /\ UNCHANGED <<open, doc, search, margin, vscroll, target, opens>>

\* A digit: dialog_textbox() says where the page is, and after the menu of the
\* entry search_conf() makes the text anew and shows it.
Jump ==
    /\ open /\ open' = FALSE
    /\ \E key \in keys : target' = key[2]
    /\ LET s == back_lines(Now, page_length)
       IN /\ vscroll' = Cardinality(NewLines(0, s.page - 1))
          /\ page' = s.page /\ begin_reached' = s.begin /\ end_reached' = s.end
    /\ header' = [e \in DOMAIN header |-> 0]
    /\ UNCHANGED <<doc, search, boxh, margin, page_length, top, keys, opens>>

\* Any other key that ends the dialogue.
Leave ==
    /\ open /\ open' = FALSE /\ vscroll' = 0
    /\ header' = [e \in DOMAIN header |-> 0]
    /\ UNCHANGED <<doc, search, boxh, margin, page, begin_reached, end_reached, page_length, top,
                   keys, target, opens>>

Next ==
    \/ Open \/ Home \/ LastPage \/ LineUp \/ PageUp \/ LineDown \/ PageDown \/ Sideways \/ Resize
    \/ Jump \/ Leave

Spec == Init /\ [][Next]_vars

-----------------------------------------------------------------------------
\* The program's texts end with a line end.
Terminated == End > 0 /\ doc.text[End] = NL
LineOf(p) == Cardinality(NewLines(0, p - 1))
Lines == LineOf(End)

\* The marks that stop the keys say where the window is, and a digit on the
\* screen leads to the entry it stands at.
PageIsTrue ==
    open /\ Terminated =>
        /\ top = 0 \/ doc.text[top] = NL
        /\ begin_reached = (top = 0)
        /\ end_reached = (LineOf(top) + boxh > Lines)
        /\ LineOf(top) + page_length = LineOf(page) + (IF end_reached THEN 1 ELSE 0)
        /\ search => \A e \in DOMAIN doc.entries :
              top <= doc.entries[e] /\ doc.entries[e] < page =>
                 /\ header[e] # 0 => \A key \in keys : key[1] = header[e] <=> key[2] = e
                 /\ header[e] = 0 => Cardinality(keys) = JUMP_NB

\* Results of a search are never moved up beyond the last full window.
Bounded(line) ==
    LET lowest == IF Lines + 1 > boxh THEN Lines + 1 - boxh ELSE 0
    IN IF search /\ line > lowest THEN lowest ELSE line

\* Every key moves the window by what it says, whether or not the end is on the
\* screen: a line, a page without a gap, not at all; and the results of a search
\* are shown again where they were left.
KeysMoveTheWindow ==
    open /\ Terminated =>
        /\ LineUp => LineOf(top') = LineOf(top) - 1
        /\ LineDown => LineOf(top') = LineOf(top) + 1
        /\ PageUp => LineOf(top') = IF LineOf(top) > boxh THEN LineOf(top) - boxh ELSE 0
        /\ PageDown => LineOf(top') = Bounded(LineOf(top) + page_length)
        /\ Sideways => top' = top
        /\ Jump => vscroll' = LineOf(top)

\* Both, after every step: no text is open at the start. (dialog_textbox)
PagerIsTrue == [][PageIsTrue' /\ KeysMoveTheWindow]_vars
=============================================================================
