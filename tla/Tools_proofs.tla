---------------------------- MODULE Tools_proofs ----------------------------
(***************************************************************************)
(* Proofs about programs of Tools, for all values of their constants: the  *)
(* input lines of menuconfig and nconfig, silentoldconfig before a build,  *)
(* the toolchain wrapper, the menu, the list and the pager of menuconfig,  *)
(* makedevs.                                                               *)
(* Every program keeps an invariant of its own; the step of another one    *)
(* leaves its variables alone.                                             *)
(***************************************************************************)
EXTENDS Tools, SequenceTheorems, FiniteSetTheorems, WellFoundedInduction, TLAPS

-----------------------------------------------------------------------------
(***************************************************************************)
(* Redrawing stops one blank behind the end of the text, so the field is   *)
(* right after a key because it was blank there before: the text never     *)
(* ends two columns further left than it did.  `stale\' and `lit\' follow   *)
(* from what button was.                                                   *)
(***************************************************************************)
Typed ==
    /\ instr \in Seq(Chars) /\ value \in Seq(Chars)
    /\ show_x \in Int /\ input_x \in Int /\ pos \in Int
    /\ open \in {"menu", "in", "back"}
InputInv == Typed /\ LineIsTrue

Shows ==
    /\ field = Window(instr, show_x)
    /\ pos = show_x + input_x /\ input_x \in Columns /\ show_x >= 0 /\ pos <= len

LEMMA RedrawnIsWindow ==
    ASSUME field = Window(instr, show_x), NEW text \in Seq(Chars), NEW from \in Int,
           instr \in Seq(Chars), show_x \in Int,
           Len(text) - from >= Len(instr) - show_x - 1
    PROVE  Redrawn(text, from) = Window(text, from)
<1>1. Columns = 0 .. box_width - 1 /\ box_width \in Nat
  BY WidthAssumption DEF Columns
<1>2. ASSUME NEW i \in Columns
      PROVE  Redrawn(text, from)[i] = Window(text, from)[i]
  <2>1. i \in Int /\ Len(text) \in Nat /\ Len(instr) \in Nat
    BY <1>1
  <2>2. CASE from + i <= Len(text)
    <3>1. from + i < Len(text) \/ (from + i = Len(text) /\ ~ from + i < Len(text))
      BY <2>1, <2>2
    <3> QED
      BY <3>1 DEF Redrawn, Window
  <2>3. CASE from + i > Len(text)
    <3>1. ~ show_x + i < Len(instr) /\ ~ from + i < Len(text) /\ from + i # Len(text)
      BY <2>1, <2>3
    <3>2. field[i] = Space
      BY <3>1 DEF Window
    <3> QED
      BY <3>1, <3>2 DEF Redrawn, Window
  <2> QED
    BY <2>1, <2>2, <2>3
<1> QED
  BY <1>2 DEF Redrawn, Window

LEMMA InsertedLength ==
    ASSUME NEW s \in Seq(Chars), NEW at \in 0 .. Len(s), NEW c \in Chars
    PROVE  Inserted(s, at, c) \in Seq(Chars) /\ Len(Inserted(s, at, c)) = Len(s) + 1
<1>1. SubSeq(s, 1, at) \in Seq(Chars) /\ Len(SubSeq(s, 1, at)) = at
  OBVIOUS
<1>2. SubSeq(s, at + 1, Len(s)) \in Seq(Chars) /\ Len(SubSeq(s, at + 1, Len(s))) = Len(s) - at
  OBVIOUS
<1>3. <<c>> \in Seq(Chars) /\ Len(<<c>>) = 1
  OBVIOUS
<1>4. SubSeq(s, 1, at) \o <<c>> \in Seq(Chars) /\ Len(SubSeq(s, 1, at) \o <<c>>) = at + 1
  BY <1>1, <1>3, ConcatProperties
<1> DEFINE before == SubSeq(s, 1, at) \o <<c>>
           after == SubSeq(s, at + 1, Len(s))
<1>5. Inserted(s, at, c) = before \o after
  BY DEF Inserted
<1>6. at \in Int /\ Len(s) \in Nat /\ at + 1 + (Len(s) - at) = Len(s) + 1
  OBVIOUS
<1>7. before \in Seq(Chars) /\ after \in Seq(Chars) /\ Len(before) + Len(after) = Len(s) + 1
  BY <1>2, <1>4, <1>6
<1> HIDE DEF before, after
<1> QED
  BY <1>5, <1>7, ConcatProperties

LEMMA DeletedLength ==
    ASSUME NEW s \in Seq(Chars), NEW at \in 1 .. Len(s)
    PROVE  Deleted(s, at) \in Seq(Chars) /\ Len(Deleted(s, at)) = Len(s) - 1
<1>1. SubSeq(s, 1, at - 1) \in Seq(Chars) /\ Len(SubSeq(s, 1, at - 1)) = at - 1
  OBVIOUS
<1>2. SubSeq(s, at + 1, Len(s)) \in Seq(Chars) /\ Len(SubSeq(s, at + 1, Len(s))) = Len(s) - at
  OBVIOUS
<1> DEFINE before == SubSeq(s, 1, at - 1)
           after == SubSeq(s, at + 1, Len(s))
<1>3. Deleted(s, at) = before \o after
  BY DEF Deleted
<1>4. at \in Int /\ Len(s) \in Nat /\ at - 1 + (Len(s) - at) = Len(s) - 1
  OBVIOUS
<1>5. before \in Seq(Chars) /\ after \in Seq(Chars) /\ Len(before) + Len(after) = Len(s) - 1
  BY <1>1, <1>2, <1>4
<1> HIDE DEF before, after
<1> QED
  BY <1>3, <1>5, ConcatProperties

LEMMA SetupShows ==
    ASSUME NEW text \in Seq(Chars), Setup(text)
    PROVE  /\ Shows' /\ instr' = text /\ show_x' \in Int /\ input_x' \in Int /\ pos' \in Int
           /\ lit' = print_buttons(0)
<1>1. Len(text) \in Nat /\ box_width \in Nat \ {0}
  BY WidthAssumption
<1>2. field' = Window(instr', show_x') /\ Window(instr', show_x') = Window(instr, show_x)'
  BY DEF Setup, Window, Columns
<1>3. pos' = show_x' + input_x' /\ input_x' \in 0 .. box_width - 1 /\ show_x' >= 0 /\ pos' <= Len(instr')
  BY <1>1 DEF Setup
<1> QED
  BY <1>1, <1>2, <1>3 DEF Setup, Shows, Columns, len

LEMMA InputInit == Init => InputInv
<1> SUFFICES ASSUME Init PROVE InputInv
  OBVIOUS
<1>1. box_width + 1 \in Nat
  BY WidthAssumption
<1>2. value \in Seq(Chars) /\ Accepts(value)
  <2>1. CASE value = <<>>
    BY <2>1 DEF Accepts
  <2>2. CASE value \in [1 .. box_width + 1 -> Chars \ {Invalid}]
    BY <1>1, <2>2 DEF Accepts
  <2> QED
    BY <2>1, <2>2 DEF Init
<1>3. open = "menu"
  BY DEF Init
<1> QED
  BY <1>2, <1>3 DEF Init, InputInv, Typed, LineIsTrue

LEMMA InputStep == InputInv /\ [Next]_vars => InputInv'
<1> SUFFICES ASSUME InputInv, [Next]_vars PROVE InputInv'
  OBVIOUS
<1>0. /\ Typed /\ Accepts(value) /\ Len(instr) \in Nat /\ len = Len(instr)
      /\ open = "in" => Shows /\ (~ stale => lit = print_buttons(button))
      /\ box_width \in Nat \ {0} /\ Columns = 0 .. box_width - 1
  BY WidthAssumption DEF InputInv, LineIsTrue, Typed, Shows, len, Columns
\* It is enough to show what LineIsTrue says of an open field.
<1>1. ASSUME Typed', Accepts(value'), open' = "in" => Shows' /\ (~ stale' => lit' = print_buttons(button'))
      PROVE  InputInv'
  BY <1>1 DEF InputInv, LineIsTrue, Typed, Shows, len, Columns, Accepts, print_buttons, Window
\* A step that leaves the text and the window alone.
<1>2. ASSUME UNCHANGED <<value, instr, pos, show_x, input_x, field>>, open' = open \/ open' \in {"menu", "back"},
             open' = "in" /\ ~ stale' => lit' = print_buttons(button')
      PROVE  InputInv'
  <2>1. Shows' = Shows
    BY <1>2 DEF Shows, Window, Columns, len
  <2> QED
    BY <1>0, <1>1, <1>2, <2>1 DEF Typed
\* A key that changes the text or moves it.
<1>3. ASSUME NEW text \in Seq(Chars), NEW from \in Int, NEW column \in Columns,
             open = "in", from >= 0, from + column <= Len(text),
             Len(text) - from >= Len(instr) - show_x - 1,
             instr' = text, show_x' = from, input_x' = column, pos' = from + column,
             field' = Redrawn(text, from) \/ (field' = field /\ text = instr /\ from = show_x),
             UNCHANGED <<open, value, button, lit, stale>>
      PROVE  InputInv'
  <2>1. field' = Window(text, from)
    BY <1>0, <1>3, RedrawnIsWindow DEF Typed, Shows
  <2>2. Window(text, from) = Window(instr, show_x)'
    BY <1>3 DEF Window, Columns
  <2>3. Shows'
    BY <1>3, <2>1, <2>2 DEF Shows, len, Columns
  <2>4. Typed'
    BY <1>0, <1>3 DEF Typed
  <2> QED
    BY <1>0, <1>1, <1>3, <2>3, <2>4
<1>4. open = "in" => /\ pos = show_x + input_x /\ input_x \in 0 .. box_width - 1 /\ show_x >= 0
                     /\ pos <= Len(instr) /\ pos \in Int /\ show_x \in Int
  BY <1>0 DEF Shows, Typed
<1>5. CASE UNCHANGED vars
  BY <1>0, <1>2, <1>5 DEF vars
<1>6. CASE Start \/ Resize
  <2>1. PICK text \in {value, instr} : Setup(text)
    BY <1>6 DEF Start, Resize
  <2>2. /\ Shows' /\ instr' = text /\ show_x' \in Int /\ input_x' \in Int /\ pos' \in Int
        /\ lit' = print_buttons(0)
    BY <1>0, <2>1, SetupShows DEF Typed
  <2>3. ~ stale' => lit' = print_buttons(button')
    <3>1. Start => button' = -1
      BY DEF Start
    <3>2. Resize /\ ~ stale' => button' # 1
      BY DEF Resize
    <3>3. button' # 1 => print_buttons(button') = print_buttons(0)
      BY DEF print_buttons
    <3> QED
      BY <1>6, <2>2, <3>1, <3>2, <3>3
  <2>4. value' = value /\ open' = "in"
    BY <1>6 DEF Start, Resize
  <2> QED
    BY <1>0, <1>1, <2>2, <2>3, <2>4 DEF Typed
<1>7. CASE Type
  <2>1. PICK c \in Chars : Edited(Inserted(instr, pos, c), IF input_x = box_width - 1 THEN show_x + 1 ELSE show_x)
    BY <1>7 DEF Type
  <2> DEFINE text == Inserted(instr, pos, c)
             from == IF input_x = box_width - 1 THEN show_x + 1 ELSE show_x
             column == IF input_x = box_width - 1 THEN input_x ELSE input_x + 1
  <2>2. open = "in" /\ pos' = pos + 1 /\ input_x' = column
    BY <1>7 DEF Type, Typing
  <2>3. text \in Seq(Chars) /\ Len(text) = Len(instr) + 1
    <3>1. instr \in Seq(Chars) /\ pos \in 0 .. Len(instr)
      BY <1>0, <1>4, <2>2 DEF Typed
    <3> QED
      BY <3>1, InsertedLength
  <2>4. /\ from \in Int /\ column \in Columns /\ from >= 0 /\ from + column = pos + 1
        /\ pos + 1 <= Len(instr) + 1 /\ Len(instr) + 1 - from >= Len(instr) - show_x - 1
    BY <1>0, <1>4, <2>2
  <2>5. instr' = text /\ show_x' = from /\ field' = Redrawn(text, from) /\ UNCHANGED <<open, value, button, lit, stale>>
    BY <2>1 DEF Edited
  <2> HIDE DEF text, from, column
  <2> QED
    BY <1>3, <2>2, <2>3, <2>4, <2>5
<1>8. CASE Backspace
  <2> DEFINE text == Deleted(instr, pos)
             from == IF input_x = 0 THEN show_x - 1 ELSE show_x
             column == IF input_x = 0 THEN 0 ELSE input_x - 1
  <2>1. open = "in" /\ pos > 0 /\ pos' = pos - 1 /\ input_x' = column
    BY <1>8 DEF Backspace, Typing
  <2>2. text \in Seq(Chars) /\ Len(text) = Len(instr) - 1
    BY <1>0, <1>4, <2>1, DeletedLength DEF Typed
  <2>3. /\ from \in Int /\ column \in Columns /\ from >= 0 /\ from + column = pos - 1
        /\ pos - 1 <= Len(instr) - 1 /\ Len(instr) - 1 - from >= Len(instr) - show_x - 1
    BY <1>0, <1>4, <2>1
  <2>4. instr' = text /\ show_x' = from /\ field' = Redrawn(text, from) /\ UNCHANGED <<open, value, button, lit, stale>>
    BY <1>8 DEF Backspace, Edited
  <2> HIDE DEF text, from, column
  <2> QED
    BY <1>3, <2>1, <2>2, <2>3, <2>4
<1>9. CASE Left \/ Right
  <2>1. open = "in"
    BY <1>9 DEF Left, Right, Typing
  <2>2. PICK from \in Int, column \in Columns, at \in Int :
           /\ Moved(from, column, at) /\ at = from + column /\ from >= 0 /\ at <= Len(instr)
           /\ from <= show_x + 1
    <3>1. CASE Left
      BY <1>0, <1>4, <2>1, <3>1 DEF Left
    <3>2. CASE Right
      BY <1>0, <1>4, <2>1, <3>2 DEF Right
    <3> QED
      BY <1>9, <3>1, <3>2
  <2>3. /\ instr' = instr /\ show_x' = from /\ input_x' = column /\ pos' = at
        /\ UNCHANGED <<open, value, button, lit, stale>>
        /\ field' = Redrawn(instr, from) \/ (field' = field /\ from = show_x)
    BY <2>2 DEF Moved
  <2>4. instr \in Seq(Chars) /\ Len(instr) - from >= Len(instr) - show_x - 1
    BY <1>0, <1>4, <2>1, <2>2 DEF Typed
  <2> QED
    BY <1>3, <2>1, <2>2, <2>3, <2>4
<1>10. CASE Button
  BY <1>0, <1>2, <1>10 DEF Button
<1>11. CASE Enter \/ Escape
  BY <1>2, <1>11 DEF Enter, Escape
<1>12. CASE SetValue
  <2>1. UNCHANGED <<instr, pos, show_x, input_x, field, button, lit, stale>> /\ open' # "in"
    BY <1>12 DEF SetValue
  <2>2. value' \in Seq(Chars) /\ Accepts(value') /\ open' \in {"menu", "back"}
    BY <1>0, <1>12 DEF SetValue, Typed
  <2> QED
    BY <1>0, <1>1, <2>1, <2>2 DEF Typed
<1> QED
  BY <1>5, <1>6, <1>7, <1>8, <1>9, <1>10, <1>11, <1>12 DEF Next

-----------------------------------------------------------------------------
(***************************************************************************)
(* nconfig's line is redrawn as a whole after every key.  Its column is    *)
(* never right of its position in the text, so the window starts inside    *)
(* the text and the column shows what the next key acts on.                *)
(***************************************************************************)
NInputInv ==
    /\ n_result \in Seq(Chars) /\ result_len \in Nat
    /\ n_open => /\ cursor_position \in 0 .. Len(n_result) /\ cursor_form_win \in 0 .. prompt_width - 1
                 /\ cursor_form_win <= cursor_position
                 /\ form_win = NInput!Window(n_result, cursor_position - cursor_form_win)
                 /\ Len(n_result) + 1 <= result_len

\* What the screen shows under the cursor.
LEMMA NInputShows == NInputInv => NInput!WindowIsTrue
<1> SUFFICES ASSUME NInputInv, n_open PROVE NInput!WindowIsTrue
  BY DEF NInput!WindowIsTrue
<1> USE DEF NInputInv
<1>1. /\ Len(n_result) \in Nat /\ NInput!len = Len(n_result)
      /\ NInput!Columns = 0 .. prompt_width - 1 /\ prompt_width \in Nat \ {0}
  BY PromptAssumption DEF NInput!len, NInput!Columns
<1>2. cursor_position - cursor_form_win + cursor_form_win = cursor_position
  BY <1>1
<1>3. form_win[cursor_form_win] = IF cursor_position < Len(n_result) THEN n_result[cursor_position + 1] ELSE Space
  BY <1>1, <1>2 DEF NInput!Window
<1> QED
  BY <1>1, <1>3 DEF NInput!WindowIsTrue

\* A key leaves the cursor inside the window.
LEMMA NInputKey ==
    ASSUME NEW text \in Seq(Chars), NEW position \in 0 .. Len(text), NEW column \in Int,
           column <= position, NInput!Key(text, position, column),
           result_len' \in Nat, Len(text) + 1 <= result_len'
    PROVE  NInputInv'
<1> DEFINE c == NInput!Clamped(column)
<1>1. prompt_width \in Nat \ {0} /\ Len(text) \in Nat
  BY PromptAssumption
<1>2. c \in 0 .. prompt_width - 1 /\ c <= position
  BY <1>1 DEF NInput!Clamped
<1>3. /\ n_result' = text /\ cursor_position' = position /\ cursor_form_win' = c
      /\ form_win' = NInput!Window(text, position - c)
  BY DEF NInput!Key
<1>4. NInput!Window(text, position - c) = NInput!Window(n_result, cursor_position - cursor_form_win)'
  BY <1>3 DEF NInput!Window, NInput!Columns
<1> HIDE DEF c
<1> QED
  BY <1>1, <1>2, <1>3, <1>4 DEF NInputInv

LEMMA NInputInit == NInput!Init => NInputInv
<1> SUFFICES ASSUME NInput!Init PROVE NInputInv
  OBVIOUS
<1>1. n_result = <<>> /\ result_len \in 1 .. 2 /\ ~ n_open
  BY DEF NInput!Init
<1> QED
  BY <1>1 DEF NInputInv

LEMMA NInputStep == NInputInv /\ [NInput!Next]_ninputVars => NInputInv'
<1> SUFFICES ASSUME NInputInv, [NInput!Next]_ninputVars PROVE NInputInv'
  OBVIOUS
<1>0. n_result \in Seq(Chars) /\ result_len \in Nat /\ Len(n_result) \in Nat /\ prompt_width \in Nat \ {0}
  BY PromptAssumption DEF NInputInv
\* A key does something while the window is open only.
<1>1. ASSUME NEW text, NEW position, NEW column, NInput!Key(text, position, column)
      PROVE  /\ cursor_position \in 0 .. Len(n_result) /\ cursor_form_win \in 0 .. prompt_width - 1
             /\ cursor_form_win <= cursor_position /\ Len(n_result) + 1 <= result_len
             /\ NInput!len = Len(n_result)
  BY <1>1 DEF NInput!Key, NInputInv, NInput!len
<1>2. CASE UNCHANGED ninputVars
  BY <1>2 DEF ninputVars, NInputInv, NInput!Window, NInput!Columns
<1>3. CASE NInput!Start
  <2>1. PICK init \in UNION {[1 .. n -> Chars] : n \in 0 .. prompt_width + 1} :
           /\ n_result' = init
           /\ result_len' = IF Len(init) + 1 > result_len THEN Len(init) + 1 ELSE result_len
           /\ cursor_position' = Len(init)
           /\ cursor_form_win' = NInput!Least(Len(init), prompt_width - 1)
    BY <1>3 DEF NInput!Start
  <2>2. init \in Seq(Chars) /\ Len(init) \in Nat
    <3>1. PICK n \in 0 .. prompt_width + 1 : init \in [1 .. n -> Chars]
      OBVIOUS
    <3>2. n \in Nat
      BY <1>0
    <3> QED
      BY <3>1, <3>2
  <2>3. form_win' = NInput!Window(n_result', cursor_position' - cursor_form_win')
    BY <1>3 DEF NInput!Start
  <2>4. form_win' = NInput!Window(n_result, cursor_position - cursor_form_win)'
    BY <2>3 DEF NInput!Window, NInput!Columns
  <2>5. /\ cursor_form_win' \in 0 .. prompt_width - 1 /\ cursor_form_win' <= cursor_position'
        /\ result_len' \in Nat /\ Len(init) + 1 <= result_len'
    BY <1>0, <2>1, <2>2 DEF NInput!Least
  <2> QED
    BY <2>1, <2>2, <2>4, <2>5 DEF NInputInv
<1>4. CASE NInput!Backspace
  <2>1. /\ NInput!Key(Deleted(n_result, cursor_position), cursor_position - 1, cursor_form_win - 1)
        /\ cursor_position > 0 /\ result_len' = result_len
    BY <1>4 DEF NInput!Backspace, Deleted, NInput!len
  <2>2. cursor_position \in 1 .. Len(n_result)
    BY <1>0, <1>1, <2>1
  <2>3. /\ Deleted(n_result, cursor_position) \in Seq(Chars)
        /\ Len(Deleted(n_result, cursor_position)) = Len(n_result) - 1
    BY <1>0, <2>2, DeletedLength
  <2>4. /\ cursor_position - 1 \in 0 .. Len(n_result) - 1 /\ cursor_form_win - 1 \in Int
        /\ cursor_form_win - 1 <= cursor_position - 1 /\ Len(n_result) - 1 + 1 <= result_len
    BY <1>0, <1>1, <2>1, <2>2
  <2> QED
    BY <1>0, <2>1, <2>3, <2>4, NInputKey
<1>5. CASE NInput!Delete
  <2>1. /\ NInput!Key(SubSeq(n_result, 1, cursor_position) \o SubSeq(n_result, cursor_position + 2, Len(n_result)),
                      cursor_position, cursor_form_win)
        /\ cursor_position < Len(n_result) /\ result_len' = result_len
    BY <1>5 DEF NInput!Delete, NInput!len
  <2>2. cursor_position + 1 \in 1 .. Len(n_result) /\ cursor_position + 1 - 1 = cursor_position
        /\ cursor_position + 1 + 1 = cursor_position + 2
    BY <1>0, <1>1, <2>1
  <2>3. NInput!Key(Deleted(n_result, cursor_position + 1), cursor_position, cursor_form_win)
    <3>1. PICK at \in Int : at = cursor_position + 1
      BY <2>2
    <3>2. at - 1 = cursor_position /\ at + 1 = cursor_position + 2
      <4>1. cursor_position \in Int
        BY <1>0, <1>1, <2>1
      <4> QED
        BY <3>1, <4>1
    <3>3. Deleted(n_result, at) = SubSeq(n_result, 1, cursor_position) \o SubSeq(n_result, cursor_position + 2, Len(n_result))
      BY <3>2, Zenon DEF Deleted
    <3>4. NInput!Key(Deleted(n_result, at), cursor_position, cursor_form_win)
      BY <2>1, <3>3, Zenon
    <3> QED
      BY <3>1, <3>4, Zenon
  <2>4. /\ Deleted(n_result, cursor_position + 1) \in Seq(Chars)
        /\ Len(Deleted(n_result, cursor_position + 1)) = Len(n_result) - 1
    BY <1>0, <2>2, DeletedLength
  <2>5. /\ cursor_position \in 0 .. Len(n_result) - 1 /\ cursor_form_win \in Int
        /\ cursor_form_win <= cursor_position /\ Len(n_result) - 1 + 1 <= result_len
    BY <1>0, <1>1, <2>1, <2>2
  <2> QED
    BY <1>0, <2>1, <2>3, <2>4, <2>5, NInputKey
<1>6. CASE NInput!Right \/ NInput!Left \/ NInput!Home \/ NInput!EndKey
  <2>1. PICK position \in 0 .. Len(n_result), column \in Int :
           NInput!Key(n_result, position, column) /\ column <= position /\ result_len' = result_len
    <3>1. CASE NInput!Right
      BY <1>0, <1>1, <3>1 DEF NInput!Right
    <3>2. CASE NInput!Left
      BY <1>0, <1>1, <3>2 DEF NInput!Left
    <3>3. CASE NInput!Home
      BY <1>0, <3>3 DEF NInput!Home
    <3>4. CASE NInput!EndKey
      BY <1>0, <1>1, <3>4 DEF NInput!EndKey, NInput!Least
    <3> QED
      BY <1>6, <3>1, <3>2, <3>3, <3>4
  <2>2. Len(n_result) + 1 <= result_len
    BY <1>1, <2>1
  <2> QED
    BY <1>0, <2>1, <2>2, NInputKey
<1>7. CASE NInput!Type
  <2>1. PICK c \in Chars : NInput!Key(Inserted(n_result, cursor_position, c), cursor_position + 1, cursor_form_win + 1)
    BY <1>7 DEF NInput!Type, Inserted, NInput!len
  <2>2. result_len' = IF Len(n_result) + 2 > result_len THEN Len(n_result) + 2 ELSE result_len
    BY <1>7 DEF NInput!Type, NInput!len
  <2>3. cursor_position \in 0 .. Len(n_result)
    BY <1>1, <2>1
  <2>4. /\ Inserted(n_result, cursor_position, c) \in Seq(Chars)
        /\ Len(Inserted(n_result, cursor_position, c)) = Len(n_result) + 1
    BY <1>0, <2>3, InsertedLength
  <2>5. /\ cursor_position + 1 \in 0 .. Len(n_result) + 1 /\ cursor_form_win + 1 \in Int
        /\ cursor_form_win + 1 <= cursor_position + 1
        /\ result_len' \in Nat /\ Len(n_result) + 1 + 1 <= result_len'
    BY <1>0, <1>1, <2>1, <2>2
  <2> QED
    BY <2>1, <2>4, <2>5, NInputKey
<1>8. CASE NInput!Leave
  BY <1>8 DEF NInput!Leave, NInputInv
<1> QED
  BY <1>2, <1>3, <1>4, <1>5, <1>6, <1>7, <1>8 DEF NInput!Next

-----------------------------------------------------------------------------
(***************************************************************************)
(* auto.conf is replaced last, and only when every symbol it will say      *)
(* something new of has been touched.  So an object that is not older than *)
(* its stamp was built from what auto.conf says now, and the other two     *)
(* files said the same when it was built, because they were complete then. *)
(***************************************************************************)
Contents == [Syms -> {NoValue, "n", "m", "y"} \cup ConfigTexts]

AutoTyped ==
    /\ config \in Contents
    /\ file \in [Autoconf!Files -> Contents] /\ tmp \in [Autoconf!Files -> Contents]
    /\ seen \in [Syms -> [Autoconf!Files -> {NoValue, "n", "m", "y"} \cup ConfigTexts]]

\* auto.conf never has a line for a switch that is n.
NoIsNotSaved == \A s \in Syms : file["auto.conf"][s] = "n" => SymType[s] = "string" \/ NoValue = "n"

\* What an object was built from goes together, and its line of auto.conf has
\* not changed since.
ObjectsAreCurrent ==
    \A s \in Syms \ touched :
        /\ seen[s]["auto.conf"] = file["auto.conf"][s]
        /\ seen[s]["header"] = seen[s]["auto.conf"]
        /\ seen[s]["tristate"] = IF SymType[s] = "tristate" THEN seen[s]["auto.conf"] ELSE NoValue

\* What conf has done so far.
Progress ==
    /\ a_pc = "split" => /\ ~ fresh /\ old = file["auto.conf"]
                         /\ \A s \in Syms \ todo : Autoconf!Differs(s) => s \in touched
    /\ a_pc \in Autoconf!Files =>
          /\ ~ fresh /\ tmp = [f \in Autoconf!Files |-> Autoconf!Lines(f)]
          /\ \A s \in Syms : file["auto.conf"][s] # Autoconf!Lines("auto.conf")[s] => s \in touched
    /\ a_pc \in {"tristate", "auto.conf"} => file["header"] = Autoconf!Lines("header")
    /\ a_pc = "auto.conf" => file["tristate"] = Autoconf!Lines("tristate")
    /\ fresh => a_pc = "make" /\ \A f \in Autoconf!Files : file[f] = Autoconf!Lines(f)

AutoInv == AutoTyped /\ NoIsNotSaved /\ ObjectsAreCurrent /\ Progress

\* The three files say the same of a symbol, but for what is no tristate.
LEMMA LinesAgree ==
    ASSUME AutoTyped, NEW s \in Syms
    PROVE  /\ Autoconf!Lines("header")[s] = Autoconf!Lines("auto.conf")[s]
           /\ Autoconf!Lines("tristate")[s] =
                  IF SymType[s] = "tristate" THEN Autoconf!Lines("auto.conf")[s] ELSE NoValue
           /\ Autoconf!Lines("auto.conf")[s] = IF SymType[s] # "string" /\ config[s] = "n" THEN NoValue ELSE config[s]
           /\ \A f \in Autoconf!Files : Autoconf!Lines(f) \in Contents
<1>1. \A f \in Autoconf!Files : Autoconf!Lines(f) \in Contents
  BY DEF AutoTyped, Contents, Autoconf!Files, Autoconf!Lines, Autoconf!kconfig_print_symbol,
         Autoconf!header_print_symbol, Autoconf!tristate_print_symbol
<1> QED
  BY <1>1 DEF Autoconf!Lines, Autoconf!kconfig_print_symbol, Autoconf!header_print_symbol,
         Autoconf!tristate_print_symbol, Autoconf!IsNo

\* A symbol that does not differ keeps its line.
LEMMA SameLine ==
    ASSUME AutoTyped, NoIsNotSaved, old = file["auto.conf"], NEW s \in Syms, ~ Autoconf!Differs(s)
    PROVE  file["auto.conf"][s] = Autoconf!Lines("auto.conf")[s]
BY LinesAgree DEF NoIsNotSaved, Autoconf!Differs, Autoconf!IsNo

LEMMA AutoInit == Autoconf!Init => AutoInv
<1> SUFFICES ASSUME Autoconf!Init PROVE AutoInv
  OBVIOUS
<1>1. /\ config \in Contents /\ file = Autoconf!Nothing /\ tmp = Autoconf!Nothing /\ ~ fresh /\ a_pc = "make"
      /\ Autoconf!Nothing \in [Autoconf!Files -> Contents]
  BY DEF Autoconf!Init, Autoconf!Configs, Autoconf!Empty, Autoconf!Nothing, Contents, Autoconf!Values
<1>2. AutoTyped
  BY <1>1 DEF AutoTyped, Autoconf!Init
<1>3. NoIsNotSaved
  BY <1>1 DEF NoIsNotSaved, Autoconf!Nothing, Autoconf!Empty, Autoconf!Files
<1>4. ObjectsAreCurrent
  BY DEF ObjectsAreCurrent, Autoconf!Init
<1>5. Progress
  BY <1>1 DEF Progress, Autoconf!Files
<1> QED
  BY <1>2, <1>3, <1>4, <1>5 DEF AutoInv

LEMMA AutoStep == AutoInv /\ [Autoconf!Next]_autoVars => AutoInv'
<1> SUFFICES ASSUME AutoInv, [Autoconf!Next]_autoVars PROVE AutoInv'
  OBVIOUS
<1>0. AutoTyped /\ NoIsNotSaved /\ ObjectsAreCurrent /\ Progress
  BY DEF AutoInv
<1>1. Autoconf!Files = {"header", "tristate", "auto.conf"}
  BY DEF Autoconf!Files
\* The lines depend on the configuration only.
<1>2. ASSUME config' = config
      PROVE  \A f : Autoconf!Lines(f)' = Autoconf!Lines(f)
  BY <1>2 DEF Autoconf!Lines, Autoconf!kconfig_print_symbol, Autoconf!header_print_symbol,
              Autoconf!tristate_print_symbol, Autoconf!IsNo
<1>3. CASE UNCHANGED autoVars
  <2>1. config' = config /\ UNCHANGED <<file, tmp, fresh, a_pc, todo, old, touched, seen>>
    BY <1>3 DEF autoVars
  <2>2. Progress'
    BY <1>0, <1>1, <1>2, <2>1 DEF Progress, Autoconf!Differs, Autoconf!IsNo
  <2> QED
    BY <1>0, <2>1, <2>2 DEF AutoInv, AutoTyped, NoIsNotSaved, ObjectsAreCurrent
<1>4. CASE Autoconf!Edit
  <2>1. /\ a_pc = "make" /\ a_pc' = "make" /\ ~ fresh' /\ config' \in Contents
        /\ UNCHANGED <<file, tmp, touched, seen>>
    BY <1>4 DEF Autoconf!Edit, Autoconf!Configs, Contents, Autoconf!Values
  <2> QED
    BY <1>0, <1>1, <2>1 DEF AutoInv, AutoTyped, NoIsNotSaved, ObjectsAreCurrent, Progress
<1>5. CASE Autoconf!Start
  <2>1. /\ a_pc' = "split" /\ ~ fresh' /\ old' = file["auto.conf"] /\ todo' = Syms
        /\ UNCHANGED <<config, file, tmp, touched, seen>>
    BY <1>5 DEF Autoconf!Start
  <2> QED
    BY <1>0, <1>1, <2>1 DEF AutoInv, AutoTyped, NoIsNotSaved, ObjectsAreCurrent, Progress
<1>6. CASE \E s \in Syms : Autoconf!Compare(s)
  <2>1. PICK s \in Syms : Autoconf!Compare(s)
    BY <1>6
  <2>2. /\ a_pc = "split" /\ a_pc' = "split" /\ todo' = todo \ {s}
        /\ touched' = IF Autoconf!Differs(s) THEN touched \cup {s} ELSE touched
        /\ UNCHANGED <<config, file, tmp, fresh, old, seen>>
    BY <2>1 DEF Autoconf!Compare
  <2>3. \A t \in Syms : Autoconf!Differs(t)' = Autoconf!Differs(t)
    BY <2>2 DEF Autoconf!Differs, Autoconf!IsNo
  <2>4. Progress'
    BY <1>0, <1>1, <2>2, <2>3 DEF Progress
  <2> QED
    BY <1>0, <2>2, <2>4 DEF AutoInv, AutoTyped, NoIsNotSaved, ObjectsAreCurrent
<1>7. CASE Autoconf!WriteTmp
  <2>1. /\ a_pc = "split" /\ todo = {} /\ a_pc' = "header"
        /\ tmp' = [f \in Autoconf!Files |-> Autoconf!Lines(f)]
        /\ UNCHANGED <<config, file, fresh, touched, seen>>
    BY <1>7 DEF Autoconf!WriteTmp
  <2>2. \A s \in Syms : file["auto.conf"][s] # Autoconf!Lines("auto.conf")[s] => s \in touched
    BY <1>0, <2>1, SameLine DEF Progress
  <2>3. Progress'
    BY <1>0, <1>1, <1>2, <2>1, <2>2 DEF Progress
  <2>4. tmp' \in [Autoconf!Files -> Contents]
    <3>1. \A f \in Autoconf!Files : Autoconf!Lines(f) \in Contents
      BY DEF Contents, Autoconf!Files, Autoconf!Lines, Autoconf!kconfig_print_symbol,
             Autoconf!header_print_symbol, Autoconf!tristate_print_symbol, AutoTyped, AutoInv
    <3> QED
      BY <2>1, <3>1
  <2> QED
    BY <1>0, <2>1, <2>3, <2>4 DEF AutoInv, AutoTyped, NoIsNotSaved, ObjectsAreCurrent
<1>8. CASE Autoconf!Rename
  <2>1. /\ a_pc \in Autoconf!Files /\ a_pc' = Autoconf!After(a_pc)
        /\ file' = [file EXCEPT ![a_pc] = tmp[a_pc]] /\ fresh' = (fresh \/ a_pc = "auto.conf")
        /\ UNCHANGED <<config, tmp, old, touched, seen>>
    BY <1>8 DEF Autoconf!Rename
  <2>2. /\ file' \in [Autoconf!Files -> Contents] /\ file'[a_pc] = Autoconf!Lines(a_pc)
        /\ \A f \in Autoconf!Files \ {a_pc} : file'[f] = file[f]
    BY <1>0, <2>1 DEF AutoTyped, Progress
  <2>3. \A f \in Autoconf!Files : Autoconf!Lines(f)' = Autoconf!Lines(f)
    BY <1>2, <2>1
  <2>4. Progress'
    BY <1>0, <1>1, <2>1, <2>2, <2>3 DEF Progress, Autoconf!After
  <2>5. NoIsNotSaved'
    <3>1. CASE a_pc = "auto.conf"
      BY <1>0, <1>1, <2>1, <2>2, <3>1, LinesAgree DEF NoIsNotSaved
    <3>2. CASE a_pc # "auto.conf"
      BY <1>0, <1>1, <2>1, <2>2, <3>2 DEF NoIsNotSaved
    <3> QED
      BY <3>1, <3>2
  <2>6. ObjectsAreCurrent'
    <3>1. \A s \in Syms \ touched : file'["auto.conf"][s] = file["auto.conf"][s]
      BY <1>0, <1>1, <2>1, <2>2 DEF Progress
    <3> QED
      BY <1>0, <2>1, <3>1 DEF ObjectsAreCurrent
  <2> QED
    BY <1>0, <2>1, <2>2, <2>4, <2>5, <2>6 DEF AutoInv, AutoTyped
<1>9. CASE Autoconf!Stop
  <2>1. a_pc' = "make" /\ a_pc # "make" /\ UNCHANGED <<config, file, tmp, fresh, touched, seen>>
    BY <1>9 DEF Autoconf!Stop
  <2> QED
    BY <1>0, <1>1, <2>1 DEF AutoInv, AutoTyped, NoIsNotSaved, ObjectsAreCurrent, Progress
<1>10. CASE \E s \in Syms : Autoconf!Make(s)
  <2>1. PICK s \in Syms : Autoconf!Make(s)
    BY <1>10
  <2>2. /\ a_pc = "make" /\ fresh /\ touched' = touched \ {s}
        /\ seen' = [seen EXCEPT ![s] = [f \in Autoconf!Files |-> file[f][s]]]
        /\ UNCHANGED <<config, file, tmp, fresh, a_pc, todo, old>>
    BY <2>1 DEF Autoconf!Make
  <2>3. /\ seen' \in [Syms -> [Autoconf!Files -> {NoValue, "n", "m", "y"} \cup ConfigTexts]]
        /\ \A f \in Autoconf!Files : seen'[s][f] = file[f][s]
        /\ \A t \in Syms \ {s} : seen'[t] = seen[t]
    BY <1>0, <2>2 DEF AutoTyped, Contents
  <2>4. Progress'
    BY <1>0, <1>1, <1>2, <2>2 DEF Progress
  <2>5. /\ file["header"][s] = file["auto.conf"][s]
        /\ file["tristate"][s] = IF SymType[s] = "tristate" THEN file["auto.conf"][s] ELSE NoValue
    BY <1>0, <1>1, <2>2, LinesAgree DEF Progress
  <2>6. ObjectsAreCurrent'
    BY <1>0, <1>1, <2>2, <2>3, <2>5 DEF ObjectsAreCurrent
  <2> QED
    BY <1>0, <2>2, <2>3, <2>4, <2>6 DEF AutoInv, AutoTyped, NoIsNotSaved
<1> QED
  BY <1>3, <1>4, <1>5, <1>6, <1>7, <1>8, <1>9, <1>10 DEF Autoconf!Next

\* What the invariant says of a build.
LEMMA AutoIsSound == AutoInv => BuildSeesConfig
<1> SUFFICES ASSUME AutoInv, a_pc = "make", fresh, NEW f \in Autoconf!Files
             PROVE  file[f] = Autoconf!Lines(f) /\ \A s \in Syms \ touched : seen[s][f] = file[f][s]
  BY DEF BuildSeesConfig, Autoconf!BuildSeesConfig
<1>1. AutoTyped /\ \A g \in Autoconf!Files : file[g] = Autoconf!Lines(g)
  BY DEF AutoInv, Progress
<1>2. ASSUME NEW s \in Syms \ touched PROVE seen[s][f] = file[f][s]
  BY <1>1, LinesAgree DEF AutoInv, ObjectsAreCurrent, Autoconf!Files
<1> QED
  BY <1>1, <1>2

-----------------------------------------------------------------------------
(***************************************************************************)
(* The wrapper.  Once the defaults are in place the array is what it will  *)
(* be up to the words of the command line.  The scan remembers less than   *)
(* it looks: of the word it is at it must be known what the options        *)
(* before the k-th have said, and, when the word before it stands alone,   *)
(* that it was taken for a path.                                           *)
(***************************************************************************)
Floats == "float" \in br /\ ~ Wrapper!Has({"-mfloat-abi=", "-msoft-float", "-mhard-float"})
Archs == "arch" \in br /\ ~ Wrapper!Has({"-march=", "-mtune=", "-mcpu="})
Cpus == "cpu" \in br /\ ~ Wrapper!Has({"-march=", "-mtune=", "-mcpu="})
Defaults == Wrapper!If(Floats, "-mfloat-abi=") \o Wrapper!If(Archs, "-march=") \o Wrapper!If(Cpus, "-mcpu=")
Prelude == Wrapper!If("ccache" \in br, "ccache") \o Wrapper!predef_args \o Defaults
\* What is executed stands before the words of the command line.
Front == IF "ccache" \in br /\ no_ccache THEN Tail(Prelude) ELSE Prelude

\* The path of the option before the word at n was asked for there.
AfterOption(n) == \E m \in DOMAIN argv : m + 1 = n /\ Wrapper!IsOption(argv[m]) /\ argv[m].path = "none"

Scanned ==
    /\ \A n \in Wrapper!UnsafeWords : n < w_i => n \in reported
    /\ w_i \in DOMAIN argv =>
          /\ \A j \in 1 .. w_k - 1 :
                j \in DOMAIN unsafe_opts /\ argv[w_i].opt = unsafe_opts[j] =>
                    argv[w_i].path # "none" /\ (argv[w_i].path \in Unsafe => w_i \in reported)
          /\ AfterOption(w_i) /\ argv[w_i].path \in Unsafe => w_i \in reported

WrapperInv ==
    /\ argv \in Seq(Arguments) /\ w_i \in Nat \ {0} /\ w_k \in Nat \ {0}
    /\ w_pc \in {"predef", "scan", "error", "exec"}
    /\ w_pc = "predef" => args = <<>> /\ w_i = 1 /\ w_k = 1
    /\ w_pc \in {"scan", "error"} => args = Prelude
    /\ w_pc = "exec" => args = Prelude \o argv \o <<"NULL">> /\ exec = Front \o argv \o <<"NULL">>
    /\ reported \subseteq Wrapper!UnsafeWords
    /\ w_pc = "error" => reported # {}
    /\ w_pc # "error" /\ paranoid => reported = {}
    /\ Wrapper!WellFormed /\ w_pc \in {"predef", "scan"} => Scanned
    /\ Wrapper!WellFormed /\ w_pc = "exec" => Wrapper!UnsafeWords \subseteq reported

\* What is not a word of the command line.
OwnWords == {"ccache", "path", "--sysroot", "sysroot", "-mfloat-abi=", "-march=", "-mcpu="}

LEMMA Joined ==
    ASSUME NEW s \in Seq(OwnWords), NEW t \in Seq(OwnWords)
    PROVE  /\ s \o t \in Seq(OwnWords) /\ Len(s \o t) = Len(s) + Len(t)
           /\ \A n \in 1 .. Len(s \o t) : (s \o t)[n] = IF n <= Len(s) THEN s[n] ELSE t[n - Len(s)]
OBVIOUS

LEMMA IfLength ==
    ASSUME NEW b \in BOOLEAN, NEW word \in OwnWords
    PROVE  /\ Wrapper!If(b, word) \in Seq(OwnWords)
           /\ Len(Wrapper!If(b, word)) = (IF b THEN 1 ELSE 0)
           /\ b => Wrapper!If(b, word)[1] = word
<1>1. CASE b
  <2>1. Wrapper!If(b, word) = <<word>>
    BY <1>1, Zenon DEF Wrapper!If
  <2>2. <<word>> \in Seq(OwnWords) /\ Len(<<word>>) = 1 /\ <<word>>[1] = word
    OBVIOUS
  <2> QED
    BY <1>1, <2>1, <2>2, Zenon
<1>2. CASE ~ b
  <2>1. Wrapper!If(b, word) = <<>>
    BY <1>2, Zenon DEF Wrapper!If
  <2>2. <<>> \in Seq(OwnWords) /\ Len(<<>>) = 0
    OBVIOUS
  <2> QED
    BY <1>2, <2>1, <2>2
<1> QED
  BY <1>1, <1>2, Zenon

\* At most three defaults, and none besides an own choice.
LEMMA DefaultsAreFew ==
    /\ Defaults \in Seq(OwnWords) /\ Len(Defaults) \in 0 .. 3
    /\ \A n \in 1 .. Len(Defaults) :
          \/ Defaults[n] = "-mfloat-abi=" /\ Floats
          \/ Defaults[n] = "-march=" /\ Archs
          \/ Defaults[n] = "-mcpu=" /\ Cpus
<1> DEFINE f == Wrapper!If(Floats, "-mfloat-abi=")
           a == Wrapper!If(Archs, "-march=")
           c == Wrapper!If(Cpus, "-mcpu=")
<1>1. Floats \in BOOLEAN /\ Archs \in BOOLEAN /\ Cpus \in BOOLEAN
  BY DEF Floats, Archs, Cpus
<1>2. f \in Seq(OwnWords) /\ Len(f) = (IF Floats THEN 1 ELSE 0) /\ (Floats => f[1] = "-mfloat-abi=")
  BY <1>1, IfLength DEF OwnWords
<1>3. a \in Seq(OwnWords) /\ Len(a) = (IF Archs THEN 1 ELSE 0) /\ (Archs => a[1] = "-march=")
  BY <1>1, IfLength DEF OwnWords
<1>4. c \in Seq(OwnWords) /\ Len(c) = (IF Cpus THEN 1 ELSE 0) /\ (Cpus => c[1] = "-mcpu=")
  BY <1>1, IfLength DEF OwnWords
<1>5. Defaults = f \o a \o c
  BY DEF Defaults
<1> HIDE DEF f, a, c
<1>6. /\ f \o a \in Seq(OwnWords) /\ Len(f \o a) = Len(f) + Len(a)
      /\ \A n \in 1 .. Len(f \o a) : (f \o a)[n] = IF n <= Len(f) THEN f[n] ELSE a[n - Len(f)]
  BY <1>2, <1>3, Joined
<1>7. /\ (f \o a) \o c \in Seq(OwnWords) /\ Len((f \o a) \o c) = Len(f \o a) + Len(c)
      /\ \A n \in 1 .. Len((f \o a) \o c) :
            ((f \o a) \o c)[n] = IF n <= Len(f \o a) THEN (f \o a)[n] ELSE c[n - Len(f \o a)]
  BY <1>4, <1>6, Joined
<1>8. ASSUME NEW n \in 1 .. Len(Defaults)
      PROVE  \/ Defaults[n] = "-mfloat-abi=" /\ Floats
             \/ Defaults[n] = "-march=" /\ Archs
             \/ Defaults[n] = "-mcpu=" /\ Cpus
  <2>1. /\ Len(f) \in {0, 1} /\ (Len(f) = 1 => Floats /\ f[1] = "-mfloat-abi=")
        /\ Len(a) \in {0, 1} /\ (Len(a) = 1 => Archs /\ a[1] = "-march=")
        /\ Len(c) \in {0, 1} /\ (Len(c) = 1 => Cpus /\ c[1] = "-mcpu=")
    BY <1>2, <1>3, <1>4
  <2>2. /\ n \in 1 .. Len(Defaults) /\ Len(f) \in Nat /\ Len(a) \in Nat /\ Len(c) \in Nat
        /\ Len(f \o a) = Len(f) + Len(a) /\ Len(Defaults) = Len(f \o a) + Len(c)
    <3>1. Len(f) \in Nat /\ Len(a) \in Nat /\ Len(c) \in Nat
      BY <2>1
    <3> QED
      BY <1>5, <1>6, <1>7, <1>8, <3>1
  <2>3. CASE n <= Len(f)
    <3>1. Len(f) = 1 /\ n = 1 /\ n \in 1 .. Len(f \o a) /\ n <= Len(f \o a)
      BY <1>6, <2>1, <2>2, <2>3
    <3>2. Defaults[n] = (f \o a)[n] /\ (f \o a)[n] = f[n]
      BY <1>5, <1>6, <1>7, <1>8, <2>3, <3>1
    <3> QED
      BY <2>1, <3>1, <3>2
  <2>4. CASE ~ n <= Len(f) /\ n <= Len(f) + Len(a)
    <3>1. Len(a) = 1 /\ n - Len(f) = 1 /\ n \in 1 .. Len(f \o a) /\ n <= Len(f \o a)
      BY <1>6, <2>1, <2>2, <2>4
    <3>2. Defaults[n] = (f \o a)[n] /\ (f \o a)[n] = a[n - Len(f)]
      BY <1>5, <1>6, <1>7, <1>8, <2>4, <3>1
    <3> QED
      BY <2>1, <3>1, <3>2
  <2>5. CASE ~ n <= Len(f) + Len(a)
    <3>1. Len(c) = 1 /\ n - Len(f \o a) = 1 /\ ~ n <= Len(f \o a)
      <4>1. PICK i, j, k : i = Len(f) /\ j = Len(a) /\ k = Len(c)
        OBVIOUS
      <4>2. i \in Nat /\ j \in Nat /\ k \in {0, 1} /\ n \in 1 .. (i + j) + k /\ ~ n <= i + j
        BY <2>1, <2>2, <2>5, <4>1
      <4>3. k = 1 /\ n - (i + j) = 1
        BY <4>2
      <4> QED
        BY <2>2, <2>5, <4>1, <4>3
    <3>2. Defaults[n] = c[n - Len(f \o a)]
      BY <1>5, <1>7, <1>8, <3>1
    <3> QED
      BY <2>1, <3>1, <3>2
  <2> QED
    BY <2>3, <2>4, <2>5
<1>9. Defaults \in Seq(OwnWords) /\ Len(Defaults) \in 0 .. 3
  <2>1. Len(f) \in {0, 1} /\ Len(a) \in {0, 1} /\ Len(c) \in {0, 1}
    BY <1>2, <1>3, <1>4
  <2>2. Defaults \in Seq(OwnWords)
    BY <1>5, <1>7
  <2>3. PICK i, j, k : i = Len(f) /\ j = Len(a) /\ k = Len(c)
    OBVIOUS
  <2>4. Len(Defaults) = i + j + k
    BY <1>5, <1>6, <1>7, <2>3
  <2>5. i + j + k \in 0 .. 3
    BY <2>1, <2>3
  <2> QED
    BY <2>2, <2>4, <2>5
<1> QED
  BY <1>8, <1>9

\* The compiler stands at a known place, and what is not a default before it
\* or behind it is no option.
LEMMA PreludeHasPath ==
    /\ Prelude \in Seq(OwnWords)
    /\ Len(Prelude) = (IF "ccache" \in br THEN 4 ELSE 3) + Len(Defaults)
    /\ Front \in Seq(OwnWords) /\ Len(Front) >= 3
    /\ Front[1] = IF "ccache" \in br /\ ~ no_ccache THEN "ccache" ELSE "path"
    /\ \A n \in 1 .. Len(Front) :
          \/ Front[n] \in {"ccache", "path", "--sysroot", "sysroot"}
          \/ \E d \in 1 .. Len(Defaults) : Front[n] = Defaults[d]
<1> DEFINE c == Wrapper!If("ccache" \in br, "ccache")
           p == Wrapper!predef_args
<1>1. c \in Seq(OwnWords) /\ Len(c) = (IF "ccache" \in br THEN 1 ELSE 0) /\ ("ccache" \in br => c[1] = "ccache")
  <2>1. ("ccache" \in br) \in BOOLEAN /\ "ccache" \in OwnWords
    BY DEF OwnWords
  <2> QED
    BY <2>1, IfLength
<1>2. p \in Seq(OwnWords) /\ Len(p) = 3 /\ p[1] = "path" /\ p[2] = "--sysroot" /\ p[3] = "sysroot"
  BY DEF Wrapper!predef_args, OwnWords
<1>3. Prelude = c \o p \o Defaults
  BY DEF Prelude
<1> HIDE DEF c, p
<1>4. /\ c \o p \in Seq(OwnWords) /\ Len(c \o p) = Len(c) + 3
      /\ \A n \in 1 .. Len(c \o p) : (c \o p)[n] = IF n <= Len(c) THEN c[n] ELSE p[n - Len(c)]
  BY <1>1, <1>2, Joined
<1> DEFINE cp == c \o p
<1>5. /\ Prelude \in Seq(OwnWords) /\ Len(Prelude) = Len(c) + 3 + Len(Defaults)
      /\ \A n \in 1 .. Len(Prelude) :
            Prelude[n] = IF n <= Len(c) + 3 THEN cp[n] ELSE Defaults[n - (Len(c) + 3)]
  <2>1. cp \in Seq(OwnWords) /\ Len(cp) = Len(c) + 3 /\ Prelude = cp \o Defaults /\ Defaults \in Seq(OwnWords)
    BY <1>3, <1>4, DefaultsAreFew
  <2> HIDE DEF cp
  <2>2. /\ cp \o Defaults \in Seq(OwnWords) /\ Len(cp \o Defaults) = Len(cp) + Len(Defaults)
        /\ \A n \in 1 .. Len(cp \o Defaults) :
              (cp \o Defaults)[n] = IF n <= Len(cp) THEN cp[n] ELSE Defaults[n - Len(cp)]
    BY <2>1, Joined
  <2> QED
    BY <2>1, <2>2
<1>0. /\ Len(c) \in {0, 1} /\ Len(c) = (IF "ccache" \in br THEN 1 ELSE 0)
      /\ Len(Defaults) \in Nat /\ ("ccache" \in br => cp[1] = "ccache")
      /\ cp[Len(c) + 1] = "path" /\ cp[Len(c) + 2] = "--sysroot" /\ cp[Len(c) + 3] = "sysroot"
  BY <1>1, <1>2, <1>4, DefaultsAreFew
<1> HIDE DEF cp
<1>6. ASSUME NEW n \in 1 .. Len(Prelude)
      PROVE  \/ Prelude[n] \in {"ccache", "path", "--sysroot", "sysroot"}
             \/ \E d \in 1 .. Len(Defaults) : Prelude[n] = Defaults[d]
  <2>1. CASE n <= Len(c) + 3
    <3>1. (n = 1 /\ "ccache" \in br) \/ n = Len(c) + 1 \/ n = Len(c) + 2 \/ n = Len(c) + 3
      BY <1>0, <2>1
    <3> QED
      BY <1>0, <1>5, <2>1, <3>1
  <2>2. CASE n > Len(c) + 3
    <3>1. n - (Len(c) + 3) \in 1 .. Len(Defaults)
      BY <1>1, <1>5, <2>2, DefaultsAreFew
    <3> QED
      BY <1>0, <1>5, <2>2, <3>1
  <2> QED
    BY <1>1, <2>1, <2>2
<1>7. CASE "ccache" \in br /\ no_ccache
  <2>1. Front = Tail(Prelude) /\ Len(c) = 1
    BY <1>1, <1>7 DEF Front
  <2>2. /\ Front \in Seq(OwnWords) /\ Len(Front) = Len(Prelude) - 1
        /\ \A n \in 1 .. Len(Front) : n + 1 \in 1 .. Len(Prelude) /\ Front[n] = Prelude[n + 1]
    BY <1>5, <2>1, DefaultsAreFew
  <2>3. Front[1] = "path"
    <3>1. 1 \in 1 .. Len(Front) /\ 2 \in 1 .. Len(Prelude) /\ 2 <= Len(c) + 3
      BY <1>0, <1>5, <2>1, <2>2
    <3>2. Front[1] = Prelude[2] /\ Prelude[2] = cp[2]
      BY <1>5, <2>2, <3>1
    <3>3. \A n \in Nat : n = 2 => n = Len(c) + 1
      BY <2>1
    <3>4. cp[2] = "path"
      BY <1>0, <3>3
    <3> QED
      BY <3>2, <3>4
  <2> QED
    BY <1>1, <1>5, <1>6, <1>7, <2>1, <2>2, <2>3, DefaultsAreFew
<1>8. CASE ~ ("ccache" \in br /\ no_ccache)
  <2>1. Front = Prelude
    BY <1>8 DEF Front
  <2>2. Front[1] = IF "ccache" \in br THEN "ccache" ELSE "path"
    BY <1>0, <1>5, <2>1
  <2> QED
    BY <1>1, <1>5, <1>6, <1>8, <2>1, <2>2, DefaultsAreFew
<1> QED
  BY <1>7, <1>8

LEMMA TableIsSequence ==
    /\ DOMAIN unsafe_opts = 1 .. Len(unsafe_opts) /\ Len(unsafe_opts) \in Nat
    /\ \A j \in DOMAIN unsafe_opts : unsafe_opts[j] # "none"
BY OptionsAssumption

LEMMA WordsAreNumbered ==
    ASSUME argv \in Seq(Arguments)
    PROVE  /\ DOMAIN argv = 1 .. Len(argv) /\ Len(argv) \in Nat /\ Wrapper!argc = Len(argv) + 1
           /\ \A n \in Wrapper!UnsafeWords : n \in 1 .. Len(argv)
           /\ \A n \in 1 .. Len(argv) :
                 n \in Wrapper!UnsafeWords <=> argv[n].path \in Unsafe /\ (Wrapper!IsOption(argv[n]) \/ AfterOption(n))
<1>1. DOMAIN argv = 1 .. Len(argv) /\ Len(argv) \in Nat
  OBVIOUS
<1>2. ASSUME NEW n \in DOMAIN argv
      PROVE  n > 1 /\ Wrapper!IsOption(argv[n - 1]) /\ argv[n - 1].path = "none" <=> AfterOption(n)
  <2>1. ASSUME n > 1, Wrapper!IsOption(argv[n - 1]), argv[n - 1].path = "none" PROVE AfterOption(n)
    <3>1. n - 1 \in DOMAIN argv /\ n - 1 + 1 = n
      BY <1>1, <2>1
    <3> QED
      BY <2>1, <3>1 DEF AfterOption
  <2>2. ASSUME AfterOption(n) PROVE n > 1 /\ Wrapper!IsOption(argv[n - 1]) /\ argv[n - 1].path = "none"
    <3>1. PICK m \in DOMAIN argv : m + 1 = n /\ Wrapper!IsOption(argv[m]) /\ argv[m].path = "none"
      BY <2>2 DEF AfterOption
    <3>2. n > 1 /\ n - 1 = m
      BY <1>1, <3>1
    <3> QED
      BY <3>1, <3>2
  <2> QED
    BY <2>1, <2>2
<1> QED
  BY <1>1, <1>2 DEF Wrapper!UnsafeWords, Wrapper!argc

LEMMA WrapperInit == Wrapper!Init => WrapperInv
<1> SUFFICES ASSUME Wrapper!Init PROVE WrapperInv
  OBVIOUS
<1>1. PICK n \in 0 .. MaxArgs : argv \in [1 .. n -> Arguments]
  BY DEF Wrapper!Init
<1>2. argv \in Seq(Arguments)
  <2>1. n \in Nat
    BY ArgumentsAssumption
  <2> QED
    BY <1>1, <2>1
<1>3. w_i = 1 /\ w_k = 1 /\ w_pc = "predef" /\ args = <<>> /\ reported = {}
  BY DEF Wrapper!Init
<1>4. Scanned
  <2>1. \A word \in Wrapper!UnsafeWords : ~ word < w_i
    BY <1>2, <1>3, WordsAreNumbered
  <2>2. 1 .. w_k - 1 = {} /\ ~ AfterOption(w_i)
    BY <1>2, <1>3, WordsAreNumbered DEF AfterOption
  <2> QED
    BY <2>1, <2>2 DEF Scanned
<1> QED
  BY <1>2, <1>3, <1>4 DEF WrapperInv

\* The options do not change, and neither does what they say of the words.
LEMMA WordsStay ==
    ASSUME UNCHANGED argv
    PROVE  /\ Wrapper!UnsafeWords' = Wrapper!UnsafeWords /\ Wrapper!WellFormed' = Wrapper!WellFormed
           /\ \A n \in Int : AfterOption(n)' = AfterOption(n)
BY DEF Wrapper!UnsafeWords, Wrapper!WellFormed, Wrapper!IsOption, AfterOption

LEMMA PreludeStays ==
    ASSUME UNCHANGED <<argv, br, no_ccache>>
    PROVE  Prelude' = Prelude /\ Front' = Front
<1>1. Floats' = Floats /\ Archs' = Archs /\ Cpus' = Cpus
  BY DEF Floats, Archs, Cpus, Wrapper!Has
<1>2. Defaults' = Defaults
  BY <1>1 DEF Defaults
<1>3. Prelude' = Prelude
  BY <1>2 DEF Prelude
<1> QED
  BY <1>3 DEF Front

\* An option that stands alone is followed by a word that is no option.
LEMMA PathIsNoOption ==
    ASSUME Wrapper!WellFormed, argv \in Seq(Arguments), NEW n \in DOMAIN argv, AfterOption(n)
    PROVE  \A j \in DOMAIN unsafe_opts : argv[n].opt # unsafe_opts[j]
<1>1. PICK m \in DOMAIN argv : m + 1 = n /\ Wrapper!IsOption(argv[m]) /\ argv[m].path = "none"
  BY DEF AfterOption
<1>2. argv[n].opt = "none"
  BY <1>1 DEF Wrapper!WellFormed
<1> QED
  BY <1>2, TableIsSequence

\* The scan goes on to the next word when the table has nothing more to say of
\* this one.
LEMMA WordIsDone ==
    ASSUME WrapperInv, Wrapper!WellFormed, Wrapper!Scanning, ~ Wrapper!Matches, w_k >= Len(unsafe_opts)
    PROVE  /\ w_i \in Wrapper!UnsafeWords => w_i \in reported
           /\ Wrapper!IsOption(argv[w_i]) => argv[w_i].path # "none"
<1>1. w_i \in DOMAIN argv /\ Len(unsafe_opts) \in Nat /\ w_k \in Nat
  BY TableIsSequence, WordsAreNumbered DEF WrapperInv, Wrapper!Scanning
<1>2. Scanned
  BY DEF WrapperInv, Wrapper!Scanning
<1>3. ASSUME Wrapper!IsOption(argv[w_i])
      PROVE  argv[w_i].path # "none" /\ (argv[w_i].path \in Unsafe => w_i \in reported)
  <2>1. PICK j \in DOMAIN unsafe_opts : argv[w_i].opt = unsafe_opts[j]
    BY <1>3 DEF Wrapper!IsOption
  <2>2. j \in 1 .. w_k - 1
    <3>1. j \in 1 .. Len(unsafe_opts)
      BY TableIsSequence
    <3>2. j # w_k
      BY <1>1, <2>1, <3>1 DEF Wrapper!Matches
    <3> QED
      BY <1>1, <3>1, <3>2
  <2> QED
    BY <1>1, <1>2, <2>1, <2>2 DEF Scanned
<1>4. ASSUME w_i \in Wrapper!UnsafeWords PROVE w_i \in reported
  <2>1. argv[w_i].path \in Unsafe /\ (Wrapper!IsOption(argv[w_i]) \/ AfterOption(w_i))
    BY <1>1, <1>4, WordsAreNumbered DEF WrapperInv
  <2> QED
    BY <1>1, <1>2, <1>3, <2>1 DEF Scanned
<1> QED
  BY <1>3, <1>4

LEMMA TailOfJoined ==
    ASSUME NEW s \in Seq(OwnWords), Len(s) >= 1, argv \in Seq(Arguments)
    PROVE  Tail(s \o argv \o <<"NULL">>) = Tail(s) \o argv \o <<"NULL">>
<1> DEFINE W == OwnWords \cup Arguments \cup {"NULL"}
           t == argv \o <<"NULL">>
<1>1. s \in Seq(W) /\ argv \in Seq(W) /\ <<"NULL">> \in Seq(W) /\ s # <<>>
  OBVIOUS
<1> HIDE DEF W
<1>2. t \in Seq(W) /\ s \o argv \o <<"NULL">> = s \o t /\ Tail(s) \in Seq(W)
  BY <1>1, ConcatAssociative
<1>3. Tail(s) \o argv \o <<"NULL">> = Tail(s) \o t
  BY <1>1, <1>2, ConcatAssociative
<1> HIDE DEF t
<1>4. Tail(s \o t) = Tail(s) \o t
  BY <1>1, <1>2
<1> QED
  BY <1>2, <1>3, <1>4

LEMMA WrapperStep == WrapperInv /\ [Wrapper!Next]_wrapperVars => WrapperInv'
<1> SUFFICES ASSUME WrapperInv, [Wrapper!Next]_wrapperVars PROVE WrapperInv'
  OBVIOUS
<1>1. UNCHANGED <<argv, br, paranoid, no_ccache>>
  BY DEF wrapperVars, Wrapper!Next, Wrapper!fixed, Wrapper!Predefined, Wrapper!SkipOption,
         Wrapper!SeparatePath, Wrapper!JoinedPath, Wrapper!Exec
<1>2. /\ Wrapper!UnsafeWords' = Wrapper!UnsafeWords /\ Wrapper!WellFormed' = Wrapper!WellFormed
      /\ Prelude' = Prelude /\ Front' = Front
      /\ \A n \in Int : AfterOption(n)' = AfterOption(n)
  BY <1>1, WordsStay, PreludeStays
<1>3. /\ argv \in Seq(Arguments) /\ w_i \in Nat \ {0} /\ w_k \in Nat \ {0} /\ DOMAIN argv = 1 .. Len(argv)
      /\ Len(argv) \in Nat /\ Wrapper!argc = Len(argv) + 1
      /\ DOMAIN unsafe_opts = 1 .. Len(unsafe_opts) /\ Len(unsafe_opts) \in Nat
      /\ \A n \in Wrapper!UnsafeWords : n \in 1 .. Len(argv)
      /\ \A n \in 1 .. Len(argv) :
            n \in Wrapper!UnsafeWords <=> argv[n].path \in Unsafe /\ (Wrapper!IsOption(argv[n]) \/ AfterOption(n))
  BY TableIsSequence, WordsAreNumbered DEF WrapperInv
<1>4. CASE UNCHANGED wrapperVars
  <2>1. UNCHANGED <<args, w_pc, w_i, w_k, reported, exec>>
    BY <1>4 DEF wrapperVars
  <2>2. AfterOption(w_i)' = AfterOption(w_i)
    BY <2>1, <1>1, <1>3 DEF AfterOption, Wrapper!IsOption
  <2>3. Scanned' = Scanned
    BY <1>1, <1>2, <2>1, <2>2 DEF Scanned
  <2> QED
    BY <1>1, <1>2, <2>1, <2>3 DEF WrapperInv
<1>5. CASE Wrapper!Predefined
  <2>1. w_pc = "predef" /\ w_pc' = "scan" /\ UNCHANGED <<w_i, w_k, reported, exec>>
    BY <1>5 DEF Wrapper!Predefined
  <2>2. args' = Prelude
    <3>1. args' = Wrapper!If("ccache" \in br, "ccache") \o Wrapper!predef_args
                  \o Wrapper!If(Floats, "-mfloat-abi=") \o Wrapper!If(Archs, "-march=") \o Wrapper!If(Cpus, "-mcpu=")
      BY <1>5 DEF Wrapper!Predefined, Floats, Archs, Cpus
    <3> QED
      BY <3>1 DEF Prelude, Defaults
  <2>3. AfterOption(w_i)' = AfterOption(w_i)
    BY <2>1, <1>1, <1>3 DEF AfterOption, Wrapper!IsOption
  <2>4. Scanned' = Scanned
    BY <1>1, <1>2, <2>1, <2>3 DEF Scanned
  <2> QED
    BY <1>1, <1>2, <2>1, <2>2, <2>4 DEF WrapperInv
<1>6. CASE Wrapper!SkipOption
  <2>1. /\ w_pc = "scan" /\ Wrapper!Scanning /\ ~ Wrapper!Matches /\ w_i \in DOMAIN argv
        /\ UNCHANGED <<args, w_pc, reported, exec>>
    BY <1>3, <1>6 DEF Wrapper!SkipOption, Wrapper!Scanning
  <2>2. CASE w_k < Len(unsafe_opts)
    <3>1. w_k' = w_k + 1 /\ w_i' = w_i /\ argv[w_i].opt # unsafe_opts[w_k]
      BY <1>3, <1>6, <2>1, <2>2 DEF Wrapper!SkipOption, Wrapper!Matches
    <3>2. ASSUME Wrapper!WellFormed PROVE Scanned'
      <4>1. Scanned
        BY <2>1, <3>2 DEF WrapperInv
      <4>2. AfterOption(w_i)' = AfterOption(w_i)
        BY <3>1, <1>1, <1>3 DEF AfterOption, Wrapper!IsOption
      <4>3. \A j \in 1 .. w_k' - 1 : j \in 1 .. w_k - 1 \/ j = w_k
        BY <1>3, <3>1
      <4> QED
        BY <1>1, <1>2, <2>1, <3>1, <4>1, <4>2, <4>3 DEF Scanned
    <3> QED
      BY <1>1, <1>2, <1>3, <2>1, <3>1, <3>2 DEF WrapperInv
  <2>3. CASE ~ w_k < Len(unsafe_opts)
    <3>1. w_k' = 1 /\ w_i' = w_i + 1
      BY <1>3, <1>6, <2>1, <2>3 DEF Wrapper!SkipOption
    <3>2. ASSUME Wrapper!WellFormed PROVE Scanned'
      <4>1. /\ w_i \in Wrapper!UnsafeWords => w_i \in reported
            /\ Wrapper!IsOption(argv[w_i]) => argv[w_i].path # "none"
        BY <1>3, <2>1, <2>3, <3>2, WordIsDone
      <4>2. Scanned
        BY <2>1, <3>2 DEF WrapperInv
      <4>3. \A n \in Wrapper!UnsafeWords : n < w_i + 1 => n \in reported
        <5>1. \A n \in 1 .. Len(argv) : n < w_i + 1 => n < w_i \/ n = w_i
          BY <1>3
        <5> QED
          BY <1>3, <4>1, <4>2, <5>1 DEF Scanned
      <4>4. ~ AfterOption(w_i + 1)
        <5>1. \A m \in 1 .. Len(argv) : m + 1 = w_i + 1 => m = w_i
          BY <1>3
        <5> QED
          BY <1>3, <4>1, <5>1 DEF AfterOption
      <4>5. ~ AfterOption(w_i)' /\ 1 .. w_k' - 1 = {}
        BY <1>1, <3>1, <4>4 DEF AfterOption, Wrapper!IsOption
      <4> QED
        BY <1>2, <2>1, <3>1, <4>3, <4>5 DEF Scanned
    <3> QED
      BY <1>1, <1>2, <1>3, <2>1, <3>1, <3>2 DEF WrapperInv
  <2> QED
    BY <2>2, <2>3
<1>7. CASE Wrapper!SeparatePath
  <2>1. /\ w_pc = "scan" /\ w_i \in DOMAIN argv /\ argv[w_i].path = "none" /\ w_k \in DOMAIN unsafe_opts
        /\ argv[w_i].opt = unsafe_opts[w_k] /\ w_i' = w_i + 1 /\ w_k' = w_k + 1
        /\ UNCHANGED <<args, exec>>
    BY <1>3, <1>7 DEF Wrapper!SeparatePath, Wrapper!Scanning, Wrapper!Matches
  <2>2. Wrapper!IsOption(argv[w_i])
    BY <2>1 DEF Wrapper!IsOption
  <2>3. AfterOption(w_i + 1)
    BY <2>1, <2>2 DEF AfterOption
  <2>4. \/ w_i + 1 = Len(argv) + 1 /\ UNCHANGED <<w_pc, reported>>
        \/ w_i + 1 \in DOMAIN argv /\ Wrapper!Check(w_i + 1)
    BY <1>3, <1>7, <2>1 DEF Wrapper!SeparatePath
  <2>5. w_i + 1 \in DOMAIN argv /\ argv[w_i + 1].path \in Unsafe => w_i + 1 \in Wrapper!UnsafeWords
    BY <1>3, <2>3
  <2>6. /\ reported \subseteq reported' /\ reported' \subseteq Wrapper!UnsafeWords
        /\ w_pc' \in {"scan", "error"} /\ (w_pc' = "error" => reported' # {})
        /\ w_pc' # "error" /\ paranoid => reported' = {}
        /\ w_i + 1 \in DOMAIN argv /\ argv[w_i + 1].path \in Unsafe => w_i + 1 \in reported'
    BY <1>3, <2>1, <2>4, <2>5 DEF WrapperInv, Wrapper!Check
  <2>7. ASSUME Wrapper!WellFormed PROVE Scanned'
    <3>1. Scanned
      BY <2>1, <2>7 DEF WrapperInv
    <3>2. w_i \notin Wrapper!UnsafeWords
      BY <2>1, OptionsAssumption DEF Wrapper!UnsafeWords
    <3>3. \A n \in Wrapper!UnsafeWords : n < w_i + 1 => n \in reported'
      <4>1. \A n \in 1 .. Len(argv) : n < w_i + 1 => n < w_i \/ n = w_i
        BY <1>3
      <4> QED
        BY <1>3, <2>6, <3>1, <3>2, <4>1 DEF Scanned
    <3>4. w_i + 1 \in DOMAIN argv => \A j \in DOMAIN unsafe_opts : argv[w_i + 1].opt # unsafe_opts[j]
      BY <1>3, <2>3, <2>7, PathIsNoOption
    <3> QED
      BY <1>1, <1>2, <2>1, <2>6, <3>3, <3>4 DEF Scanned
  <2> QED
    BY <1>1, <1>2, <1>3, <2>1, <2>6, <2>7 DEF WrapperInv
<1>8. CASE Wrapper!JoinedPath
  <2>1. /\ w_pc = "scan" /\ w_i \in DOMAIN argv /\ argv[w_i].path # "none" /\ w_k \in DOMAIN unsafe_opts
        /\ argv[w_i].opt = unsafe_opts[w_k] /\ w_i' = w_i /\ w_k' = w_k + 1 /\ Wrapper!Check(w_i)
        /\ UNCHANGED <<args, exec>>
    BY <1>3, <1>8 DEF Wrapper!JoinedPath, Wrapper!Scanning, Wrapper!Matches
  <2>2. argv[w_i].path \in Unsafe => w_i \in Wrapper!UnsafeWords
    BY <1>3, <2>1 DEF Wrapper!IsOption
  <2>3. /\ reported \subseteq reported' /\ reported' \subseteq Wrapper!UnsafeWords
        /\ w_pc' \in {"scan", "error"} /\ (w_pc' = "error" => reported' # {})
        /\ w_pc' # "error" /\ paranoid => reported' = {}
        /\ argv[w_i].path \in Unsafe => w_i \in reported'
    BY <2>1, <2>2 DEF WrapperInv, Wrapper!Check
  <2>4. ASSUME Wrapper!WellFormed PROVE Scanned'
    <3>1. Scanned
      BY <2>1, <2>4 DEF WrapperInv
    <3>2. AfterOption(w_i)' = AfterOption(w_i)
      BY <2>1, <1>1, <1>3 DEF AfterOption, Wrapper!IsOption
    <3>3. \A j \in 1 .. w_k' - 1 : j \in 1 .. w_k - 1 \/ j = w_k
      BY <1>3, <2>1
    <3> QED
      BY <1>1, <1>2, <2>1, <2>3, <3>1, <3>2, <3>3 DEF Scanned
  <2> QED
    BY <1>1, <1>2, <1>3, <2>1, <2>3, <2>4 DEF WrapperInv
<1>9. CASE Wrapper!Exec
  <2>1. /\ w_pc = "scan" /\ w_i >= Len(argv) + 1 /\ w_pc' = "exec" /\ args = Prelude
        /\ args' = args \o argv \o <<"NULL">>
        /\ exec' = IF "ccache" \in br /\ no_ccache THEN Tail(args') ELSE args'
        /\ UNCHANGED <<w_i, w_k, reported>>
    BY <1>3, <1>9 DEF Wrapper!Exec, WrapperInv
  <2>2. exec' = Front \o argv \o <<"NULL">>
    <3>1. CASE "ccache" \in br /\ no_ccache
      <4>1. Len(Prelude) >= 1
        BY PreludeHasPath, DefaultsAreFew
      <4>2. Tail(Prelude \o argv \o <<"NULL">>) = Tail(Prelude) \o argv \o <<"NULL">>
        BY <1>3, <4>1, PreludeHasPath, TailOfJoined
      <4> QED
        BY <2>1, <3>1, <4>2 DEF Front
    <3>2. CASE ~ ("ccache" \in br /\ no_ccache)
      BY <2>1, <3>2 DEF Front
    <3> QED
      BY <3>1, <3>2
  <2>3. ASSUME Wrapper!WellFormed PROVE Wrapper!UnsafeWords \subseteq reported
    <3>1. Scanned
      BY <2>1, <2>3 DEF WrapperInv
    <3>2. \A n \in Wrapper!UnsafeWords : n < w_i
      BY <1>3, <2>1
    <3> QED
      BY <3>1, <3>2 DEF Scanned
  <2> QED
    BY <1>1, <1>2, <1>3, <2>1, <2>2, <2>3 DEF WrapperInv
<1> QED
  BY <1>4, <1>5, <1>6, <1>7, <1>8, <1>9 DEF Wrapper!Next

\* What is executed, word by word.
LEMMA ExecWords ==
    ASSUME argv \in Seq(Arguments), NEW e, e = Front \o argv \o <<"NULL">>
    PROVE  /\ Len(e) = Len(Front) + Len(argv) + 1
           /\ \A n \in 1 .. Len(Front) : e[n] = Front[n]
           /\ SubSeq(e, Len(Front) + 1, Len(Front) + Len(argv)) = argv
<1> DEFINE W == OwnWords \cup Arguments \cup {"NULL"}
<1>1. Front \in Seq(W) /\ argv \in Seq(W) /\ <<"NULL">> \in Seq(W) /\ Len(Front) \in Nat /\ Len(argv) \in Nat
  BY PreludeHasPath
<1> HIDE DEF W
<1>2. /\ Front \o argv \in Seq(W) /\ Len(Front \o argv) = Len(Front) + Len(argv)
      /\ \A n \in 1 .. Len(Front) : (Front \o argv)[n] = Front[n]
      /\ \A n \in 1 .. Len(argv) : (Front \o argv)[Len(Front) + n] = argv[n]
  BY <1>1
<1> DEFINE fa == Front \o argv
<1>3. fa \in Seq(W) /\ e = fa \o <<"NULL">>
  BY <1>2
<1>4. Len(fa) = Len(Front) + Len(argv)
  BY <1>2
<1> HIDE DEF fa
<1>5. e \in Seq(W) /\ Len(e) = Len(fa) + 1 /\ \A n \in 1 .. Len(fa) : e[n] = fa[n]
  <2> DEFINE null == <<"NULL">>
  <2>1. null \in Seq(W) /\ Len(null) = 1 /\ e = fa \o null
    BY <1>1, <1>3
  <2> HIDE DEF null
  <2>2. fa \o null \in Seq(W) /\ Len(fa \o null) = Len(fa) + Len(null)
    BY <1>3, <2>1
  <2>3. \A n \in 1 .. Len(fa) : (fa \o null)[n] = fa[n]
    BY <1>3, <2>1
  <2> QED
    BY <2>1, <2>2, <2>3
<1>6. \A n \in 1 .. Len(Front) : e[n] = Front[n]
  BY <1>1, <1>2, <1>4, <1>5 DEF fa
<1>7. SubSeq(e, Len(Front) + 1, Len(Front) + Len(argv)) = argv
  <2> DEFINE t == SubSeq(e, Len(Front) + 1, Len(Front) + Len(argv))
  <2>1. t \in Seq(W) /\ Len(t) = Len(argv)
    BY <1>1, <1>4, <1>5
  <2>2. ASSUME NEW n \in 1 .. Len(argv) PROVE t[n] = argv[n]
    <3>1. t[n] = e[Len(Front) + n] /\ Len(Front) + n \in 1 .. Len(fa)
      BY <1>1, <1>4, <1>5
    <3> QED
      BY <1>2, <1>5, <3>1 DEF fa
  <2> HIDE DEF t
  <2>3. t = argv
    BY <1>1, <2>1, <2>2
  <2> QED
    BY <2>3 DEF t
<1> QED
  BY <1>4, <1>5, <1>6, <1>7

LEMMA WrapperInvIsSound == WrapperInv => WrapperIsSound
<1> SUFFICES ASSUME WrapperInv PROVE Wrapper!WrapperIsSound
  BY DEF WrapperIsSound
<1>1. argv \in Seq(Arguments) /\ Len(argv) \in Nat
  BY DEF WrapperInv
<1>2. Prelude \in Seq(OwnWords)
  BY PreludeHasPath
<1>3. Len(args) <= Wrapper!Size
  <2>1. Len(Prelude) \in Nat /\ Wrapper!Size \in Nat /\ Len(Prelude) + Len(argv) + 1 <= Wrapper!Size
    <3>1. Len(Defaults) \in Nat /\ Len(Defaults) <= 3
      <4>1. \A d \in 0 .. 3 : d \in Nat /\ d <= 3
        OBVIOUS
      <4> QED
        BY <4>1, DefaultsAreFew
    <3>2. /\ Len(Prelude) = (IF "ccache" \in br THEN 4 ELSE 3) + Len(Defaults)
          /\ Wrapper!Size = 3 + (IF "ccache" \in br THEN 1 ELSE 0) + (Len(argv) + 1) + 3
      BY PreludeHasPath DEF Wrapper!Size, Wrapper!predef_args, Wrapper!argc, Wrapper!EXCLUSIVE_ARGS
    <3>3. CASE "ccache" \in br
      <4>1. Len(Prelude) = 4 + Len(Defaults) /\ Wrapper!Size = Len(argv) + 8
        BY <1>1, <3>1, <3>2, <3>3
      <4> QED
        BY <1>1, <3>1, <4>1
    <3>4. CASE "ccache" \notin br
      <4>1. Len(Prelude) = 3 + Len(Defaults) /\ Wrapper!Size = Len(argv) + 7
        BY <1>1, <3>1, <3>2, <3>4
      <4> QED
        BY <1>1, <3>1, <4>1
    <3> QED
      BY <3>3, <3>4
  <2>2. CASE w_pc = "predef"
    BY <1>1, <2>1, <2>2 DEF WrapperInv
  <2>3. CASE w_pc \in {"scan", "error"}
    BY <1>1, <2>1, <2>3 DEF WrapperInv
  <2>4. CASE w_pc = "exec"
    <3>1. args = Prelude \o argv \o <<"NULL">>
      BY <2>4 DEF WrapperInv
    <3>2. Len(args) = Len(Prelude) + Len(argv) + 1
      <4> DEFINE W == OwnWords \cup Arguments \cup {"NULL"}
      <4>1. Prelude \in Seq(W) /\ argv \in Seq(W) /\ <<"NULL">> \in Seq(W)
        BY <1>1, <1>2
      <4> HIDE DEF W
      <4>2. Prelude \o argv \in Seq(W) /\ Len(Prelude \o argv) = Len(Prelude) + Len(argv)
        BY <4>1
      <4> QED
        BY <3>1, <4>1, <4>2
    <3> QED
      BY <2>1, <3>2
  <2> QED
    BY <2>2, <2>3, <2>4 DEF WrapperInv
<1>4. ASSUME w_pc = "exec"
      PROVE  /\ exec[1] = (IF "ccache" \in br /\ ~ no_ccache THEN "ccache" ELSE "path")
             /\ SubSeq(exec, Len(exec) - Len(argv), Len(exec) - 1) = argv
             /\ Wrapper!Has({"-mfloat-abi=", "-msoft-float"}) => ~ Wrapper!Default("-mfloat-abi=")
             /\ Wrapper!Has({"-mcpu=", "-march="}) => ~ Wrapper!Default("-march=") /\ ~ Wrapper!Default("-mcpu=")
  <2>1. exec = Front \o argv \o <<"NULL">>
    BY <1>4 DEF WrapperInv
  <2>2. /\ Len(exec) = Len(Front) + Len(argv) + 1
        /\ \A n \in 1 .. Len(Front) : exec[n] = Front[n]
        /\ SubSeq(exec, Len(Front) + 1, Len(Front) + Len(argv)) = argv
    BY <1>1, <2>1, ExecWords
  <2>3. /\ Len(Front) \in Nat /\ Len(Front) >= 3
        /\ Front[1] = IF "ccache" \in br /\ ~ no_ccache THEN "ccache" ELSE "path"
    BY PreludeHasPath
  <2>4. exec[1] = IF "ccache" \in br /\ ~ no_ccache THEN "ccache" ELSE "path"
    BY <2>2, <2>3
  <2>5. Len(exec) - Len(argv) = Len(Front) + 1 /\ Len(exec) - 1 = Len(Front) + Len(argv)
        /\ Len(exec) - Len(argv) - 1 = Len(Front)
    BY <1>1, <2>2, <2>3
  <2>6. ASSUME NEW opt \in {"-mfloat-abi=", "-march=", "-mcpu="}, Wrapper!Default(opt)
        PROVE  \/ opt = "-mfloat-abi=" /\ Floats
               \/ opt = "-march=" /\ Archs
               \/ opt = "-mcpu=" /\ Cpus
    <3>1. PICK n \in 1 .. Len(Front) : Front[n] = opt
      BY <2>2, <2>5, <2>6 DEF Wrapper!Default
    <3>2. PICK d \in 1 .. Len(Defaults) : Defaults[d] = opt
      BY <3>1, PreludeHasPath
    <3> QED
      <4>1. \/ Defaults[d] = "-mfloat-abi=" /\ Floats
            \/ Defaults[d] = "-march=" /\ Archs
            \/ Defaults[d] = "-mcpu=" /\ Cpus
        BY DefaultsAreFew
      <4> QED
        BY <3>2, <4>1, Zenon
  <2>7. Wrapper!Has({"-mfloat-abi=", "-msoft-float"}) => ~ Floats
    BY DEF Floats, Wrapper!Has
  <2>8. Wrapper!Has({"-mcpu=", "-march="}) => ~ Archs /\ ~ Cpus
    BY DEF Archs, Cpus, Wrapper!Has
  <2> QED
    BY <2>2, <2>4, <2>5, <2>6, <2>7, <2>8
<1>5. ASSUME Wrapper!WellFormed
      PROVE  /\ w_pc = "exec" => reported = Wrapper!UnsafeWords /\ (paranoid => Wrapper!UnsafeWords = {})
             /\ w_pc = "error" => reported # {} /\ reported \subseteq Wrapper!UnsafeWords
  BY <1>5 DEF WrapperInv
<1> QED
  BY <1>3, <1>4, <1>5 DEF Wrapper!WrapperIsSound

-----------------------------------------------------------------------------
(***************************************************************************)
(* The list of a choice.  Its window is moved by one line or set anew, and *)
(* when no member is to be highlighted one is a comment of the list, so    *)
(* that the first comment is in it too.                                    *)
(***************************************************************************)
Rows == [line \in 0 .. List!max_choice - 1 |-> List!Line(c_scroll + line, line = c_choice)]
InWindow == c_choice \in 0 .. List!max_choice - 1 /\ c_scroll \in 0 .. c_count - List!max_choice
HasMore == c_scroll + List!max_choice < c_count

ListInv ==
    /\ c_open \in {"menu", "in", "back"} /\ c_count \in Nat \ {0} /\ list_height \in Nat \ {0}
    /\ c_value \in 0 .. c_count - 1 /\ active \in 0 .. c_count - 1 \cup {List!NoItem}
    /\ c_count <= 2 \/ c_count <= ListItems
    /\ c_open = "in" =>
          /\ InWindow /\ c_shown = Rows
          /\ c_arrows[1] = (c_scroll > 0) /\ (HasMore => c_arrows[2])
          /\ "arrows" \notin c_stale => c_arrows[2] = HasMore
          /\ "button" \notin c_stale => c_lit = c_button
    /\ c_open = "back" => result[2] \in 0 .. c_count - 1 /\ List!Highlighted(c_shown) = {result[2]}

Below == {pair \in Nat \X Nat : pair[1] < pair[2]}

LEMMA LeastExists ==
    ASSUME NEW S, S \subseteq Nat, S # {}
    PROVE  /\ List!Min(S) \in S /\ \A n \in S : List!Min(S) <= n
           /\ Menu!Min(S) \in S /\ \A n \in S : Menu!Min(S) <= n
           /\ Pager!Min(S) \in S /\ \A n \in S : Pager!Min(S) <= n
<1>1. IsWellFoundedOn(Below, Nat)
  BY NatLessThanWellFounded DEF OpToRel, Below
<1>2. PICK n \in S : \A m \in S : ~ (<<m, n>> \in Below)
  BY <1>1, WFMin
<1>3. ASSUME NEW m \in S PROVE n <= m
  <2>1. n \in Nat /\ m \in Nat /\ <<m, n>>[1] = m /\ <<m, n>>[2] = n /\ <<m, n>> \in Nat \X Nat
    OBVIOUS
  <2>2. ~ m < n
    BY <1>2, <2>1, Zenon DEF Below
  <2> QED
    BY <2>1, <2>2
<1> QED
  BY <1>3 DEF List!Min, Menu!Min, Pager!Min

\* The window of n lines starts at from, with the line at highlighted.
LEMMA OneIsLit ==
    ASSUME NEW n \in Nat, NEW from \in Int, NEW at \in 0 .. n - 1,
           NEW lines, lines = [line \in 0 .. n - 1 |-> List!Line(from + line, line = at)]
    PROVE  List!Highlighted(lines) = {from + at}
<1>1. DOMAIN lines = 0 .. n - 1
  OBVIOUS
<1>2. ASSUME NEW line \in 0 .. n - 1 PROVE lines[line][1] = from + line /\ (lines[line][2] <=> line = at)
  BY DEF List!Line
<1>3. {line \in DOMAIN lines : lines[line][2]} = {at}
  BY <1>1, <1>2
<1>4. List!Highlighted(lines) = {lines[line][1] : line \in {at}}
  BY <1>3, Zenon DEF List!Highlighted
<1>5. lines[at][1] = from + at
  BY <1>2
<1> QED
  BY <1>4, <1>5

\* How many lines there are.
LEMMA Height ==
    ASSUME c_count \in Nat \ {0}, list_height \in Nat \ {0}
    PROVE  /\ List!max_choice \in Nat \ {0} /\ List!max_choice <= c_count /\ List!max_choice <= list_height
           /\ List!max_choice = c_count \/ List!max_choice = list_height
           /\ list_height < c_count => List!max_choice = list_height
           /\ ~ list_height < c_count => List!max_choice = c_count
BY DEF List!max_choice

LEMMA ListInitial == List!Init => ListInv
<1> SUFFICES ASSUME List!Init PROVE ListInv
  OBVIOUS
<1>1. /\ c_open = "menu" /\ c_count \in 1 .. ListItems /\ list_height \in 1 .. ListHeight
      /\ c_value \in 0 .. c_count - 1 /\ active = c_value
  BY DEF List!Init
<1> QED
  BY <1>1, ListAssumption DEF ListInv

LEMMA ListIdles == ListIdle => ListInv
BY DEF ListIdle, ListInv

\* The list is shown anew: from its start when a member is to be highlighted,
\* and where it was after a resize.
LEMMA SetupIsTrue ==
    ASSUME c_count \in Nat \ {0}, list_height \in Nat \ {0}, UNCHANGED <<c_count, list_height>>,
           NEW from \in Nat, NEW at \in Nat, List!Setup(from, at),
           \/ from = 0 /\ at \in 0 .. c_count - 1
           \/ at \in 0 .. List!max_choice - 1 /\ from \in 0 .. c_count - List!max_choice
    PROVE  /\ InWindow' /\ c_shown' = Rows' /\ c_open' = "in" /\ c_lit' = 0
           /\ c_arrows'[1] = (c_scroll' > 0) /\ (HasMore' => c_arrows'[2])
           /\ c_scroll' + c_choice' = from + at
           /\ from = 0 => c_arrows'[2] = HasMore'
<1> DEFINE max == List!max_choice
           over == at >= list_height
           new_top == IF over THEN at - list_height + 1 ELSE from
           new_at == IF over THEN list_height - 1 ELSE at
<1>0. \/ from = 0 /\ at \in 0 .. c_count - 1
      \/ at \in 0 .. max - 1 /\ from \in 0 .. c_count - max
  OBVIOUS
<1>1. /\ max \in Nat \ {0} /\ max <= c_count /\ max <= list_height
      /\ list_height < c_count => max = list_height
      /\ ~ list_height < c_count => max = c_count
      /\ List!max_choice' = max
  BY Height DEF List!max_choice
<1>2. /\ c_open' = "in" /\ c_scroll' = new_top /\ c_choice' = new_at /\ c_lit' = 0
      /\ c_shown' = [line \in 0 .. max - 1 |-> List!Line(new_top + line, line = new_at)]
      /\ c_arrows' = List!print_arrows(new_top, new_at)
  BY DEF List!Setup
<1> HIDE DEF max
<1>3. /\ new_at \in 0 .. max - 1 /\ new_top \in 0 .. c_count - max /\ new_top + new_at = from + at
      /\ over => list_height < c_count /\ max = list_height
  <2>1. CASE over
    <3>1. at \in 0 .. c_count - 1 /\ from = 0
      BY <1>0, <1>1, <2>1
    <3> QED
      BY <1>1, <2>1, <3>1
  <2>2. CASE ~ over
    <3>1. at \in 0 .. max - 1 /\ from \in 0 .. c_count - max
      BY <1>0, <1>1, <2>2
    <3> QED
      BY <1>1, <2>2, <3>1
  <2> QED
    BY <2>1, <2>2
<1>4. /\ c_arrows'[1] = (new_top > 0)
      /\ c_arrows'[2] = (list_height < c_count /\ new_top + new_at < c_count - 1)
  BY <1>2 DEF List!print_arrows
<1>5. HasMore' = (new_top + max < c_count)
  BY <1>1, <1>2 DEF HasMore
<1>6. new_top + max < c_count => list_height < c_count /\ new_top + new_at < c_count - 1
  BY <1>1, <1>3
<1>7. from = 0 => (new_top + max < c_count) = (list_height < c_count /\ new_top + new_at < c_count - 1)
  BY <1>1, <1>3
<1>8. InWindow' /\ c_shown' = Rows'
  BY <1>1, <1>2, <1>3 DEF InWindow, Rows
<1>9. (c_scroll' > 0) = (new_top > 0)
  BY <1>2
<1>10. c_arrows'[1] = (c_scroll' > 0) /\ (HasMore' => c_arrows'[2]) /\ (from = 0 => c_arrows'[2] = HasMore')
  <2> DEFINE more == new_top + max < c_count
             down == list_height < c_count /\ new_top + new_at < c_count - 1
             up == new_top > 0
  <2>1. c_arrows'[1] = up /\ c_arrows'[2] = down /\ HasMore' = more /\ (more => down)
        /\ (from = 0 => more = down) /\ (c_scroll' > 0) = up
    BY <1>4, <1>5, <1>6, <1>7, <1>9
  <2> HIDE DEF more, down, up
  <2> QED
    BY <2>1, Zenon
<1> QED
  BY <1>2, <1>3, <1>8, <1>10

\* What conf_choice() shows.
LEMMA ShowIsTrue ==
    ASSUME ListInv, UNCHANGED <<c_count, list_height, c_value, result>>, NEW member, List!Show(member),
           \/ member \in 0 .. c_count - 1
           \/ member = List!NoItem /\ Comments \cap 0 .. c_count - 1 # {}
    PROVE  ListInv' /\ (member # List!NoItem => List!Highlighted(c_shown') = {member})
<1> DEFINE at == IF member = List!NoItem THEN List!Min(Comments) ELSE member
<1>1. c_count \in Nat \ {0} /\ list_height \in Nat \ {0} /\ c_value \in 0 .. c_count - 1 /\ List!NoItem \notin Nat
      /\ (c_count <= 2 \/ c_count <= ListItems)
  BY DEF ListInv, List!NoItem
<1>2. List!Setup(0, at) /\ active' = member /\ c_button' = 0 /\ c_stale' = {}
  BY DEF List!Show
<1>3. at \in 0 .. c_count - 1
  <2>1. CASE member \in 0 .. c_count - 1
    BY <1>1, <2>1
  <2>2. CASE member = List!NoItem
    <3>1. PICK comment \in Comments : comment \in 0 .. c_count - 1
      BY <1>1, <2>2
    <3>2. List!Min(Comments) \in Comments /\ List!Min(Comments) <= comment /\ Comments \subseteq Nat
      BY <3>1, LeastExists, ListAssumption
    <3>3. at = List!Min(Comments) /\ at \in Nat /\ at <= comment
      BY <2>2, <3>2
    <3> QED
      BY <1>1, <3>1, <3>3
  <2> QED
    BY <2>1, <2>2
<1> HIDE DEF at
<1>4. /\ InWindow' /\ c_shown' = Rows' /\ c_open' = "in" /\ c_lit' = 0
      /\ c_arrows'[1] = (c_scroll' > 0) /\ (HasMore' => c_arrows'[2])
      /\ c_scroll' + c_choice' = at
      /\ c_arrows'[2] = HasMore'
  <2>1. at \in Nat /\ 0 + at = at
    BY <1>1, <1>3
  <2> QED
    BY <1>1, <1>2, <1>3, <2>1, SetupIsTrue
<1>5. ListInv'
  <2>1. active' \in 0 .. c_count' - 1 \cup {List!NoItem}
    BY <1>2
  <2> QED
    BY <1>1, <1>2, <1>4, <2>1 DEF ListInv
<1>6. List!Highlighted(c_shown') = {at}
  <2>1. List!max_choice' \in Nat /\ c_choice' \in 0 .. List!max_choice' - 1 /\ c_scroll' \in Int
    BY <1>1, <1>4, Height DEF InWindow, List!max_choice
  <2>2. c_shown' = [line \in 0 .. List!max_choice' - 1 |-> List!Line(c_scroll' + line, line = c_choice')]
    BY <1>4 DEF Rows
  <2>3. PICK n, from, to : n = List!max_choice' /\ from = c_scroll' /\ to = c_choice'
    BY Zenon
  <2>4. c_shown' = [line \in 0 .. n - 1 |-> List!Line(from + line, line = to)]
    BY <2>2, <2>3, Zenon
  <2>5. List!Highlighted(c_shown') = {from + to}
    <3>1. n \in Nat /\ from \in Int /\ to \in 0 .. n - 1
      BY <2>1, <2>3, Zenon
    <3> QED
      BY <2>4, <3>1, OneIsLit
  <2> QED
    BY <1>4, <2>3, <2>5
<1> QED
  BY <1>5, <1>6 DEF at

\* The cursor goes to another line of the window.
LEMMA MoveToIsTrue ==
    ASSUME ListInv, c_open = "in", NEW to \in 0 .. List!max_choice - 1, List!MoveTo(to),
           UNCHANGED <<c_open, c_count, list_height, c_value, active, c_button, c_lit, c_stale, result>>
    PROVE  ListInv'
<1>1. /\ c_choice' = to /\ UNCHANGED <<c_scroll, c_arrows>> /\ to # c_choice
      /\ c_shown' = [[Rows EXCEPT ![c_choice] = List!Line(c_scroll + c_choice, FALSE)]
                          EXCEPT ![to] = List!Line(c_scroll + to, TRUE)]
  BY DEF List!MoveTo, List!print_item, ListInv
<1>2. List!max_choice' = List!max_choice /\ InWindow /\ DOMAIN Rows = 0 .. List!max_choice - 1
  BY DEF List!max_choice, ListInv, Rows
<1>3. c_shown' = [line \in 0 .. List!max_choice - 1 |-> List!Line(c_scroll + line, line = to)]
  <2>1. DOMAIN c_shown' = 0 .. List!max_choice - 1
    BY <1>1, <1>2
  <2>2. ASSUME NEW line \in 0 .. List!max_choice - 1
        PROVE  c_shown'[line] = List!Line(c_scroll + line, line = to)
    <3>1. CASE line = to
      <4>1. c_shown'[line] = List!Line(c_scroll + to, TRUE) /\ (line = to) = TRUE
        BY <1>1, <1>2, <3>1
      <4> QED
        BY <3>1, <4>1, Zenon
    <3>2. CASE line = c_choice
      <4>1. c_shown'[line] = List!Line(c_scroll + line, FALSE) /\ (line = to) = FALSE
        BY <1>1, <1>2, <3>2
      <4> QED
        BY <4>1, Zenon
    <3>3. CASE line # to /\ line # c_choice
      <4>1. c_shown'[line] = List!Line(c_scroll + line, line = c_choice) /\ (line = to) = FALSE /\ (line = c_choice) = FALSE
        BY <1>1, <1>2, <3>3 DEF Rows
      <4> QED
        BY <4>1, Zenon
    <3> QED
      BY <3>1, <3>2, <3>3
  <2> QED
    BY <1>1, <2>1, <2>2
<1>4. c_shown' = Rows' /\ InWindow' /\ HasMore' = HasMore
  BY <1>1, <1>2, <1>3 DEF Rows, InWindow, HasMore
<1> QED
  BY <1>1, <1>4 DEF ListInv

\* At the edge of the window the list moves under the cursor.
LEMMA ScrollIsTrue ==
    ASSUME ListInv, c_open = "in", NEW n \in {-1, 1}, NEW item, List!ScrollBy(n, c_choice, item),
           item = c_scroll + n + c_choice,
           \/ n = -1 /\ c_choice = 0 /\ c_scroll > 0
           \/ n = 1 /\ c_choice = List!max_choice - 1 /\ c_scroll + c_choice < c_count - 1,
           UNCHANGED <<c_open, c_count, list_height, c_value, active, c_button, c_lit, c_stale, result>>
    PROVE  ListInv'
<1> DEFINE max == List!max_choice
           off == List!print_item(Rows, c_choice, c_scroll + c_choice, FALSE)
           moved == IF list_height > 1 THEN List!wscrl(off, n) ELSE Rows
<1>1. /\ c_count \in Nat \ {0} /\ list_height \in Nat \ {0} /\ InWindow /\ c_shown = Rows /\ n \in Int
      /\ c_choice \in 0 .. max - 1 /\ c_scroll \in 0 .. c_count - max
  BY DEF ListInv, InWindow
<1>2. /\ max \in Nat \ {0} /\ max <= c_count /\ max <= list_height
      /\ list_height < c_count => max = list_height
      /\ ~ list_height < c_count => max = c_count
      /\ List!max_choice' = max
  BY <1>1, Height DEF List!max_choice
<1>3. /\ c_scroll' = c_scroll + n /\ UNCHANGED c_choice
      /\ c_shown' = List!print_item(moved, c_choice, item, TRUE)
      /\ c_arrows' = List!print_arrows(c_scroll + n, c_choice)
  BY <1>1 DEF List!ScrollBy
<1>4. DOMAIN off = 0 .. max - 1 /\ DOMAIN moved = 0 .. max - 1
  BY DEF Rows, List!print_item, List!wscrl
<1>5. c_shown' = [line \in 0 .. max - 1 |-> List!Line(c_scroll' + line, line = c_choice)]
  <2>1. DOMAIN c_shown' = 0 .. max - 1 /\ c_shown' = [moved EXCEPT ![c_choice] = List!Line(item, TRUE)]
    BY <1>3, <1>4 DEF List!print_item
  <2>2. ASSUME NEW line \in 0 .. max - 1
        PROVE  c_shown'[line] = List!Line(c_scroll' + line, line = c_choice)
    <3>1. CASE line = c_choice
      <4>1. c_shown'[line] = List!Line(item, TRUE) /\ item = c_scroll' + line /\ (line = c_choice) = TRUE
        BY <1>1, <1>3, <1>4, <2>1, <3>1
      <4> QED
        BY <4>1, Zenon
    <3>2. CASE line # c_choice
      <4>1. max > 1 /\ list_height > 1 /\ line + n \in 0 .. max - 1
        <5>1. CASE n = -1 /\ c_choice = 0 /\ c_scroll > 0
          BY <1>1, <1>2, <3>2, <5>1
        <5>2. CASE n = 1 /\ c_choice = max - 1 /\ c_scroll + c_choice < c_count - 1
          BY <1>1, <1>2, <3>2, <5>2
        <5> QED
          BY <5>1, <5>2
      <4>2. moved[line] = off[line + n]
        BY <1>4, <4>1 DEF List!wscrl
      <4>3. c_shown'[line] = moved[line] /\ (line = c_choice) = FALSE
        BY <2>1, <3>2, <1>4
      <4>4. off[line + n] = List!Line(c_scroll + (line + n), FALSE)
        <5>1. CASE line + n = c_choice
          BY <1>1, <4>1, <5>1 DEF List!print_item, Rows
        <5>2. CASE line + n # c_choice
          <6>1. off[line + n] = List!Line(c_scroll + (line + n), line + n = c_choice) /\ (line + n = c_choice) = FALSE
            BY <1>1, <4>1, <5>2 DEF List!print_item, Rows
          <6> QED
            BY <6>1, Zenon
        <5> QED
          BY <5>1, <5>2
      <4>5. c_scroll + (line + n) = c_scroll' + line
        BY <1>1, <1>3
      <4> QED
        BY <4>2, <4>3, <4>4, <4>5, Zenon
    <3> QED
      BY <3>1, <3>2
  <2> QED
    BY <2>1, <2>2
<1>6. c_scroll + n \in 0 .. c_count - max
  <2>1. CASE n = -1 /\ c_choice = 0 /\ c_scroll > 0
    BY <1>1, <1>2, <2>1
  <2>2. CASE n = 1 /\ c_choice = max - 1 /\ c_scroll + c_choice < c_count - 1
    BY <1>1, <1>2, <2>2
  <2> QED
    BY <2>1, <2>2
<1>7. (list_height < c_count /\ c_scroll + n + c_choice < c_count - 1) = (c_scroll + n + max < c_count)
  <2>1. list_height < c_count /\ max = list_height
    BY <1>1, <1>2, <1>6
  <2>2. CASE n = -1 /\ c_choice = 0 /\ c_scroll > 0
    BY <1>1, <1>2, <2>1, <2>2
  <2>3. CASE n = 1 /\ c_choice = max - 1 /\ c_scroll + c_choice < c_count - 1
    BY <1>1, <1>2, <2>1, <2>3
  <2> QED
    BY <2>2, <2>3
<1>8. c_arrows'[1] = (c_scroll' > 0) /\ c_arrows'[2] = HasMore'
  <2>1. /\ c_arrows'[1] = (c_scroll + n > 0)
        /\ c_arrows'[2] = (list_height < c_count /\ c_scroll + n + c_choice < c_count - 1)
    BY <1>3 DEF List!print_arrows
  <2>2. HasMore' = (c_scroll + n + max < c_count) /\ (c_scroll' > 0) = (c_scroll + n > 0)
    BY <1>2, <1>3 DEF HasMore
  <2> QED
    BY <1>7, <2>1, <2>2, Zenon
<1>9. InWindow' /\ c_shown' = Rows'
  BY <1>1, <1>2, <1>3, <1>5, <1>6 DEF InWindow, Rows
<1> QED
  BY <1>8, <1>9 DEF ListInv

LEMMA ListStep == ListInv /\ [List!Next]_listVars => ListInv' /\ (List!HelpComesBack \/ UNCHANGED listVars)
<1> SUFFICES ASSUME ListInv, [List!Next]_listVars
             PROVE  ListInv' /\ (List!HelpComesBack \/ UNCHANGED listVars)
  OBVIOUS
<1>0. c_count \in Nat \ {0} /\ list_height \in Nat \ {0} /\ c_value \in 0 .. c_count - 1 /\ (c_count <= 2 \/ c_count <= ListItems)
  BY DEF ListInv
<1>1. CASE UNCHANGED listVars
  BY <1>1 DEF listVars, ListInv, InWindow, Rows, HasMore, List!max_choice
<1>2. CASE List!Start
  BY <1>0, <1>2, ShowIsTrue DEF List!Start, List!HelpComesBack, List!Again
<1>3. CASE List!Resize
  <2>1. /\ c_open = "in" /\ List!Setup(c_scroll, c_choice) /\ InWindow
        /\ c_stale' = {"arrows"} \cup {"button" : b \in {c_button} \ {0}}
        /\ UNCHANGED <<c_count, list_height, c_value, active, c_button, result>>
    BY <1>3 DEF List!Resize, ListInv
  <2>2. c_scroll \in Nat /\ c_choice \in Nat /\ c_choice \in 0 .. List!max_choice - 1
        /\ c_scroll \in 0 .. c_count - List!max_choice
    BY <1>0, <2>1, Height DEF InWindow
  <2>3. /\ InWindow' /\ c_shown' = Rows' /\ c_open' = "in" /\ c_lit' = 0
        /\ c_arrows'[1] = (c_scroll' > 0) /\ (HasMore' => c_arrows'[2])
    BY <1>0, <2>1, <2>2, SetupIsTrue
  <2>4. "arrows" \in c_stale' /\ ("button" \notin c_stale' => c_button = 0)
    BY <2>1
  <2>5. ListInv'
    BY <1>0, <2>1, <2>3, <2>4 DEF ListInv
  <2> QED
    BY <2>1, <2>5 DEF List!HelpComesBack, List!Again
<1>4. CASE List!Move
  <2>1. c_open = "in" /\ UNCHANGED <<c_open, c_count, list_height, c_value, active, c_button, c_lit, c_stale, result>>
        /\ (List!KeyUp \/ List!KeyDown \/ List!Letter)
    BY <1>4 DEF List!Move
  <2>2. /\ c_choice \in 0 .. List!max_choice - 1 /\ c_scroll \in 0 .. c_count - List!max_choice
        /\ List!max_choice \in Nat \ {0} /\ List!max_choice <= c_count
    BY <1>0, <2>1, Height DEF ListInv, InWindow
  <2>3. ASSUME c_choice = 0, c_scroll > 0, List!ScrollBy(-1, 0, c_scroll - 1) PROVE ListInv'
    <3>1. PICK item : item = c_scroll - 1
      OBVIOUS
    <3>2. item = c_scroll + (-1) + c_choice
      BY <1>0, <2>2, <2>3, <3>1
    <3>3. List!ScrollBy(-1, c_choice, item)
      BY <2>3, <3>1 DEF List!ScrollBy
    <3> QED
      BY <2>1, <2>3, <3>2, <3>3, ScrollIsTrue
  <2>4. ASSUME c_choice = List!max_choice - 1, c_scroll + c_choice < c_count - 1,
               List!ScrollBy(1, List!max_choice - 1, c_scroll + List!max_choice)
        PROVE  ListInv'
    <3>1. PICK item : item = c_scroll + List!max_choice
      OBVIOUS
    <3>2. item = c_scroll + 1 + c_choice
      BY <1>0, <2>2, <2>4, <3>1
    <3>3. List!ScrollBy(1, c_choice, item)
      BY <2>4, <3>1 DEF List!ScrollBy
    <3> QED
      BY <2>1, <2>4, <3>2, <3>3, ScrollIsTrue
  <2>5. ASSUME NEW to \in 0 .. List!max_choice - 1, List!MoveTo(to) PROVE ListInv'
    BY <2>1, <2>5, MoveToIsTrue
  <2>6. ASSUME List!KeyUp PROVE ListInv'
    <3>1. ASSUME c_choice > 0, List!MoveTo(c_choice - 1) PROVE ListInv'
      <4>1. PICK to : to = c_choice - 1
        OBVIOUS
      <4>2. to \in 0 .. List!max_choice - 1
        BY <2>2, <3>1, <4>1
      <4>3. List!MoveTo(to)
        BY <3>1, <4>1 DEF List!MoveTo
      <4> QED
        BY <2>5, <4>2, <4>3
    <3> QED
      BY <2>3, <2>6, <3>1 DEF List!KeyUp
  <2>7. ASSUME List!KeyDown PROVE ListInv'
    <3>1. ASSUME c_choice < List!max_choice - 1, List!MoveTo(c_choice + 1) PROVE ListInv'
      <4>1. PICK to : to = c_choice + 1
        OBVIOUS
      <4>2. to \in 0 .. List!max_choice - 1
        BY <2>2, <3>1, <4>1
      <4>3. List!MoveTo(to)
        BY <3>1, <4>1 DEF List!MoveTo
      <4> QED
        BY <2>5, <4>2, <4>3
    <3> QED
      BY <2>4, <2>7, <3>1 DEF List!KeyDown
  <2>8. ASSUME List!Letter PROVE ListInv'
    <3>1. PICK letter \in {Letters[line + 1] : line \in c_scroll .. c_scroll + List!max_choice - 1} :
             List!MoveTo(List!Min({line \in 0 .. List!max_choice - 1 : Letters[c_scroll + line + 1] = letter}))
      BY <2>8 DEF List!Letter
    <3> DEFINE S == {line \in 0 .. List!max_choice - 1 : Letters[c_scroll + line + 1] = letter}
    <3>2. S \subseteq Nat
      BY <2>2
    <3>3. S # {}
      <4>1. PICK line \in c_scroll .. c_scroll + List!max_choice - 1 : letter = Letters[line + 1]
        OBVIOUS
      <4>2. line - c_scroll \in 0 .. List!max_choice - 1 /\ c_scroll + (line - c_scroll) + 1 = line + 1
        BY <1>0, <2>2
      <4> QED
        BY <4>1, <4>2
    <3>4. List!Min(S) \in 0 .. List!max_choice - 1
      BY <3>2, <3>3, LeastExists
    <3>5. PICK to : to = List!Min(S)
      OBVIOUS
    <3>6. List!MoveTo(to)
      BY <3>1, <3>5 DEF List!MoveTo
    <3> QED
      BY <2>5, <3>4, <3>5, <3>6
  <2>9. ListInv'
    BY <2>1, <2>6, <2>7, <2>8
  <2> QED
    BY <2>1, <2>9 DEF List!HelpComesBack, List!Again
<1>5. CASE List!Button
  BY <1>5 DEF List!Button, ListInv, InWindow, Rows, HasMore, List!max_choice, List!HelpComesBack, List!Again
<1>6. CASE List!Leave
  <2>1. /\ c_open = "in" /\ c_open' = "back" /\ result'[2] = c_scroll + c_choice
        /\ UNCHANGED <<c_count, list_height, c_value, active, c_shown>>
    BY <1>6 DEF List!Leave
  <2>2. /\ c_choice \in 0 .. List!max_choice - 1 /\ c_scroll \in 0 .. c_count - List!max_choice
        /\ List!max_choice \in Nat \ {0} /\ c_shown = Rows
    BY <1>0, <2>1, Height DEF ListInv, InWindow
  <2>3. result'[2] \in 0 .. c_count - 1
    BY <1>0, <2>1, <2>2
  <2>4. List!Highlighted(c_shown) = {result'[2]}
    <3>1. PICK n, from, to : n = List!max_choice /\ from = c_scroll /\ to = c_choice
      BY Zenon
    <3>2. n \in Nat /\ from \in Int /\ to \in 0 .. n - 1
      BY <1>0, <2>2, <3>1
    <3>3. c_shown = [line \in 0 .. n - 1 |-> List!Line(from + line, line = to)]
      BY <2>2, <3>1, Zenon DEF Rows
    <3>4. List!Highlighted(c_shown) = {from + to}
      BY <3>2, <3>3, OneIsLit
    <3> QED
      BY <2>1, <3>1, <3>4
  <2>5. ListInv'
    BY <1>0, <2>1, <2>3, <2>4 DEF ListInv
  <2> QED
    BY <2>1, <2>5 DEF List!HelpComesBack, List!Again
<1>7. CASE List!Set
  <2>1. ListInv'
    BY <1>0, <1>7 DEF List!Set, ListInv
  <2>2. ~ List!Again
    BY <1>7 DEF List!Set, List!Again, List!Show, List!Setup
  <2> QED
    BY <2>1, <2>2 DEF List!HelpComesBack
<1>8. CASE List!Again
  <2> DEFINE member == CASE result[1] = 0 -> active
                         [] result[1] = 1 /\ result[2] \in Comments -> List!NoItem
                         [] OTHER -> result[2]
  <2>1. /\ c_open = "back" /\ (result[1] = 1 \/ result[2] \in Comments) /\ List!Show(member)
        /\ UNCHANGED <<c_count, list_height, c_value, result>>
    BY <1>8 DEF List!Again
  <2>2. result[2] \in 0 .. c_count - 1 /\ active \in 0 .. c_count - 1 \cup {List!NoItem}
    BY <2>1 DEF ListInv
  <2>3. result[2] \in Comments => Comments \cap 0 .. c_count - 1 # {}
    BY <2>2
  <2>4. \/ member \in 0 .. c_count - 1
        \/ member = List!NoItem /\ Comments \cap 0 .. c_count - 1 # {}
    BY <2>1, <2>2, <2>3
  <2>5. result[2] \notin Comments => member = result[2] /\ member # List!NoItem
    BY <1>0, <2>1, <2>2 DEF List!NoItem
  <2> HIDE DEF member
  <2>6. ListInv' /\ (member # List!NoItem => List!Highlighted(c_shown') = {member})
    BY <2>1, <2>4, ShowIsTrue
  <2> QED
    BY <2>5, <2>6 DEF List!HelpComesBack
<1>9. CASE List!Escape
  BY <1>0, <1>9 DEF List!Escape, ListInv, List!HelpComesBack, List!Again
<1> QED
  BY <1>1, <1>2, <1>3, <1>4, <1>5, <1>6, <1>7, <1>8, <1>9 DEF List!Next

LEMMA ListInvIsTrue == ListInv' => List!ChoiceIsTrue'
BY DEF ListInv, List!ChoiceIsTrue, InWindow, Rows, HasMore

-----------------------------------------------------------------------------
(***************************************************************************)
(* The menu.  Each key moves the window by lines, takes the highlight off  *)
(* and puts it on; between the two the lines are a window of the list      *)
(* without highlight, and a page of single steps keeps it so.              *)
(***************************************************************************)
MenuLines(from, at) == [line \in 0 .. Menu!max_choice - 1 |-> Menu!Line(from + line, line = at)]
MenuCells == {Menu!Line(item, FALSE) : item \in Int} \cup {Menu!Line(item, TRUE) : item \in Int}
MenuDrawn == "list" \notin m_stale
PlainLines(m, from) == [i \in 0 .. m - 1 |-> Menu!Line(from + i, FALSE)]
\* What is on the screen while a key is at work.
Unlits ==
    {s \in [scroll : 0 .. m_count - Menu!max_choice, choice : 0 .. Menu!max_choice - 1,
            shown : [0 .. Menu!max_choice - 1 -> MenuCells]] :
        MenuDrawn => s.shown = MenuLines(s.scroll, Menu!NoItem)}
MenuSized == m_count \in Nat \ {0} /\ rows \in Nat \ {0}

LEMMA MenuHeight ==
    ASSUME MenuSized
    PROVE  /\ Menu!max_choice \in Nat \ {0} /\ Menu!max_choice <= m_count /\ Menu!max_choice <= rows
           /\ rows < m_count => Menu!max_choice = rows
           /\ ~ rows < m_count => Menu!max_choice = m_count
BY DEF MenuSized, Menu!max_choice, Menu!Least

\* What the terminal leaves when the window moves by a line, and the line that
\* is printed then.
Shifted(lines, n) == [i \in DOMAIN lines |-> IF i + n \in DOMAIN lines THEN lines[i + n] ELSE Menu!Blank]
Down(lines, item) == [Shifted(lines, -1) EXCEPT ![0] = Menu!Line(item, FALSE)]
Up(lines, m, item) == [Shifted(lines, 1) EXCEPT ![m - 1] = Menu!Line(item, FALSE)]

LEMMA DownShifts ==
    ASSUME NEW m \in Nat \ {0}, NEW from \in Int, NEW lines \in [0 .. m - 1 -> MenuCells]
    PROVE  /\ Down(lines, from - 1) \in [0 .. m - 1 -> MenuCells]
           /\ lines = PlainLines(m, from) => Down(lines, from - 1) = PlainLines(m, from - 1)
<1>1. Down(lines, from - 1) =
         [i \in 0 .. m - 1 |-> IF i = 0 THEN Menu!Line(from - 1, FALSE) ELSE lines[i - 1]]
  <2>1. DOMAIN lines = 0 .. m - 1 /\ \A i \in 0 .. m - 1 : i # 0 => i - 1 \in 0 .. m - 1
    OBVIOUS
  <2> QED
    BY <2>1 DEF Down, Shifted
<1>2. \A i \in 0 .. m - 1 : i # 0 => i - 1 \in 0 .. m - 1 /\ lines[i - 1] \in MenuCells
  OBVIOUS
<1>3. Menu!Line(from - 1, FALSE) \in MenuCells
  <2>1. from - 1 \in Int
    OBVIOUS
  <2> QED
    BY <2>1, Zenon DEF MenuCells
<1>4. Down(lines, from - 1) \in [0 .. m - 1 -> MenuCells]
  BY <1>1, <1>2, <1>3
<1>5. ASSUME lines = [i \in 0 .. m - 1 |-> Menu!Line(from + i, FALSE)]
      PROVE  Down(lines, from - 1) = [i \in 0 .. m - 1 |-> Menu!Line(from - 1 + i, FALSE)]
  <2>1. ASSUME NEW i \in 0 .. m - 1
        PROVE  (IF i = 0 THEN Menu!Line(from - 1, FALSE) ELSE lines[i - 1]) = Menu!Line(from - 1 + i, FALSE)
    <3>1. CASE i = 0
      BY <3>1
    <3>2. CASE i # 0
      <4>1. i - 1 \in 0 .. m - 1 /\ from + (i - 1) = from - 1 + i
        BY <3>2
      <4> QED
        BY <1>5, <3>2, <4>1
    <3> QED
      BY <3>1, <3>2
  <2> QED
    BY <1>1, <2>1
<1> QED
  BY <1>4, <1>5 DEF PlainLines

LEMMA UpShifts ==
    ASSUME NEW m \in Nat \ {0}, NEW from \in Int, NEW lines \in [0 .. m - 1 -> MenuCells]
    PROVE  /\ Up(lines, m, from + m) \in [0 .. m - 1 -> MenuCells]
           /\ lines = PlainLines(m, from) => Up(lines, m, from + m) = PlainLines(m, from + 1)
<1>1. Up(lines, m, from + m) =
         [i \in 0 .. m - 1 |-> IF i = m - 1 THEN Menu!Line(from + m, FALSE) ELSE lines[i + 1]]
  <2>1. DOMAIN lines = 0 .. m - 1 /\ \A i \in 0 .. m - 1 : i # m - 1 => i + 1 \in 0 .. m - 1
    OBVIOUS
  <2> QED
    BY <2>1 DEF Up, Shifted
<1>2. \A i \in 0 .. m - 1 : i # m - 1 => i + 1 \in 0 .. m - 1 /\ lines[i + 1] \in MenuCells
  OBVIOUS
<1>3. Menu!Line(from + m, FALSE) \in MenuCells
  <2>1. from + m \in Int
    OBVIOUS
  <2> QED
    BY <2>1, Zenon DEF MenuCells
<1>4. Up(lines, m, from + m) \in [0 .. m - 1 -> MenuCells]
  BY <1>1, <1>2, <1>3
<1>5. ASSUME lines = [i \in 0 .. m - 1 |-> Menu!Line(from + i, FALSE)]
      PROVE  Up(lines, m, from + m) = [i \in 0 .. m - 1 |-> Menu!Line(from + 1 + i, FALSE)]
  <2>1. ASSUME NEW i \in 0 .. m - 1
        PROVE  (IF i = m - 1 THEN Menu!Line(from + m, FALSE) ELSE lines[i + 1]) = Menu!Line(from + 1 + i, FALSE)
    <3>1. CASE i = m - 1
      <4>1. from + m = from + 1 + i
        BY <3>1
      <4> QED
        BY <3>1, <4>1
    <3>2. CASE i # m - 1
      <4>1. i + 1 \in 0 .. m - 1 /\ from + (i + 1) = from + 1 + i
        BY <3>2
      <4> QED
        BY <1>5, <3>2, <4>1
    <3> QED
      BY <3>1, <3>2
  <2> QED
    BY <1>1, <2>1
<1> QED
  BY <1>4, <1>5 DEF PlainLines

LEMMA UnlitShape ==
    ASSUME MenuSized, NEW s \in Unlits
    PROVE  /\ s = [scroll |-> s.scroll, choice |-> s.choice, shown |-> s.shown]
           /\ s.scroll \in 0 .. m_count - Menu!max_choice /\ s.choice \in 0 .. Menu!max_choice - 1
           /\ s.shown \in [0 .. Menu!max_choice - 1 -> MenuCells]
           /\ MenuDrawn => s.shown = PlainLines(Menu!max_choice, s.scroll)
<1>1. \A i \in 0 .. Menu!max_choice - 1 : i # Menu!NoItem
  BY MenuHeight DEF Menu!NoItem
<1>2. MenuDrawn => s.shown = MenuLines(s.scroll, Menu!NoItem)
  BY DEF Unlits
<1>3. MenuLines(s.scroll, Menu!NoItem) = PlainLines(Menu!max_choice, s.scroll)
  BY <1>1 DEF MenuLines, PlainLines
<1> QED
  BY <1>2, <1>3 DEF Unlits

LEMMA UnlitMade ==
    ASSUME MenuSized, NEW base \in 0 .. m_count - Menu!max_choice, NEW at \in 0 .. Menu!max_choice - 1,
           NEW lines \in [0 .. Menu!max_choice - 1 -> MenuCells],
           MenuDrawn => lines = PlainLines(Menu!max_choice, base)
    PROVE  [scroll |-> base, choice |-> at, shown |-> lines] \in Unlits
<1>1. \A i \in 0 .. Menu!max_choice - 1 : i # Menu!NoItem
  BY MenuHeight DEF Menu!NoItem
<1>2. MenuLines(base, Menu!NoItem) = PlainLines(Menu!max_choice, base)
  BY <1>1 DEF MenuLines, PlainLines
<1> QED
  BY <1>2 DEF Unlits

\* wscrl() and print_item() on a record of the list, field by field.
LEMMA LinesMove ==
    ASSUME NEW base, NEW at, NEW lines, NEW n
    PROVE  Menu!do_scroll([scroll |-> base, choice |-> at, shown |-> lines], n) =
             [scroll |-> base + n, choice |-> at, shown |-> Shifted(lines, n)]
<1> DEFINE s == [scroll |-> base, choice |-> at, shown |-> lines]
<1>1. s.shown = lines /\ s.scroll = base
  OBVIOUS
<1>2. Menu!do_scroll(s, n) = [s EXCEPT !.scroll = @ + n, !.shown = Shifted(lines, n)]
  BY <1>1, Zenon DEF Menu!do_scroll, Shifted
<1> QED
  BY <1>2

LEMMA LinePrints ==
    ASSUME NEW base, NEW at, NEW lines, NEW n, NEW cell
    PROVE  [[scroll |-> base, choice |-> at, shown |-> lines] EXCEPT !.shown[n] = cell] =
             [scroll |-> base, choice |-> at, shown |-> [lines EXCEPT ![n] = cell]]
OBVIOUS

LEMMA MovesDown ==
    ASSUME NEW base \in Int, NEW at, NEW lines
    PROVE  Menu!ScrollDown([scroll |-> base, choice |-> at, shown |-> lines]) =
             [scroll |-> base - 1, choice |-> at, shown |-> Down(lines, base - 1)]
<1> DEFINE s == [scroll |-> base, choice |-> at, shown |-> lines]
<1>1. base + (-1) = base - 1
  OBVIOUS
<1>2. s.scroll = base
  OBVIOUS
<1>3. Menu!do_scroll(s, -1) = [scroll |-> base - 1, choice |-> at, shown |-> Shifted(lines, -1)]
  <2>1. Menu!do_scroll(s, -1) = [scroll |-> base + (-1), choice |-> at, shown |-> Shifted(lines, -1)]
    BY LinesMove
  <2> QED
    BY <1>1, <2>1
<1>4. Menu!ScrollDown(s) = Menu!do_print_item(Menu!do_scroll(s, -1), 0, base - 1, FALSE)
  BY <1>2 DEF Menu!ScrollDown
<1> DEFINE cell == Menu!Line(base - 1, FALSE)
           r == [scroll |-> base - 1, choice |-> at, shown |-> Shifted(lines, -1)]
<1>5. Down(lines, base - 1) = [Shifted(lines, -1) EXCEPT ![0] = cell]
  BY DEF Down
<1>6. Menu!do_print_item(r, 0, base - 1, FALSE) = [r EXCEPT !.shown[0] = cell]
  BY DEF Menu!do_print_item
<1> HIDE DEF cell
<1>7. [r EXCEPT !.shown[0] = cell] =
        [scroll |-> base - 1, choice |-> at, shown |-> [Shifted(lines, -1) EXCEPT ![0] = cell]]
  BY LinePrints
<1> HIDE DEF s
<1>8. Menu!ScrollDown(s) = [scroll |-> base - 1, choice |-> at, shown |-> Down(lines, base - 1)]
  BY <1>3, <1>4, <1>5, <1>6, <1>7
<1> QED
  BY <1>8 DEF s

LEMMA MovesUp ==
    ASSUME NEW base \in Int, NEW at, NEW lines, NEW m
    PROVE  Menu!ScrollUp([scroll |-> base, choice |-> at, shown |-> lines], m) =
             [scroll |-> base + 1, choice |-> at, shown |-> Up(lines, m, base + m)]
<1> DEFINE s == [scroll |-> base, choice |-> at, shown |-> lines]
<1>2. s.scroll = base
  OBVIOUS
<1>3. Menu!do_scroll(s, 1) = [scroll |-> base + 1, choice |-> at, shown |-> Shifted(lines, 1)]
  BY LinesMove
<1>4. Menu!ScrollUp(s, m) = Menu!do_print_item(Menu!do_scroll(s, 1), m - 1, base + m, FALSE)
  BY <1>2 DEF Menu!ScrollUp
<1> DEFINE cell == Menu!Line(base + m, FALSE)
           r == [scroll |-> base + 1, choice |-> at, shown |-> Shifted(lines, 1)]
<1>5. Up(lines, m, base + m) = [Shifted(lines, 1) EXCEPT ![m - 1] = cell]
  BY DEF Up
<1>6. Menu!do_print_item(r, m - 1, base + m, FALSE) = [r EXCEPT !.shown[m - 1] = cell]
  BY DEF Menu!do_print_item
<1> HIDE DEF cell
<1>7. [r EXCEPT !.shown[m - 1] = cell] =
        [scroll |-> base + 1, choice |-> at, shown |-> [Shifted(lines, 1) EXCEPT ![m - 1] = cell]]
  BY LinePrints
<1> HIDE DEF s
<1>8. Menu!ScrollUp(s, m) = [scroll |-> base + 1, choice |-> at, shown |-> Up(lines, m, base + m)]
  BY <1>3, <1>4, <1>5, <1>6, <1>7
<1> QED
  BY <1>8 DEF s

\* A line comes in at the top, or at the bottom.
LEMMA ScrollsDown ==
    ASSUME MenuSized, NEW s \in Unlits, s.scroll > 0
    PROVE  Menu!ScrollDown(s) \in Unlits
<1> DEFINE m == Menu!max_choice
           base == s.scroll
           at == s.choice
           lines == s.shown
<1>1. m \in Nat \ {0} /\ m <= m_count /\ m_count \in Nat
  BY MenuHeight DEF MenuSized
<1>2. /\ s = [scroll |-> base, choice |-> at, shown |-> lines]
      /\ base \in 0 .. m_count - m /\ at \in 0 .. m - 1 /\ lines \in [0 .. m - 1 -> MenuCells]
      /\ MenuDrawn => lines = PlainLines(m, base)
  BY UnlitShape
<1>3. base > 0
  OBVIOUS
<1>4. \A new \in 0 .. m_count - m, c \in 0 .. m - 1, w \in [0 .. m - 1 -> MenuCells] :
         (MenuDrawn => w = PlainLines(m, new)) =>
            [scroll |-> new, choice |-> c, shown |-> w] \in Unlits
  BY UnlitMade
<1> HIDE DEF m, base, at, lines
<1>5. Menu!ScrollDown([scroll |-> base, choice |-> at, shown |-> lines]) =
        [scroll |-> base - 1, choice |-> at, shown |-> Down(lines, base - 1)]
  BY <1>1, <1>2, MovesDown
<1>6. base - 1 \in 0 .. m_count - m
  BY <1>1, <1>2, <1>3
<1>7. /\ Down(lines, base - 1) \in [0 .. m - 1 -> MenuCells]
      /\ MenuDrawn => Down(lines, base - 1) = PlainLines(m, base - 1)
  <2>1. base \in Int
    BY <1>1, <1>2
  <2> QED
    BY <1>1, <1>2, <2>1, DownShifts, Zenon
<1>8. [scroll |-> base - 1, choice |-> at, shown |-> Down(lines, base - 1)] \in Unlits
  BY <1>2, <1>4, <1>6, <1>7
<1>9. Menu!ScrollDown(s) \in Unlits
  BY <1>2, <1>5, <1>8
<1> QED
  BY <1>9 DEF m

LEMMA ScrollsUp ==
    ASSUME MenuSized, NEW s \in Unlits, s.scroll + Menu!max_choice < m_count
    PROVE  Menu!ScrollUp(s, Menu!max_choice) \in Unlits
<1> DEFINE m == Menu!max_choice
           base == s.scroll
           at == s.choice
           lines == s.shown
<1>1. m \in Nat \ {0} /\ m <= m_count /\ m_count \in Nat
  BY MenuHeight DEF MenuSized
<1>2. /\ s = [scroll |-> base, choice |-> at, shown |-> lines]
      /\ base \in 0 .. m_count - m /\ at \in 0 .. m - 1 /\ lines \in [0 .. m - 1 -> MenuCells]
      /\ MenuDrawn => lines = PlainLines(m, base)
  BY UnlitShape
<1>3. base + m < m_count
  OBVIOUS
<1>4. \A new \in 0 .. m_count - m, c \in 0 .. m - 1, w \in [0 .. m - 1 -> MenuCells] :
         (MenuDrawn => w = PlainLines(m, new)) =>
            [scroll |-> new, choice |-> c, shown |-> w] \in Unlits
  BY UnlitMade
<1> HIDE DEF m, base, at, lines
<1>5. Menu!ScrollUp([scroll |-> base, choice |-> at, shown |-> lines], m) =
        [scroll |-> base + 1, choice |-> at, shown |-> Up(lines, m, base + m)]
  BY <1>1, <1>2, MovesUp
<1>6. base + 1 \in 0 .. m_count - m
  BY <1>1, <1>2, <1>3
<1>7. /\ Up(lines, m, base + m) \in [0 .. m - 1 -> MenuCells]
      /\ MenuDrawn => Up(lines, m, base + m) = PlainLines(m, base + 1)
  <2>1. base \in Int
    BY <1>1, <1>2
  <2> QED
    BY <1>1, <1>2, <2>1, UpShifts, Zenon
<1>8. [scroll |-> base + 1, choice |-> at, shown |-> Up(lines, m, base + m)] \in Unlits
  BY <1>2, <1>4, <1>6, <1>7
<1>9. Menu!ScrollUp(s, m) \in Unlits
  BY <1>2, <1>5, <1>8
<1> QED
  BY <1>9 DEF m

LEMMA ChoiceMoves ==
    ASSUME NEW s \in Unlits, NEW at \in 0 .. Menu!max_choice - 1
    PROVE  [s EXCEPT !.choice = at] \in Unlits
BY DEF Unlits

LEMMA KeysMove ==
    ASSUME MenuSized, NEW s \in Unlits
    PROVE  /\ Menu!KeyUp(s) \in Unlits /\ Menu!KeyDown(s, Menu!max_choice, m_count) \in Unlits
           /\ Menu!PageUp(s) \in Unlits /\ Menu!PageDown(s, Menu!max_choice, m_count) \in Unlits
<1>1. Menu!max_choice \in Nat \ {0} /\ s.choice \in 0 .. Menu!max_choice - 1
      /\ s.scroll \in 0 .. m_count - Menu!max_choice
  BY MenuHeight DEF Unlits
<1>2. (IF s.choice > 0 THEN s.choice - 1 ELSE 0) \in 0 .. Menu!max_choice - 1
      /\ Menu!Least(s.choice + 1, Menu!max_choice - 1) \in 0 .. Menu!max_choice - 1
  BY <1>1 DEF Menu!Least
<1>3. [s EXCEPT !.choice = IF @ > 0 THEN @ - 1 ELSE 0] \in Unlits
  BY <1>2, ChoiceMoves
<1>4. [s EXCEPT !.choice = Menu!Least(@ + 1, Menu!max_choice - 1)] \in Unlits
  BY <1>2, ChoiceMoves
<1>5. Menu!KeyUp(s) \in Unlits /\ Menu!PageUp(s) \in Unlits
  BY <1>3, ScrollsDown, Zenon DEF Menu!KeyUp, Menu!PageUp
<1>6. Menu!KeyDown(s, Menu!max_choice, m_count) \in Unlits
      /\ Menu!PageDown(s, Menu!max_choice, m_count) \in Unlits
  BY <1>4, ScrollsUp, Zenon DEF Menu!KeyDown, Menu!PageDown
<1> QED
  BY <1>5, <1>6

\* A page is as many steps as the window has lines; what one step keeps, all of
\* them keep.
IsRun(f, step, s, n) == f[0] = s /\ \A k \in 1 .. n : f[k] = step[f[k - 1]]

LEMMA StepsExist ==
    ASSUME NEW G, NEW step \in [G -> G], NEW s \in G, NEW m \in Nat
    PROVE  \E f \in [0 .. m -> G] : IsRun(f, step, s, m)
<1> USE DEF IsRun
<1> DEFINE Missing == {n \in 0 .. m : \A f \in [0 .. n -> G] : ~ IsRun(f, step, s, n)}
<1>1. Missing = {}
  <2> SUFFICES ASSUME Missing # {} PROVE FALSE
    OBVIOUS
  <2>1. Missing \subseteq Nat
    OBVIOUS
  <2>2. PICK n \in Missing : \A other \in Missing : n <= other
    BY <2>1, LeastExists
  <2>3. n \in 0 .. m /\ \A f \in [0 .. n -> G] : ~ IsRun(f, step, s, n)
    OBVIOUS
  <2>4. n # 0
    <3> SUFFICES ASSUME n = 0 PROVE FALSE
      OBVIOUS
    <3>1. IsRun([k \in 0 .. 0 |-> s], step, s, 0)
      OBVIOUS
    <3>2. [k \in 0 .. 0 |-> s] \in [0 .. 0 -> G]
      OBVIOUS
    <3> QED
      BY <2>3, <3>1, <3>2
  <2>5. n - 1 \in 0 .. m /\ n - 1 \notin Missing
    <3>1. n - 1 \in 0 .. m /\ ~ n <= n - 1
      BY <2>3, <2>4
    <3> HIDE DEF Missing
    <3> QED
      BY <2>2, <3>1
  <2>6. PICK f \in [0 .. n - 1 -> G] : IsRun(f, step, s, n - 1)
    BY <2>5
  <2> DEFINE g == [k \in 0 .. n |-> IF k = n THEN step[f[n - 1]] ELSE f[k]]
  <2>7. \A k \in 0 .. n : k # n => k \in 0 .. n - 1
    BY <2>3
  <2>8. n - 1 \in 0 .. n - 1
    BY <2>3, <2>4
  <2>9. g \in [0 .. n -> G]
    BY <2>6, <2>7, <2>8
  <2>10. g[0] = s
    BY <2>3, <2>4, <2>6
  <2>11. ASSUME NEW k \in 1 .. n PROVE g[k] = step[g[k - 1]]
    <3>1. g[k - 1] = f[k - 1] /\ k \in 0 .. n
      BY <2>3, <2>11
    <3>2. CASE k = n
      BY <3>1, <3>2
    <3>3. CASE k # n
      <4>1. k \in 1 .. n - 1
        BY <2>3, <2>11, <3>3
      <4> QED
        BY <2>6, <3>1, <3>3, <4>1
    <3> QED
      BY <3>2, <3>3
  <2> HIDE DEF g
  <2> QED
    BY <2>3, <2>9, <2>10, <2>11
<1> QED
  <2>1. m \in 0 .. m
    OBVIOUS
  <2> QED
    BY <1>1, <2>1

LEMMA RunStays ==
    ASSUME NEW G, NEW m \in Nat, NEW f, f[0] \in G,
           \A k \in 1 .. m : f[k - 1] \in G => f[k] \in G
    PROVE  f[m] \in G
<1> DEFINE Bad == {k \in 0 .. m : f[k] \notin G}
<1> SUFFICES ASSUME Bad # {} PROVE FALSE
  <2>1. m \in 0 .. m
    OBVIOUS
  <2> QED
    BY <2>1
<1>1. Bad \subseteq Nat
  OBVIOUS
<1>2. PICK n \in Bad : \A other \in Bad : n <= other
  BY <1>1, LeastExists
<1>3. n \in 0 .. m /\ f[n] \notin G
  OBVIOUS
<1>4. n \in 1 .. m /\ n - 1 \in 0 .. m /\ ~ n <= n - 1
  BY <1>3
<1>5. n - 1 \in Bad
  BY <1>3, <1>4
<1> HIDE DEF Bad
<1> QED
  BY <1>2, <1>4, <1>5

LEMMA PagesUp ==
    ASSUME MenuSized, NEW s \in Unlits, NEW m \in Nat
    PROVE  Menu!Repeat(Menu!PageUp, s, m) \in Unlits
<1> DEFINE run == CHOOSE f :
             f = [k \in 0 .. m |-> IF k = 0 THEN s ELSE Menu!PageUp(f[k - 1])]
<1>1. PICK G, step : G = Unlits /\ step = [t \in G |-> Menu!PageUp(t)]
  OBVIOUS
<1>2. PICK f \in [0 .. m -> G] : IsRun(f, step, s, m)
  <2>1. s \in G /\ step \in [G -> G]
    BY <1>1, KeysMove
  <2> QED
    BY <2>1, StepsExist
<1>3. ASSUME NEW k \in 0 .. m PROVE f[k] = IF k = 0 THEN s ELSE Menu!PageUp(f[k - 1])
  <2>1. k # 0 => (k \in 1 .. m) /\ (k - 1 \in 0 .. m)
    OBVIOUS
  <2> QED
    BY <1>1, <1>2, <2>1 DEF IsRun
<1>4. f = [k \in 0 .. m |-> IF k = 0 THEN s ELSE Menu!PageUp(f[k - 1])]
  BY <1>3
<1>5. run = [k \in 0 .. m |-> IF k = 0 THEN s ELSE Menu!PageUp(run[k - 1])]
  BY <1>4, Zenon
<1> HIDE DEF run
<1>6. run[0] = s /\ \A k \in 1 .. m : run[k] = Menu!PageUp(run[k - 1])
  <2>1. 0 \in 0 .. m /\ \A k \in 1 .. m : k \in 0 .. m /\ k # 0
    OBVIOUS
  <2> QED
    BY <1>5, <2>1
<1>7. run[m] \in Unlits
  BY <1>6, KeysMove, RunStays
<1> QED
  BY <1>7 DEF Menu!Repeat, run

LEMMA PagesDown ==
    ASSUME MenuSized, NEW s \in Unlits, NEW m \in Nat
    PROVE  Menu!Repeat(LAMBDA t : Menu!PageDown(t, Menu!max_choice, m_count), s, m) \in Unlits
<1> DEFINE run == CHOOSE f :
             f = [k \in 0 .. m |-> IF k = 0 THEN s ELSE Menu!PageDown(f[k - 1], Menu!max_choice, m_count)]
<1>1. PICK G, step : G = Unlits /\ step = [t \in G |-> Menu!PageDown(t, Menu!max_choice, m_count)]
  OBVIOUS
<1>2. PICK f \in [0 .. m -> G] : IsRun(f, step, s, m)
  <2>1. s \in G /\ step \in [G -> G]
    BY <1>1, KeysMove
  <2> QED
    BY <2>1, StepsExist
<1>3. ASSUME NEW k \in 0 .. m
      PROVE  f[k] = IF k = 0 THEN s ELSE Menu!PageDown(f[k - 1], Menu!max_choice, m_count)
  <2>1. k # 0 => (k \in 1 .. m) /\ (k - 1 \in 0 .. m)
    OBVIOUS
  <2> QED
    BY <1>1, <1>2, <2>1 DEF IsRun
<1>4. f = [k \in 0 .. m |-> IF k = 0 THEN s ELSE Menu!PageDown(f[k - 1], Menu!max_choice, m_count)]
  BY <1>3
<1>5. run = [k \in 0 .. m |-> IF k = 0 THEN s ELSE Menu!PageDown(run[k - 1], Menu!max_choice, m_count)]
  BY <1>4, Zenon
<1> HIDE DEF run
<1>6. run[0] = s /\ \A k \in 1 .. m : run[k] = Menu!PageDown(run[k - 1], Menu!max_choice, m_count)
  <2>1. 0 \in 0 .. m /\ \A k \in 1 .. m : k \in 0 .. m /\ k # 0
    OBVIOUS
  <2> QED
    BY <1>5, <2>1
<1>7. run[m] \in Unlits
  BY <1>6, KeysMove, RunStays
<1> QED
  BY <1>7 DEF Menu!Repeat, run

\* The screen is what scroll, choice and rows say.
MenuInView ==
    /\ MenuSized /\ m_choice \in 0 .. Menu!max_choice - 1 /\ m_scroll \in 0 .. m_count - Menu!max_choice
    /\ m_shown \in [0 .. Menu!max_choice - 1 -> MenuCells]
    /\ (MenuDrawn => m_shown = MenuLines(m_scroll, m_choice))
    /\ m_arrows = Menu!print_arrows(m_count, m_scroll, rows)

\* Between two calls the view, the saved position and the item that was picked
\* belong together.
MenuInv ==
    /\ m_open \in {"out", "in", "closed", "crashed"}
    /\ s_scroll \in Int /\ first_item \in Int /\ picked \in Int
    /\ m_open = "in" =>
          /\ MenuInView /\ (selected = Menu!NoItem \/ selected \in 0 .. m_count - 1)
          /\ "button" \notin m_stale => m_lit = m_button
    /\ m_open = "out" /\ last # <<>> =>
          /\ last = <<m_count, rows, Menu!view>> /\ MenuInView /\ MenuDrawn
          /\ s_scroll = m_scroll /\ picked = m_scroll + m_choice

LEMMA MenuInitial == Menu!Init => MenuInv
BY DEF Menu!Init, MenuInv, Menu!NoItem

\* The highlight is taken off.
LEMMA HighlightGoes == ASSUME MenuInView PROVE Menu!Unlit \in Unlits
<1> DEFINE m == Menu!max_choice
           lines == [m_shown EXCEPT ![m_choice] = Menu!Line(m_scroll + m_choice, FALSE)]
<1>1. m \in Nat \ {0} /\ m <= m_count /\ m_count \in Nat
  BY MenuHeight DEF MenuSized, MenuInView
<1>2. m_choice \in 0 .. m - 1 /\ m_scroll \in 0 .. m_count - m /\ m_shown \in [0 .. m - 1 -> MenuCells]
      /\ (MenuDrawn => m_shown = MenuLines(m_scroll, m_choice))
  BY DEF MenuInView
<1>3. Menu!Unlit = [scroll |-> m_scroll, choice |-> m_choice, shown |-> lines]
  <2> DEFINE cell == Menu!Line(m_scroll + m_choice, FALSE)
             r == [scroll |-> m_scroll, choice |-> m_choice, shown |-> m_shown]
  <2>1. Menu!Unlit = [r EXCEPT !.shown[m_choice] = cell]
    BY DEF Menu!Unlit, Menu!do_print_item
  <2>2. lines = [m_shown EXCEPT ![m_choice] = cell]
    OBVIOUS
  <2> HIDE DEF cell, lines
  <2>3. [r EXCEPT !.shown[m_choice] = cell] =
          [scroll |-> m_scroll, choice |-> m_choice, shown |-> [m_shown EXCEPT ![m_choice] = cell]]
    OBVIOUS
  <2> QED
    BY <2>1, <2>2, <2>3
<1>4. Menu!Line(m_scroll + m_choice, FALSE) \in MenuCells
  <2>1. m_scroll + m_choice \in Int
    BY <1>1, <1>2
  <2> QED
    BY <2>1, Zenon DEF MenuCells
<1>5. lines \in [0 .. m - 1 -> MenuCells]
  BY <1>2, <1>4
<1>6. ASSUME MenuDrawn PROVE lines = PlainLines(m, m_scroll)
  <2>1. m_shown = [i \in 0 .. m - 1 |-> Menu!Line(m_scroll + i, i = m_choice)]
    BY <1>2, <1>6 DEF MenuLines
  <2>2. \A i \in 0 .. m - 1 : lines[i] = Menu!Line(m_scroll + i, FALSE)
    <3> TAKE i \in 0 .. m - 1
    <3>1. CASE i = m_choice
      BY <1>2, <3>1
    <3>2. CASE i # m_choice
      <4>1. lines[i] = Menu!Line(m_scroll + i, i = m_choice)
        BY <1>2, <2>1, <3>2
      <4>2. (i = m_choice) = FALSE
        BY <3>2
      <4> QED
        BY <4>1, <4>2
    <3> QED
      BY <3>1, <3>2
  <2> QED
    BY <1>5, <2>2 DEF PlainLines
<1> HIDE DEF lines
<1> QED
  BY <1>2, <1>3, <1>5, <1>6, UnlitMade DEF MenuInView

\* The item of the choice is highlighted, and the arrows are drawn.
LEMMA HighlightComes ==
    ASSUME MenuSized, NEW s \in Unlits, Menu!Lit(s), UNCHANGED <<m_count, rows, m_stale>>
    PROVE  MenuInView'
<1> DEFINE m == Menu!max_choice
           base == s.scroll
           at == s.choice
           lines == s.shown
<1>1. m \in Nat \ {0} /\ m <= m_count /\ m_count \in Nat
  BY MenuHeight DEF MenuSized
<1>2. /\ s = [scroll |-> base, choice |-> at, shown |-> lines]
      /\ base \in 0 .. m_count - m /\ at \in 0 .. m - 1 /\ lines \in [0 .. m - 1 -> MenuCells]
      /\ MenuDrawn => lines = PlainLines(m, base)
  BY UnlitShape
<1>3. /\ m_scroll' = base /\ m_choice' = at /\ m_arrows' = Menu!print_arrows(m_count, base, rows)
      /\ m_shown' = [lines EXCEPT ![at] = Menu!Line(base + at, TRUE)]
  <2> DEFINE cell == Menu!Line(base + at, TRUE)
  <2>1. Menu!do_print_item(s, at, base + at, TRUE) = [s EXCEPT !.shown[at] = cell]
    BY DEF Menu!do_print_item
  <2>2. m_scroll' = base /\ m_choice' = at /\ m_arrows' = Menu!print_arrows(m_count, base, rows)
        /\ m_shown' = Menu!do_print_item(s, at, base + at, TRUE).shown
    BY DEF Menu!Lit
  <2> HIDE DEF cell
  <2>3. [s EXCEPT !.shown[at] = cell].shown = [lines EXCEPT ![at] = cell]
    BY <1>2
  <2>4. m_shown' = [lines EXCEPT ![at] = cell]
    BY <2>1, <2>2, <2>3
  <2> QED
    BY <2>2, <2>4 DEF cell
<1>4. m' = m /\ MenuSized' /\ MenuDrawn' = MenuDrawn
  BY DEF MenuSized, Menu!max_choice, Menu!Least, MenuDrawn
<1> HIDE DEF m, base, at, lines
<1>5. Menu!Line(base + at, TRUE) \in MenuCells
  <2>1. base + at \in Int
    BY <1>1, <1>2
  <2> QED
    BY <2>1, Zenon DEF MenuCells
<1>6. m_shown' \in [0 .. m - 1 -> MenuCells]
  BY <1>2, <1>3, <1>5
<1>7. ASSUME MenuDrawn PROVE m_shown' = [i \in 0 .. m - 1 |-> Menu!Line(base + i, i = at)]
  <2>1. lines = [i \in 0 .. m - 1 |-> Menu!Line(base + i, FALSE)]
    BY <1>2, <1>7 DEF PlainLines
  <2>2. \A i \in 0 .. m - 1 : m_shown'[i] = Menu!Line(base + i, i = at)
    <3> TAKE i \in 0 .. m - 1
    <3>1. CASE i = at
      <4>1. m_shown'[i] = Menu!Line(base + i, TRUE)
        BY <1>2, <1>3, <3>1
      <4>2. (i = at) = TRUE
        BY <3>1
      <4> QED
        BY <4>1, <4>2
    <3>2. CASE i # at
      <4>1. m_shown'[i] = Menu!Line(base + i, FALSE)
        BY <1>2, <1>3, <2>1, <3>2
      <4>2. (i = at) = FALSE
        BY <3>2
      <4> QED
        BY <4>1, <4>2
    <3> QED
      BY <3>1, <3>2
  <2> QED
    BY <1>6, <2>2
<1>8. MenuDrawn' => m_shown' = MenuLines(m_scroll, m_choice)'
  BY <1>3, <1>4, <1>7 DEF MenuLines, m
<1>9. m_arrows' = Menu!print_arrows(m_count', m_scroll', rows')
  BY <1>3
<1>10. m_choice' \in 0 .. Menu!max_choice' - 1 /\ m_scroll' \in 0 .. m_count' - Menu!max_choice'
       /\ m_shown' \in [0 .. Menu!max_choice' - 1 -> MenuCells]
  BY <1>2, <1>3, <1>4, <1>6 DEF m
<1> QED
  BY <1>4, <1>8, <1>9, <1>10 DEF MenuInView

LEMMA HotKeyIsFound ==
    ASSUME MenuInView, NEW letter, Menu!Matches(letter) # {}
    PROVE  Menu!HotKey(letter) \in 0 .. Menu!max_choice - 1
<1> DEFINE after == {i \in Menu!Matches(letter) : i > m_choice}
<1>1. Menu!Matches(letter) \subseteq Nat /\ after \subseteq Nat /\ after \subseteq Menu!Matches(letter)
      /\ Menu!Matches(letter) \subseteq 0 .. Menu!max_choice - 1
  BY DEF Menu!Matches
<1>2. Menu!Min(Menu!Matches(letter)) \in Menu!Matches(letter)
  BY <1>1, LeastExists
<1>3. after # {} => Menu!Min(after) \in after
  BY <1>1, LeastExists
<1>4. Menu!HotKey(letter) = IF after # {} THEN Menu!Min(after) ELSE Menu!Min(Menu!Matches(letter))
  BY DEF Menu!HotKey
<1> HIDE DEF after
<1> QED
  BY <1>1, <1>2, <1>3, <1>4

LEMMA MoveShows ==
    ASSUME MenuInv, Menu!Move
    PROVE  MenuInv'
<1>1. MenuInView /\ Menu!Unlit \in Unlits /\ Menu!max_choice \in Nat /\ MenuSized
  BY HighlightGoes, MenuHeight DEF MenuInv, Menu!Move, MenuInView
<1>2. UNCHANGED <<m_open, m_count, rows, selected, s_scroll, first_item, m_button, m_lit, m_stale, picked, last>>
  BY DEF Menu!Move
<1>3. MenuInView'
  <2>1. \E s \in Unlits : Menu!Lit(s)
    <3>1. ASSUME NEW letter, Menu!Matches(letter) # {}
          PROVE  [Menu!Unlit EXCEPT !.choice = Menu!HotKey(letter)] \in Unlits
      BY <1>1, <3>1, HotKeyIsFound, ChoiceMoves
    <3> QED
      BY <1>1, <3>1, KeysMove, PagesUp, PagesDown DEF Menu!Move
  <2> QED
    BY <1>1, <1>2, <2>1, HighlightComes
<1> QED
  BY <1>2, <1>3 DEF MenuInv, Menu!Move

\* do_resize leaves a window around the wanted item, and the saved one if it
\* can; what it draws otherwise is in stale.
LEMMA MenuSetup ==
    ASSUME NEW n \in Nat \ {0}, NEW height \in Nat \ {0}, NEW m, m = Menu!Least(height, n),
           NEW wanted \in 0 .. n - 1, NEW first \in Int, s_scroll \in Int,
           Menu!Setup(wanted, first, n, height)
    PROVE  /\ m_scroll' \in 0 .. n - m /\ m_choice' \in 0 .. m - 1 /\ first_item' \in Int
           /\ m_open' \in {"in", "crashed"}
           /\ m_shown' \in [0 .. m - 1 -> MenuCells]
           /\ "list" \notin m_stale' => m_shown' = [i \in 0 .. m - 1 |-> Menu!Line(m_scroll' + i, i = m_choice')]
           /\ m_arrows' = Menu!print_arrows(n, m_scroll', height)
           /\ m_lit' = 0 /\ ("button" \notin m_stale' => m_button' = 0)
           /\ Menu!Kept(m, n, wanted, s_scroll) =>
                 m_scroll' = s_scroll /\ m_choice' = wanted - s_scroll /\ "list" \notin m_stale'
<1>1. m \in Nat \ {0} /\ m <= n
  BY DEF Menu!Least
<1> DEFINE kept == Menu!Kept(m, n, wanted, s_scroll)
           base == CASE kept -> s_scroll [] ~ kept /\ wanted >= m -> Menu!Centred(m, n, wanted) [] OTHER -> 0
           from == IF kept \/ wanted >= m THEN base ELSE first
           at == wanted - base
<1>2. /\ m_scroll' = base /\ m_choice' = at /\ first_item' = from
      /\ m_shown' = [i \in 0 .. m - 1 |-> Menu!Line(from + i, i = at)]
      /\ m_open' = IF m > 0 /\ from + m > n THEN "crashed" ELSE "in"
      /\ m_arrows' = Menu!print_arrows(n, base, height) /\ m_lit' = 0
      /\ m_stale' = {"list" : i \in {from} \ {base}} \cup {"button" : b \in {m_button'} \ {0}}
  BY Zenon DEF Menu!Setup
<1>3. base \in 0 .. n - m /\ at \in 0 .. m - 1
  <2>1. CASE kept
    BY <1>1, <2>1 DEF Menu!Kept
  <2>2. CASE ~ kept /\ wanted >= m
    <3>1. PICK half : half = m \div 2
      OBVIOUS
    <3>2. half \in Nat /\ 2 * half <= m /\ m <= 2 * half + 1
      BY <1>1, <3>1
    <3>3. base = IF wanted >= n - half THEN n - m ELSE wanted - half
      BY <2>2, <3>1 DEF Menu!Centred
    <3> HIDE DEF base
    <3> QED
      BY <1>1, <2>2, <3>2, <3>3
  <2>3. CASE ~ kept /\ ~ wanted >= m
    BY <1>1, <2>3
  <2> QED
    BY <2>1, <2>2, <2>3
<1>4. from \in Int
  BY <1>1, <1>3
<1>5. kept => base = s_scroll /\ from = base
  OBVIOUS
<1> HIDE DEF base, from, at, kept
<1>6. m_shown' \in [0 .. m - 1 -> MenuCells]
  <2>1. ASSUME NEW i \in 0 .. m - 1 PROVE Menu!Line(from + i, i = at) \in MenuCells
    <3>1. from + i \in Int
      BY <1>4
    <3>2. (i = at) = TRUE \/ (i = at) = FALSE
      BY Zenon
    <3> QED
      BY <3>1, <3>2, Zenon DEF MenuCells
  <2> QED
    BY <1>2, <2>1
<1>7. "list" \notin m_stale' => from = base
  BY <1>2
<1>8. kept => "list" \notin m_stale'
  BY <1>2, <1>5
<1>9. "button" \notin m_stale' => m_button' = 0
  BY <1>2
<1>10. "list" \notin m_stale' => m_shown' = [i \in 0 .. m - 1 |-> Menu!Line(m_scroll' + i, i = m_choice')]
  BY <1>2, <1>7, Zenon
<1>11. m_open' \in {"in", "crashed"}
  BY <1>2
<1>12. /\ m_scroll' = base /\ m_choice' = at /\ first_item' = from
       /\ m_arrows' = Menu!print_arrows(n, m_scroll', height) /\ m_lit' = 0
  BY <1>2, Zenon
<1>13. kept => m_scroll' = s_scroll /\ m_choice' = wanted - s_scroll
  BY <1>5, <1>12 DEF at
<1> QED
  BY <1>3, <1>4, <1>6, <1>8, <1>9, <1>10, <1>11, <1>12, <1>13, Zenon DEF kept

LEMMA MenuSetupInView ==
    ASSUME MenuSized', s_scroll \in Int, NEW wanted, wanted \in 0 .. m_count' - 1, NEW first \in Int,
           Menu!Setup(wanted, first, m_count', rows')
    PROVE  MenuInView' /\ first_item' \in Int /\ m_open' \in {"in", "crashed"}
           /\ ("button" \notin m_stale' => m_lit' = m_button')
<1>1. PICK n, height, m : n = m_count' /\ height = rows' /\ m = Menu!Least(height, n)
  OBVIOUS
<1>2. n \in Nat \ {0} /\ height \in Nat \ {0} /\ wanted \in 0 .. n - 1 /\ Menu!Setup(wanted, first, n, height)
  <2>1. n \in Nat \ {0} /\ height \in Nat \ {0} /\ wanted \in 0 .. n - 1
    BY <1>1 DEF MenuSized
  <2> QED
    BY <1>1, <2>1, Zenon
<1>3. /\ m_scroll' \in 0 .. n - m /\ m_choice' \in 0 .. m - 1 /\ first_item' \in Int
      /\ m_open' \in {"in", "crashed"}
      /\ m_shown' \in [0 .. m - 1 -> MenuCells]
      /\ "list" \notin m_stale' => m_shown' = [i \in 0 .. m - 1 |-> Menu!Line(m_scroll' + i, i = m_choice')]
      /\ m_arrows' = Menu!print_arrows(n, m_scroll', height)
      /\ m_lit' = 0 /\ ("button" \notin m_stale' => m_button' = 0)
  BY <1>1, <1>2, MenuSetup
<1>4. Menu!max_choice' = m
  BY <1>1 DEF Menu!max_choice
<1>5. m_arrows' = Menu!print_arrows(m_count', m_scroll', rows')
  BY <1>1, <1>3, Zenon
<1>6. MenuDrawn' => m_shown' = MenuLines(m_scroll, m_choice)'
  <2>1. MenuLines(m_scroll, m_choice)' = [i \in 0 .. m - 1 |-> Menu!Line(m_scroll' + i, i = m_choice')]
    BY <1>4, Zenon DEF MenuLines
  <2> QED
    BY <1>3, <2>1, Zenon DEF MenuDrawn
<1>7. m_choice' \in 0 .. Menu!max_choice' - 1 /\ m_scroll' \in 0 .. m_count' - Menu!max_choice'
      /\ m_shown' \in [0 .. Menu!max_choice' - 1 -> MenuCells]
  BY <1>1, <1>3, <1>4
<1>8. MenuInView'
  BY <1>5, <1>6, <1>7, Zenon DEF MenuInView
<1> QED
  BY <1>3, <1>8

LEMMA CallShows == ASSUME MenuInv, Menu!Call PROVE MenuInv'
<1>1. /\ rows' \in 1 .. MenuRows /\ m_count' \in 1 .. MenuItems /\ UNCHANGED <<s_scroll, picked, last>>
      /\ Menu!Setup(IF selected' = Menu!NoItem THEN 0 ELSE selected', 0, m_count', rows')
      /\ selected' = Menu!NoItem \/ selected' \in 0 .. m_count' - 1
  BY DEF Menu!Call
<1>2. MenuSized'
  BY <1>1, MenuAssumption DEF MenuSized
<1>3. PICK wanted : wanted = IF selected' = Menu!NoItem THEN 0 ELSE selected'
  OBVIOUS
<1>4. wanted \in 0 .. m_count' - 1
  <2>1. PICK n : n = m_count'
    OBVIOUS
  <2>2. 0 \in 0 .. n - 1
    <3>1. n \in Nat \ {0}
      BY <1>2, <2>1, Zenon DEF MenuSized
    <3> QED
      BY <3>1
  <2>3. selected' = Menu!NoItem => wanted = 0
    BY <1>3, Zenon
  <2>4. selected' # Menu!NoItem => wanted \in 0 .. n - 1
    BY <1>1, <1>3, <2>1, Zenon
  <2>5. wanted \in 0 .. n - 1
    BY <2>2, <2>3, <2>4, Zenon
  <2> QED
    BY <2>1, <2>5, Zenon
<1>5. s_scroll \in Int /\ picked \in Int /\ 0 \in Int
  BY DEF MenuInv
<1>6. MenuInView' /\ first_item' \in Int /\ m_open' \in {"in", "crashed"}
      /\ ("button" \notin m_stale' => m_lit' = m_button')
  <2>1. PICK zero : zero = 0
    OBVIOUS
  <2>2. Menu!Setup(wanted, zero, m_count', rows')
    BY <1>1, <1>3, <2>1, Zenon
  <2> QED
    BY <1>2, <1>4, <1>5, <2>1, <2>2, MenuSetupInView
<1> QED
  BY <1>1, <1>5, <1>6 DEF MenuInv

LEMMA ResizeShows == ASSUME MenuInv, Menu!Resize PROVE MenuInv'
<1>1. /\ m_open = "in" /\ rows' \in 1 .. MenuRows
      /\ UNCHANGED <<m_button, m_count, selected, s_scroll, picked, last>>
      /\ Menu!Setup(IF selected = Menu!NoItem THEN m_choice ELSE selected, first_item, m_count, rows')
      /\ MenuInView /\ (selected = Menu!NoItem \/ selected \in 0 .. m_count - 1)
      /\ s_scroll \in Int /\ picked \in Int /\ first_item \in Int
  BY DEF Menu!Resize, MenuInv
<1>2. MenuSized' /\ m_count \in Nat \ {0}
  BY <1>1, MenuAssumption DEF MenuSized, MenuInView
<1>3. PICK wanted : wanted = IF selected = Menu!NoItem THEN m_choice ELSE selected
  OBVIOUS
<1>4. wanted \in 0 .. m_count - 1
  <2>1. m_choice \in 0 .. Menu!max_choice - 1 /\ Menu!max_choice <= m_count /\ Menu!max_choice \in Nat
    BY <1>1, MenuHeight DEF MenuInView
  <2>2. CASE selected = Menu!NoItem
    BY <1>2, <1>3, <2>1, <2>2
  <2>3. CASE selected # Menu!NoItem
    BY <1>1, <1>3, <2>3
  <2> QED
    BY <2>2, <2>3
<1>5. MenuInView' /\ first_item' \in Int /\ m_open' \in {"in", "crashed"}
      /\ ("button" \notin m_stale' => m_lit' = m_button')
  <2>1. PICK first : first = first_item
    OBVIOUS
  <2>2. Menu!Setup(wanted, first, m_count', rows')
    BY <1>1, <1>3, <2>1, Zenon
  <2>3. wanted \in 0 .. m_count' - 1 /\ first \in Int
    BY <1>1, <1>4, <2>1
  <2> QED
    BY <1>1, <1>2, <2>2, <2>3, MenuSetupInView
<1> QED
  BY <1>1, <1>5 DEF MenuInv

LEMMA MenuViewStays ==
    ASSUME UNCHANGED <<m_count, rows, m_scroll, m_choice, m_shown, m_arrows>>, MenuDrawn' = MenuDrawn
    PROVE  MenuInView' = MenuInView
<1>1. Menu!max_choice' = Menu!max_choice /\ MenuSized' = MenuSized
  BY DEF Menu!max_choice, MenuSized
<1>2. MenuLines(m_scroll, m_choice)' = MenuLines(m_scroll, m_choice)
  BY <1>1 DEF MenuLines
<1> QED
  BY <1>1, <1>2, Zenon DEF MenuInView

LEMMA MenuStep == MenuInv /\ [Menu!Next]_menuVars => MenuInv'
<1> SUFFICES ASSUME MenuInv, [Menu!Next]_menuVars PROVE MenuInv'
  OBVIOUS
<1>1. CASE UNCHANGED menuVars
  <2>1. MenuDrawn' = MenuDrawn
    BY <1>1 DEF menuVars, MenuDrawn
  <2>2. MenuInView' = MenuInView
    BY <1>1, <2>1, MenuViewStays DEF menuVars
  <2> QED
    BY <1>1, <2>1, <2>2 DEF menuVars, MenuInv, Menu!view
<1>2. CASE Menu!Button
  <2>1. MenuDrawn' = MenuDrawn
    BY <1>2 DEF Menu!Button, MenuDrawn
  <2>2. MenuInView' = MenuInView
    BY <1>2, <2>1, MenuViewStays DEF Menu!Button
  <2> QED
    BY <1>2, <2>2 DEF Menu!Button, MenuInv
<1>3. CASE Menu!Leave
  <2>1. /\ m_open = "in" /\ m_open' \in {"out", "closed"} /\ s_scroll' = m_scroll /\ picked' = m_scroll + m_choice
        /\ last' = IF "list" \in m_stale THEN <<>> ELSE <<m_count, rows, Menu!view>>
        /\ UNCHANGED <<m_count, rows, selected, m_scroll, m_choice, first_item, m_shown, m_arrows, m_stale>>
    BY <1>3 DEF Menu!Leave
  <2>2. MenuDrawn' = MenuDrawn /\ MenuInView /\ first_item \in Int
    BY <2>1 DEF MenuInv, MenuDrawn
  <2>3. MenuInView'
    BY <2>1, <2>2, MenuViewStays
  <2>4. m_scroll \in Int /\ m_scroll + m_choice \in Int
    <3>1. Menu!max_choice \in Nat /\ m_count \in Nat /\ m_choice \in 0 .. Menu!max_choice - 1
          /\ m_scroll \in 0 .. m_count - Menu!max_choice
      BY <2>2, MenuHeight DEF MenuInView, MenuSized
    <3> QED
      BY <3>1
  <2>5. last' # <<>> => last' = <<m_count, rows, Menu!view>>' /\ MenuDrawn'
    BY <2>1 DEF MenuDrawn, Menu!view
  <2> QED
    BY <2>1, <2>2, <2>3, <2>4, <2>5 DEF MenuInv
<1>4. CASE Menu!Escape
  BY <1>4 DEF Menu!Escape, MenuInv
<1> QED
  BY <1>1, <1>2, <1>3, <1>4, CallShows, ResizeShows, MoveShows DEF Menu!Next

\* The item that was picked is in the saved window, so the saved window is used.
LEMMA PlaceStays == MenuInv => Menu!PlaceIsKept
<1> SUFFICES ASSUME MenuInv, Menu!Call, last # <<>>, selected' = picked, last[1] = m_count', last[2] = rows'
             PROVE  Menu!view' = last[3]
  BY DEF Menu!PlaceIsKept
<1>1. /\ last = <<m_count, rows, Menu!view>> /\ MenuInView /\ MenuDrawn
      /\ s_scroll = m_scroll /\ picked = m_scroll + m_choice
  BY DEF MenuInv, Menu!Call
<1>2. m_count' = m_count /\ rows' = rows
  BY <1>1
<1>3. PICK n, height, m : n = m_count /\ height = rows /\ m = Menu!max_choice
  OBVIOUS
<1>4. /\ n \in Nat \ {0} /\ height \in Nat \ {0} /\ m = Menu!Least(height, n)
      /\ m \in Nat \ {0} /\ m <= n /\ m_choice \in 0 .. m - 1 /\ m_scroll \in 0 .. n - m
  BY <1>1, <1>3, MenuHeight DEF MenuInView, MenuSized, Menu!max_choice
<1>5. PICK wanted, zero : wanted = m_scroll + m_choice /\ zero = 0
  OBVIOUS
<1>6. wanted \in 0 .. n - 1 /\ wanted # Menu!NoItem /\ s_scroll \in Int /\ zero \in Int
      /\ Menu!Kept(m, n, wanted, s_scroll)
  BY <1>1, <1>4, <1>5 DEF Menu!NoItem, Menu!Kept
<1>7. Menu!Setup(wanted, zero, n, height)
  <2>1. Menu!Setup(IF selected' = Menu!NoItem THEN 0 ELSE selected', 0, m_count', rows')
    BY DEF Menu!Call
  <2>2. (IF selected' = Menu!NoItem THEN 0 ELSE selected') = wanted
    BY <1>1, <1>5, <1>6
  <2> QED
    BY <1>2, <1>3, <1>5, <2>1, <2>2, Zenon
<1>8. /\ m_scroll' = s_scroll /\ m_choice' = wanted - s_scroll /\ "list" \notin m_stale'
      /\ "list" \notin m_stale' => m_shown' = [i \in 0 .. m - 1 |-> Menu!Line(m_scroll' + i, i = m_choice')]
  BY <1>4, <1>6, <1>7, MenuSetup
<1>9. m_scroll' = m_scroll /\ m_choice' = m_choice
  BY <1>1, <1>4, <1>5, <1>8
<1>10. m_shown' = m_shown
  <2>1. m_shown = [i \in 0 .. m - 1 |-> Menu!Line(m_scroll + i, i = m_choice)]
    BY <1>1, <1>3, Zenon DEF MenuInView, MenuLines
  <2> QED
    BY <1>8, <1>9, <2>1, Zenon
<1> QED
  BY <1>1, <1>9, <1>10 DEF Menu!view

LEMMA MenuInvIsTrue == MenuInv => Menu!ScreenIsTrue
<1> SUFFICES ASSUME MenuInv, m_open = "in" PROVE Menu!ScreenIsTrue
  BY DEF Menu!ScreenIsTrue
<1>1. MenuInView /\ ("button" \notin m_stale => m_lit = m_button)
  BY DEF MenuInv
<1>2. /\ Menu!max_choice \in Nat \ {0} /\ Menu!max_choice <= m_count /\ Menu!max_choice <= rows
      /\ m_count \in Nat /\ rows \in Nat
      /\ rows < m_count => Menu!max_choice = rows
      /\ ~ rows < m_count => Menu!max_choice = m_count
      /\ m_choice \in 0 .. Menu!max_choice - 1 /\ m_scroll \in 0 .. m_count - Menu!max_choice
      /\ m_arrows = Menu!print_arrows(m_count, m_scroll, rows)
  BY <1>1, MenuHeight DEF MenuInView, MenuSized
<1>3. ASSUME "list" \notin m_stale
      PROVE  /\ m_shown = [i \in 0 .. Menu!max_choice - 1 |-> Menu!Line(m_scroll + i, i = m_choice)]
             /\ m_arrows = <<m_shown[0][1] > 0, m_shown[Menu!max_choice - 1][1] < m_count - 1>>
  <2>1. m_shown = [i \in 0 .. Menu!max_choice - 1 |-> Menu!Line(m_scroll + i, i = m_choice)]
    BY <1>1, <1>3, Zenon DEF MenuInView, MenuDrawn, MenuLines
  <2>2. 0 \in 0 .. Menu!max_choice - 1 /\ Menu!max_choice - 1 \in 0 .. Menu!max_choice - 1
    BY <1>2
  <2>3. ASSUME NEW i \in 0 .. Menu!max_choice - 1 PROVE m_shown[i][1] = m_scroll + i
    <3>1. PICK here : here = (i = m_choice)
      BY Zenon
    <3>2. m_shown[i] = Menu!Line(m_scroll + i, here)
      BY <2>1, <3>1, Zenon
    <3> QED
      BY <3>2 DEF Menu!Line
  <2>4. (m_shown[0][1] > 0) = (m_scroll > 0)
    BY <1>2, <2>2, <2>3
  <2>5. (m_shown[Menu!max_choice - 1][1] < m_count - 1) = (rows < m_count /\ m_scroll + rows < m_count)
    <3>1. m_shown[Menu!max_choice - 1][1] = m_scroll + (Menu!max_choice - 1)
      BY <2>2, <2>3
    <3> QED
      BY <1>2, <3>1
  <2>6. m_arrows = <<m_scroll > 0, rows < m_count /\ m_scroll + rows < m_count>>
    BY <1>2, Zenon DEF Menu!print_arrows
  <2>7. m_arrows = <<m_shown[0][1] > 0, m_shown[Menu!max_choice - 1][1] < m_count - 1>>
    BY <2>4, <2>5, <2>6, Zenon
  <2> QED
    BY <2>1, <2>7
<1> QED
  BY <1>1, <1>2, <1>3, Zenon DEF Menu!ScreenIsTrue

-----------------------------------------------------------------------------
(***************************************************************************)
(* makedevs: a path that is no directory was there before the table or     *)
(* made by a line of it, so a later line about it finds it and is          *)
(* reported; full_name is the name of the last entry that was not refused, *)
(* so the capabilities of a file are those of the xattr lines behind its   *)
(* entries.  The nodes of a line are made one after the other: each one    *)
(* changes nothing but its own path.                                       *)
(***************************************************************************)
IsNode(n) ==
    n = [type |-> n.type, mode |-> n.mode, user |-> n.user, group |-> n.group, rdev |-> n.rdev, caps |-> n.caps]
IsEntryLine(l) == l.name \in Seq(STRING \X Int) /\ l.name # <<>> /\ l.start \in Nat /\ l.count \in Nat

\* What chown() and chmod() change, and what they leave.
LEMMA ChangedOwner ==
    ASSUME NEW f, NEW p, NEW own, NEW mode, p \in DOMAIN f => IsNode(f[p]),
           NEW c, c = Devices!Changed(f, p, own, mode)
    PROVE  /\ DOMAIN c.fs = DOMAIN f
           /\ \A q \in DOMAIN f : q # p => c.fs[q] = f[q]
           /\ p \in DOMAIN f => /\ IsNode(c.fs[p]) /\ c.fs[p].type = f[p].type
                                /\ c.fs[p].rdev = f[p].rdev /\ c.fs[p].caps = f[p].caps
           /\ c.ok => /\ p \in DOMAIN f
                      /\ c.fs[p].mode = mode /\ c.fs[p].user = own[1] /\ c.fs[p].group = own[2]
<1>1. CASE ~Devices!Exists(f, p) \/ broken = <<p, "chown">>
  <2>1. c.fs = f /\ c.ok = FALSE
    BY <1>1 DEF Devices!Changed
  <2> QED
    BY <2>1
<1>2. CASE ~(~Devices!Exists(f, p) \/ broken = <<p, "chown">>) /\ broken = <<p, "chmod">>
  <2>1. c.fs = [f EXCEPT ![p].user = own[1], ![p].group = own[2]] /\ c.ok = FALSE
    BY <1>2 DEF Devices!Changed
  <2>2. p \in DOMAIN f
    BY <1>2 DEF Devices!Exists
  <2>3. c.fs[p] = [type |-> f[p].type, mode |-> f[p].mode, user |-> own[1], group |-> own[2],
                   rdev |-> f[p].rdev, caps |-> f[p].caps]
    BY <2>1, <2>2 DEF IsNode
  <2>4. IsNode(c.fs[p])
    BY <2>3 DEF IsNode
  <2> QED
    BY <2>1, <2>2, <2>3, <2>4
<1>3. CASE ~(~Devices!Exists(f, p) \/ broken = <<p, "chown">>) /\ broken # <<p, "chmod">>
  <2>1. c.fs = [f EXCEPT ![p].user = own[1], ![p].group = own[2], ![p].mode = mode]
    BY <1>3 DEF Devices!Changed
  <2>2. p \in DOMAIN f
    BY <1>3 DEF Devices!Exists
  <2>3. c.fs[p] = [type |-> f[p].type, mode |-> mode, user |-> own[1], group |-> own[2],
                   rdev |-> f[p].rdev, caps |-> f[p].caps]
    BY <2>1, <2>2 DEF IsNode
  <2>4. IsNode(c.fs[p])
    BY <2>3 DEF IsNode
  <2> QED
    BY <2>1, <2>2, <2>3, <2>4
<1> QED
  BY <1>1, <1>2, <1>3

\* The numbers of a line, and the node of each.
LEMMA NumbersAre ==
    ASSUME NEW l, IsEntryLine(l)
    PROVE  /\ Devices!Max(Devices!Numbers(l)) \in Nat /\ l.start <= Devices!Max(Devices!Numbers(l))
           /\ Devices!Numbers(l) = l.start .. Devices!Max(Devices!Numbers(l))
           /\ l.count > 1 => Devices!Max(Devices!Numbers(l)) = l.start + l.count - 1
           /\ ~ l.count > 1 => Devices!Max(Devices!Numbers(l)) = l.start
<1>1. PICK final : final = l.start + (IF l.count > 0 THEN l.count - 1 ELSE 0)
  OBVIOUS
<1>2. final \in Nat /\ l.start \in Nat /\ l.start <= final
      /\ (l.count > 1 => final = l.start + l.count - 1) /\ (~ l.count > 1 => final = l.start)
  BY <1>1 DEF IsEntryLine
<1>3. Devices!Numbers(l) = l.start .. final
  BY <1>1 DEF Devices!Numbers
<1>4. final \in l.start .. final /\ \A i \in l.start .. final : i <= final
  BY <1>2
<1>5. Devices!Max(l.start .. final) = final
  <2>1. \A x \in l.start .. final : (\A y \in l.start .. final : y <= x) => x = final
    BY <1>2
  <2> QED
    BY <1>4, <2>1 DEF Devices!Max
<1> QED
  BY <1>2, <1>3, <1>5

LEMMA NamesAreNumbered ==
    ASSUME NEW l, IsEntryLine(l), l.type \in {"c", "b", "p"}
    PROVE  /\ \A k \in 1 .. Devices!Count(l) : /\ l.start + k - 1 \in Devices!Numbers(l)
                                               /\ Devices!Nth(l, k) = Devices!full_name_inc(l, l.start + k - 1)
           /\ \A i \in Devices!Numbers(l) : Devices!full_name_inc(l, i) \in Devices!Names(l)
<1>1. Devices!Count(l) = IF l.count > 1 THEN l.count ELSE 1
  BY DEF Devices!Count
<1>2. /\ l.start \in Nat /\ l.count \in Nat
      /\ Devices!Numbers(l) = l.start .. Devices!Max(Devices!Numbers(l))
      /\ l.count > 1 => Devices!Max(Devices!Numbers(l)) = l.start + l.count - 1
      /\ ~ l.count > 1 => Devices!Max(Devices!Numbers(l)) = l.start
  BY NumbersAre DEF IsEntryLine
<1>3. CASE l.count > 1
  <2>1. ASSUME NEW k \in 1 .. l.count
        PROVE  /\ l.start + k - 1 \in Devices!Numbers(l)
               /\ Devices!Nth(l, k) = Devices!full_name_inc(l, l.start + k - 1)
    BY <1>1, <1>2, <1>3 DEF Devices!Nth, Devices!full_name_inc
  <2>2. ASSUME NEW i \in Devices!Numbers(l)
        PROVE  Devices!full_name_inc(l, i) \in Devices!Names(l)
    <3>1. i - l.start + 1 \in 1 .. l.count /\ l.start + (i - l.start + 1) - 1 = i
      BY <1>2, <1>3
    <3>2. Devices!Nth(l, i - l.start + 1) = Devices!full_name_inc(l, i)
      BY <2>1, <3>1
    <3> QED
      BY <1>1, <1>3, <3>1, <3>2 DEF Devices!Names
  <2> QED
    BY <1>1, <1>3, <2>1, <2>2
<1>4. CASE ~ l.count > 1
  <2>1. \A i : Devices!full_name_inc(l, i) = l.name
    BY <1>4 DEF Devices!full_name_inc
  <2>2. /\ Devices!Count(l) = 1
        /\ \A k \in 1 .. Devices!Count(l) : Devices!Nth(l, k) = l.name /\ l.start + k - 1 = l.start
    BY <1>1, <1>2, <1>4 DEF Devices!Nth
  <2>3. l.start \in Devices!Numbers(l)
    BY <1>2, <1>4
  <2>4. l.name \in Devices!Names(l)
    BY <2>2 DEF Devices!Names
  <2> QED
    BY <2>1, <2>2, <2>3, <2>4
<1> QED
  BY <1>3, <1>4

-----------------------------------------------------------------------------
\* The nodes of a line up to number i have been made from `before'.
NodeDevice(l, i) == IF l.type = "p" THEN <<>> ELSE <<l.major, l.minor + (i - l.start) * l.increment>>
NodesUpTo(d, before, l, own, i) ==
    /\ \A q \in DOMAIN before : q \in DOMAIN d.fs /\ d.fs[q] = before[q]
    /\ \A q \in DOMAIN d.fs : IsNode(d.fs[q])
    /\ \A q \in DOMAIN d.fs \ DOMAIN before :
          /\ \E j \in l.start .. i : q = Devices!full_name_inc(l, j)
          /\ d.fs[q].type = l.type /\ d.fs[q].caps = {}
    /\ d.ok => \A j \in l.start .. i :
          LET p == Devices!full_name_inc(l, j)
          IN  /\ p \in DOMAIN d.fs /\ d.fs[p].type = l.type /\ d.fs[p].mode = l.mode
              /\ d.fs[p].user = own[1] /\ d.fs[p].group = own[2] /\ d.fs[p].rdev = NodeDevice(l, j)

LEMMA NodeIsMade ==
    ASSUME NEW l, IsEntryLine(l), NEW own, NEW before, NEW d, NEW i \in Nat, l.start <= i,
           NodesUpTo(d, before, l, own, i - 1)
    PROVE  NodesUpTo(Devices!MakeNode(d, l, i, own), before, l, own, i)
<1> DEFINE p == Devices!full_name_inc(l, i)
           node == Devices!Node(l.type, l.mode, NodeDevice(l, i))
           new == Devices!Create(d.fs, p, node)
           made == Devices!Changed(new, p, own, l.mode)
           r == Devices!MakeNode(d, l, i, own)
<1>1. l.start \in Nat
  BY DEF IsEntryLine
<1>2. /\ \A j \in l.start .. i - 1 : j \in l.start .. i
      /\ \A j \in l.start .. i : j \in l.start .. i - 1 \/ j = i
      /\ i \in l.start .. i
  BY <1>1
<1>3. CASE Devices!Exists(d.fs, p) \/ ~Devices!IsDirectory(d.fs, Devices!Front(p))
  <2>1. r = [d EXCEPT !.ok = FALSE]
    BY <1>3 DEF Devices!MakeNode
  <2> QED
    BY <1>2, <2>1 DEF NodesUpTo
<1>4. CASE ~(Devices!Exists(d.fs, p) \/ ~Devices!IsDirectory(d.fs, Devices!Front(p)))
  <2>1. r = [fs |-> made.fs, ok |-> d.ok /\ made.ok]
    BY <1>4 DEF Devices!MakeNode, NodeDevice
  <2>2. p \notin DOMAIN d.fs
    BY <1>4 DEF Devices!Exists
  <2>3. DOMAIN new = DOMAIN d.fs \cup {p} /\ new[p] = node /\ \A q \in DOMAIN d.fs : new[q] = d.fs[q]
    BY <2>2 DEF Devices!Create
  <2>4. node = [type |-> l.type, mode |-> l.mode, user |-> "", group |-> "",
                rdev |-> NodeDevice(l, i), caps |-> {}]
    BY DEF Devices!Node
  <2>5. /\ \A q \in DOMAIN before : q \in DOMAIN d.fs /\ d.fs[q] = before[q]
        /\ \A q \in DOMAIN d.fs : IsNode(d.fs[q])
    BY DEF NodesUpTo
  <2>6. IsNode(new[p]) /\ \A q \in DOMAIN new : IsNode(new[q])
    BY <2>3, <2>4, <2>5 DEF IsNode
  <2>7. /\ DOMAIN made.fs = DOMAIN new
        /\ \A q \in DOMAIN new : q # p => made.fs[q] = new[q]
        /\ IsNode(made.fs[p]) /\ made.fs[p].type = l.type
        /\ made.fs[p].rdev = NodeDevice(l, i) /\ made.fs[p].caps = {}
        /\ made.ok => made.fs[p].mode = l.mode /\ made.fs[p].user = own[1] /\ made.fs[p].group = own[2]
    <3>1. PICK c : c = made
      OBVIOUS
    <3>2. PICK f : f = new
      OBVIOUS
    <3>3. PICK n : n = p
      OBVIOUS
    <3>4. c = Devices!Changed(f, n, own, l.mode)
      BY <3>1, <3>2, <3>3, Zenon
    <3>5. n \in DOMAIN f /\ IsNode(f[n]) /\ f[n].type = l.type /\ f[n].rdev = NodeDevice(l, i) /\ f[n].caps = {}
      <4>1. node.type = l.type /\ node.rdev = NodeDevice(l, i) /\ node.caps = {}
        <5>1. PICK e : node = [type |-> l.type, mode |-> l.mode, user |-> e, group |-> e,
                               rdev |-> NodeDevice(l, i), caps |-> {}]
          BY <2>4, Zenon
        <5> HIDE DEF node
        <5> QED
          BY <5>1
      <4> HIDE DEF p, new, made, node
      <4> QED
        BY <2>3, <2>6, <3>2, <3>3, <4>1
    <3>6. /\ DOMAIN c.fs = DOMAIN f
          /\ \A q \in DOMAIN f : q # n => c.fs[q] = f[q]
          /\ IsNode(c.fs[n]) /\ c.fs[n].type = f[n].type
          /\ c.fs[n].rdev = f[n].rdev /\ c.fs[n].caps = f[n].caps
          /\ c.ok => c.fs[n].mode = l.mode /\ c.fs[n].user = own[1] /\ c.fs[n].group = own[2]
      <4> HIDE DEF p, new, made, node
      <4> QED
        BY <3>4, <3>5, ChangedOwner
    <3> HIDE DEF p, new, made, node
    <3> QED
      BY <3>1, <3>2, <3>3, <3>5, <3>6
  <2>8. r.fs = made.fs /\ (r.ok => d.ok /\ made.ok)
    <3> DEFINE both == d.ok /\ made.ok
    <3>1. r = [fs |-> made.fs, ok |-> both]
      BY <2>1
    <3> HIDE DEF both, r, made
    <3>2. r.fs = made.fs /\ r.ok = both
      BY <3>1
    <3> QED
      BY <3>2, Zenon DEF both
  <2>9. /\ DOMAIN r.fs = DOMAIN d.fs \cup {p}
        /\ \A q \in DOMAIN d.fs : q # p /\ r.fs[q] = d.fs[q]
    <3> HIDE DEF p, new, node, made, r
    <3> QED
      BY <2>2, <2>3, <2>7, <2>8
  <2>10. \A q \in DOMAIN before : q \in DOMAIN r.fs /\ r.fs[q] = before[q]
    <3> HIDE DEF p, new, node, made, r
    <3> QED
      BY <2>5, <2>9
  <2>11. \A q \in DOMAIN r.fs : IsNode(r.fs[q])
    <3> HIDE DEF p, new, node, made, r
    <3> QED
      BY <2>5, <2>7, <2>8, <2>9
  <2>12. ASSUME NEW q \in DOMAIN r.fs \ DOMAIN before
         PROVE  /\ \E j \in l.start .. i : q = Devices!full_name_inc(l, j)
                /\ r.fs[q].type = l.type /\ r.fs[q].caps = {}
    <3>1. CASE q = p
      <4> HIDE DEF new, node, made, r
      <4> QED
        BY <1>2, <2>7, <2>8, <3>1
    <3>2. CASE q # p
      <4>1. q \in DOMAIN d.fs \ DOMAIN before /\ r.fs[q] = d.fs[q]
        <5> HIDE DEF p, new, node, made, r
        <5> QED
          BY <2>9, <3>2
      <4>2. /\ \E j \in l.start .. i - 1 : q = Devices!full_name_inc(l, j)
            /\ d.fs[q].type = l.type /\ d.fs[q].caps = {}
        <5> HIDE DEF p, new, node, made, r
        <5> QED
          BY <4>1 DEF NodesUpTo
      <4> HIDE DEF p, new, node, made, r
      <4> QED
        BY <1>2, <4>1, <4>2
    <3> QED
      BY <3>1, <3>2
  <2>13. ASSUME r.ok, NEW j \in l.start .. i
         PROVE  LET n == Devices!full_name_inc(l, j)
                IN  /\ n \in DOMAIN r.fs /\ r.fs[n].type = l.type /\ r.fs[n].mode = l.mode
                    /\ r.fs[n].user = own[1] /\ r.fs[n].group = own[2] /\ r.fs[n].rdev = NodeDevice(l, j)
    <3>1. CASE j = i
      <4>1. p = Devices!full_name_inc(l, j)
        BY <3>1
      <4> HIDE DEF p, new, node, made, r
      <4> QED
        BY <2>7, <2>8, <2>9, <2>13, <3>1, <4>1
    <3>2. CASE j \in l.start .. i - 1
      <4> HIDE DEF p, new, node, made, r
      <4> QED
        BY <2>8, <2>9, <2>13, <3>2 DEF NodesUpTo
    <3> QED
      BY <1>2, <3>1, <3>2
  <2> HIDE DEF p, new, node, made, r
  <2>14. NodesUpTo(r, before, l, own, i)
    BY <2>10, <2>11, <2>12, <2>13 DEF NodesUpTo
  <2> QED
    BY <2>14 DEF r
<1> QED
  BY <1>3, <1>4

\* The recursion of MakeNodes, up to number m.
NoNodes == [fs |-> fs, ok |-> TRUE]
IsNodeRun(f, l, own, m) ==
    f = [i \in l.start - 1 .. m |-> IF i < l.start THEN NoNodes ELSE Devices!MakeNode(f[i - 1], l, i, own)]

LEMMA NodesExist ==
    ASSUME NEW l, IsEntryLine(l), NEW own, NEW m \in Nat, l.start <= m
    PROVE  \E f : IsNodeRun(f, l, own, m)
<1> DEFINE missing == {n \in Nat : l.start <= n /\ ~ \E f : IsNodeRun(f, l, own, n)}
<1>1. SUFFICES ASSUME missing # {} PROVE FALSE
  OBVIOUS
<1>2. PICK n \in missing : \A o \in missing : n <= o
  BY <1>1, LeastExists
<1>3. PICK a : a = l.start - 1
  OBVIOUS
<1>4. l.start \in Nat /\ n \in Nat /\ a \in Int /\ a < n /\ a = l.start - 1
  BY <1>2, <1>3 DEF IsEntryLine
<1>5. \A i \in a .. n : i < l.start <=> i = a
  BY <1>4
<1>6. \E g : g = [i \in a .. n - 1 |-> IF i < l.start THEN NoNodes ELSE Devices!MakeNode(g[i - 1], l, i, own)]
  <2>1. CASE n = l.start
    <3>1. n - 1 = a /\ \A i \in a .. n - 1 : i < l.start
      BY <1>4, <2>1
    <3> DEFINE g == [i \in a .. n - 1 |-> NoNodes]
    <3>2. g = [i \in a .. n - 1 |-> IF i < l.start THEN NoNodes ELSE Devices!MakeNode(g[i - 1], l, i, own)]
      BY <3>1
    <3> QED
      BY <3>2
  <2>2. CASE n # l.start
    <3>1. n - 1 \in Nat /\ l.start <= n - 1 /\ ~ n <= n - 1
      BY <1>2, <1>4, <2>2
    <3>2. n - 1 \notin missing
      BY <1>2, <3>1
    <3>3. \E g : IsNodeRun(g, l, own, n - 1)
      BY <3>1, <3>2
    <3> QED
      BY <1>3, <3>3 DEF IsNodeRun
  <2> QED
    BY <2>1, <2>2
<1>7. PICK g : g = [i \in a .. n - 1 |-> IF i < l.start THEN NoNodes ELSE Devices!MakeNode(g[i - 1], l, i, own)]
  BY <1>6
<1> DEFINE f == [i \in a .. n |-> IF i = n THEN Devices!MakeNode(g[n - 1], l, n, own) ELSE g[i]]
<1>8. ASSUME NEW i \in a .. n
      PROVE  f[i] = IF i < l.start THEN NoNodes ELSE Devices!MakeNode(f[i - 1], l, i, own)
  <2>1. CASE i = a
    <3>1. i # n /\ i \in a .. n - 1 /\ i < l.start
      BY <1>4, <2>1
    <3>2. g[i] = NoNodes
      BY <1>7, <3>1
    <3> QED
      BY <3>1, <3>2
  <2>2. CASE i # a /\ i # n
    <3>1. i \in a .. n - 1 /\ i - 1 \in a .. n /\ i - 1 # n /\ ~ i < l.start
      BY <1>4, <2>2
    <3>2. f[i] = g[i] /\ f[i - 1] = g[i - 1]
      BY <2>2, <3>1
    <3>3. g[i] = Devices!MakeNode(g[i - 1], l, i, own)
      BY <1>7, <3>1
    <3> QED
      BY <3>1, <3>2, <3>3
  <2>3. CASE i = n
    <3>1. i - 1 \in a .. n /\ i - 1 # n /\ ~ i < l.start
      BY <1>4, <2>3
    <3>2. f[i] = Devices!MakeNode(g[i - 1], l, i, own) /\ f[i - 1] = g[i - 1]
      BY <2>3, <3>1
    <3> QED
      BY <3>1, <3>2
  <2> QED
    BY <2>1, <2>2, <2>3
<1>9. f = [i \in a .. n |-> IF i < l.start THEN NoNodes ELSE Devices!MakeNode(f[i - 1], l, i, own)]
  <2>1. f = [i \in a .. n |-> f[i]]
    OBVIOUS
  <2> HIDE DEF f
  <2> QED
    BY <1>8, <2>1
<1>10. IsNodeRun(f, l, own, n)
  BY <1>3, <1>9, Zenon DEF IsNodeRun
<1> QED
  BY <1>2, <1>10

LEMMA NodesAreMade ==
    ASSUME NEW l, IsEntryLine(l), NEW own, \A q \in DOMAIN fs : IsNode(fs[q])
    PROVE  NodesUpTo(Devices!MakeNodes(l, own), fs, l, own, Devices!Max(Devices!Numbers(l)))
<1>1. PICK final : final = Devices!Max(Devices!Numbers(l))
  OBVIOUS
<1>2. /\ final \in Nat /\ l.start \in Nat /\ l.start <= final
      /\ Devices!Numbers(l) = l.start .. final
  BY <1>1, NumbersAre DEF IsEntryLine
<1>3. {l.start - 1} \cup Devices!Numbers(l) = l.start - 1 .. final
  BY <1>2
<1>4. PICK g : IsNodeRun(g, l, own, final)
  BY <1>2, NodesExist
<1> DEFINE dom == {l.start - 1} \cup Devices!Numbers(l)
           done == CHOOSE d : d = [i \in dom |-> IF i < l.start THEN [fs |-> fs, ok |-> TRUE]
                                                 ELSE Devices!MakeNode(d[i - 1], l, i, own)]
<1>5. g = [i \in dom |-> IF i < l.start THEN [fs |-> fs, ok |-> TRUE]
                       ELSE Devices!MakeNode(g[i - 1], l, i, own)]
  BY <1>3, <1>4, Zenon DEF IsNodeRun, NoNodes
<1>6. done = [i \in dom |-> IF i < l.start THEN NoNodes ELSE Devices!MakeNode(done[i - 1], l, i, own)]
  <2> HIDE DEF dom
  <2> QED
    BY <1>5, Zenon DEF NoNodes
<1>7. Devices!MakeNodes(l, own) = done[final]
  BY <1>1, Zenon DEF Devices!MakeNodes
<1>8. dom = l.start - 1 .. final
  BY <1>3
<1> HIDE DEF done, dom
<1>9. done[l.start - 1] = NoNodes
  <2>1. l.start - 1 \in dom /\ l.start - 1 < l.start
    BY <1>2, <1>8
  <2> QED
    BY <1>6, <2>1
<1>10. \A i \in l.start .. final : done[i] = Devices!MakeNode(done[i - 1], l, i, own)
  <2>1. \A i \in l.start .. final : i \in dom /\ ~ i < l.start
    BY <1>2, <1>8
  <2> QED
    BY <1>6, <2>1
<1>11. NodesUpTo(NoNodes, fs, l, own, l.start - 1)
  <2>1. NoNodes.fs = fs
    BY DEF NoNodes
  <2>2. \A j \in l.start .. l.start - 1 : FALSE
    BY <1>2
  <2> HIDE DEF NoNodes
  <2> QED
    BY <2>1, <2>2 DEF NodesUpTo
<1> DEFINE missing == {n \in Nat : n \in l.start .. final /\ ~ NodesUpTo(done[n], fs, l, own, n)}
<1>12. missing = {}
  <2>1. SUFFICES ASSUME missing # {} PROVE FALSE
    OBVIOUS
  <2>2. PICK n \in missing : \A o \in missing : n <= o
    BY <2>1, LeastExists
  <2>3. n \in l.start .. final /\ n \in Nat /\ ~ n <= n - 1
    BY <2>2
  <2>4. NodesUpTo(done[n - 1], fs, l, own, n - 1)
    <3>1. CASE n = l.start
      BY <1>9, <1>11, <3>1
    <3>2. CASE n # l.start
      <4>1. n - 1 \in l.start .. final /\ n - 1 \in Nat
        BY <1>2, <2>3, <3>2
      <4>2. n - 1 \notin missing
        BY <2>2, <2>3
      <4> QED
        BY <4>1, <4>2
    <3> QED
      BY <3>1, <3>2
  <2>5. PICK d, before : d = done[n - 1] /\ before = fs
    OBVIOUS
  <2>6. NodesUpTo(Devices!MakeNode(d, l, n, own), before, l, own, n)
    BY <1>2, <2>3, <2>4, <2>5, NodeIsMade
  <2>7. NodesUpTo(done[n], fs, l, own, n)
    BY <1>10, <2>3, <2>5, <2>6
  <2> QED
    BY <2>2, <2>7
<1>13. final \in l.start .. final
  BY <1>2
<1> QED
  BY <1>1, <1>2, <1>7, <1>12, <1>13

\* Only directories are made on the way, and what is there stays.
LEMMA DirectoryIsMade ==
    ASSUME NEW p, p \in Seq(STRING \X Int), NEW mode, \A q \in DOMAIN fs : IsNode(fs[q])
    PROVE  LET f == Devices!bb_make_directory(fs, p, mode)
           IN  /\ \A q \in DOMAIN fs : q \in DOMAIN f /\ f[q] = fs[q]
               /\ \A q \in DOMAIN f : IsNode(f[q])
               /\ \A q \in DOMAIN f \ DOMAIN fs : q # <<>> /\ f[q].type = "d" /\ f[q].caps = {}
<1> DEFINE f == Devices!bb_make_directory(fs, p, mode)
           ancestors == {SubSeq(p, 1, n) : n \in 1 .. Len(p)}
           made == {q \in ancestors :
                       /\ ~Devices!Exists(fs, q)
                       /\ \A r \in ancestors : 
                             Len(r) < Len(q) /\ Devices!Exists(fs, r) => Devices!IsDirectory(fs, r)}
           ModeOf(q) == IF q = p /\ broken # <<p, "chmod">> THEN mode ELSE 777
<1>1. f = [q \in DOMAIN fs \cup made |-> IF q \in made THEN Devices!Node("d", ModeOf(q), <<>>) ELSE fs[q]]
  BY Zenon DEF Devices!bb_make_directory
<1>2. \A q \in made : q \notin DOMAIN fs /\ q # <<>>
  <2>1. ASSUME NEW n \in 1 .. Len(p) PROVE SubSeq(p, 1, n) # <<>>
    <3>1. Len(p) \in Nat /\ n \in Nat /\ n <= Len(p) /\ n # 0
      OBVIOUS
    <3>2. Len(SubSeq(p, 1, n)) = n
      BY <3>1
    <3> QED
      BY <3>1, <3>2
  <2> QED
    BY <2>1 DEF Devices!Exists
<1>3. \A m : /\ Devices!Node("d", m, <<>>).type = "d" /\ Devices!Node("d", m, <<>>).caps = {}
             /\ IsNode(Devices!Node("d", m, <<>>))
  <2>1. PICK e : e = ""
    OBVIOUS
  <2>2. \A m : Devices!Node("d", m, <<>>) =
               [type |-> "d", mode |-> m, user |-> e, group |-> e, rdev |-> <<>>, caps |-> {}]
    BY <2>1, Zenon DEF Devices!Node
  <2> QED
    BY <2>2 DEF IsNode
<1> HIDE DEF made, ModeOf, f
<1>4. \A q \in DOMAIN fs : q \in DOMAIN f /\ f[q] = fs[q]
  BY <1>1, <1>2
<1>5. ASSUME NEW q \in DOMAIN f \ DOMAIN fs
      PROVE  q # <<>> /\ f[q].type = "d" /\ f[q].caps = {} /\ IsNode(f[q])
  <2>1. q \in made
    BY <1>1
  <2>2. f[q] = Devices!Node("d", ModeOf(q), <<>>)
    BY <1>1, <2>1
  <2> QED
    BY <1>2, <1>3, <2>1, <2>2
<1> QED
  BY <1>4, <1>5 DEF f

-----------------------------------------------------------------------------
\* What a line does to the files, reported or not, and if it is not reported.
LineDone(d, l, own) ==
    /\ \A q \in DOMAIN fs :
          /\ q \in DOMAIN d.fs /\ d.fs[q].type = fs[q].type /\ d.fs[q].caps = fs[q].caps
          /\ q \notin Devices!Names(l) => d.fs[q] = fs[q]
    /\ \A q \in DOMAIN d.fs : IsNode(d.fs[q])
    /\ \A q \in DOMAIN d.fs \ DOMAIN fs :
          /\ q # <<>> /\ d.fs[q].caps = {}
          /\ d.fs[q].type = "d" \/ (q \in Devices!Names(l) /\ l.type # "d")
    /\ d.ok => \A k \in 1 .. Devices!Count(l) :
          LET p == Devices!Nth(l, k)
          IN  /\ p \in DOMAIN d.fs /\ d.fs[p].mode = l.mode
              /\ d.fs[p].user = own[1] /\ d.fs[p].group = own[2]
              /\ l.type \in {"c", "b"} => d.fs[p].rdev = <<l.major, l.minor + (k - 1) * l.increment>>
              /\ d.fs[p].type = l.type \/ (l.type = "d" /\ p \in DOMAIN fs)

LEMMA OtherLinesHaveOneName ==
    ASSUME NEW l, l.type \notin {"c", "b", "p"}
    PROVE  /\ Devices!Count(l) = 1 /\ Devices!Names(l) = {l.name}
           /\ \A k \in 1 .. Devices!Count(l) : Devices!Nth(l, k) = l.name
<1>1. Devices!Count(l) = 1
  BY DEF Devices!Count
<1>2. \A k : Devices!Nth(l, k) = l.name
  BY <1>1 DEF Devices!Nth
<1> QED
  BY <1>1, <1>2 DEF Devices!Names

LEMMA DirectoryDone ==
    ASSUME NEW l, IsEntryLine(l), l.type = "d", NEW own, NEW d, \A q \in DOMAIN fs : IsNode(fs[q]),
           d = Devices!Changed(Devices!bb_make_directory(fs, l.name, l.mode), l.name, own, l.mode)
    PROVE  LineDone(d, l, own)
<1>1. PICK f : f = Devices!bb_make_directory(fs, l.name, l.mode)
  OBVIOUS
<1>2. /\ \A q \in DOMAIN fs : q \in DOMAIN f /\ f[q] = fs[q]
      /\ \A q \in DOMAIN f : IsNode(f[q])
      /\ \A q \in DOMAIN f \ DOMAIN fs : q # <<>> /\ f[q].type = "d" /\ f[q].caps = {}
  BY <1>1, DirectoryIsMade DEF IsEntryLine
<1>3. PICK p, mode : p = l.name /\ mode = l.mode
  OBVIOUS
<1>4. d = Devices!Changed(f, p, own, mode)
  BY <1>1, <1>3
<1>5. /\ DOMAIN d.fs = DOMAIN f
      /\ \A q \in DOMAIN f : q # p => d.fs[q] = f[q]
      /\ p \in DOMAIN f => /\ IsNode(d.fs[p]) /\ d.fs[p].type = f[p].type
                           /\ d.fs[p].rdev = f[p].rdev /\ d.fs[p].caps = f[p].caps
      /\ d.ok => /\ p \in DOMAIN f
                 /\ d.fs[p].mode = mode /\ d.fs[p].user = own[1] /\ d.fs[p].group = own[2]
  BY <1>2, <1>4, ChangedOwner
<1>6. Devices!Count(l) = 1 /\ Devices!Names(l) = {p} /\ \A k \in 1 .. Devices!Count(l) : Devices!Nth(l, k) = p
  BY <1>3, OtherLinesHaveOneName
<1>7. l.type \notin {"c", "b"}
  OBVIOUS
<1>8. \A q \in DOMAIN fs :
          /\ q \in DOMAIN d.fs /\ d.fs[q].type = fs[q].type /\ d.fs[q].caps = fs[q].caps
          /\ q \notin Devices!Names(l) => d.fs[q] = fs[q]
  BY <1>2, <1>5, <1>6
<1>9. \A q \in DOMAIN d.fs : IsNode(d.fs[q])
  BY <1>2, <1>5
<1>10. \A q \in DOMAIN d.fs \ DOMAIN fs : q # <<>> /\ d.fs[q].caps = {} /\ d.fs[q].type = "d"
  BY <1>2, <1>5
<1>11. d.ok => d.fs[p].type = "d" \/ p \in DOMAIN fs
  BY <1>2, <1>5
<1> QED
  BY <1>3, <1>5, <1>6, <1>7, <1>8, <1>9, <1>10, <1>11 DEF LineDone

LEMMA FileDone ==
    ASSUME NEW l, IsEntryLine(l), l.type = "f", NEW own, NEW d, \A q \in DOMAIN fs : IsNode(fs[q]),
           Devices!Exists(fs, l.name), fs[l.name].type = "f", d = Devices!Changed(fs, l.name, own, l.mode)
    PROVE  LineDone(d, l, own)
<1>1. PICK f, p, mode : f = fs /\ p = l.name /\ mode = l.mode
  OBVIOUS
<1>2. /\ d = Devices!Changed(f, p, own, mode) /\ p \in DOMAIN f /\ f[p].type = "f"
      /\ \A q \in DOMAIN f : IsNode(f[q])
  BY <1>1 DEF Devices!Exists
<1>3. /\ DOMAIN d.fs = DOMAIN f
      /\ \A q \in DOMAIN f : q # p => d.fs[q] = f[q]
      /\ IsNode(d.fs[p]) /\ d.fs[p].type = f[p].type /\ d.fs[p].caps = f[p].caps
      /\ d.ok => d.fs[p].mode = mode /\ d.fs[p].user = own[1] /\ d.fs[p].group = own[2]
  BY <1>2, ChangedOwner
<1>4. Devices!Count(l) = 1 /\ Devices!Names(l) = {p} /\ \A k \in 1 .. Devices!Count(l) : Devices!Nth(l, k) = p
  BY <1>1, OtherLinesHaveOneName
<1>5. \A q \in DOMAIN fs :
          /\ q \in DOMAIN d.fs /\ d.fs[q].type = fs[q].type /\ d.fs[q].caps = fs[q].caps
          /\ q \notin Devices!Names(l) => d.fs[q] = fs[q]
  BY <1>1, <1>3, <1>4
<1>6. \A q \in DOMAIN d.fs : IsNode(d.fs[q])
  BY <1>2, <1>3
<1>7. \A q \in DOMAIN d.fs \ DOMAIN fs : FALSE
  BY <1>1, <1>3
<1> QED
  BY <1>1, <1>2, <1>3, <1>4, <1>5, <1>6, <1>7 DEF LineDone

LEMMA NodesDone ==
    ASSUME NEW l, IsEntryLine(l), l.type \in {"c", "b", "p"}, NEW own, NEW d,
           \A q \in DOMAIN fs : IsNode(fs[q]), <<>> \notin DOMAIN fs, d = Devices!MakeNodes(l, own)
    PROVE  LineDone(d, l, own)
<1>1. PICK final : final = Devices!Max(Devices!Numbers(l))
  OBVIOUS
<1>2. NodesUpTo(d, fs, l, own, final)
  BY <1>1, NodesAreMade
<1>3. Devices!Numbers(l) = l.start .. final
  BY <1>1, NumbersAre
<1>4. /\ \A k \in 1 .. Devices!Count(l) : /\ l.start + k - 1 \in l.start .. final
                                          /\ Devices!Nth(l, k) = Devices!full_name_inc(l, l.start + k - 1)
      /\ \A i \in l.start .. final : Devices!full_name_inc(l, i) \in Devices!Names(l)
  BY <1>3, NamesAreNumbered
<1>5. \A k \in 1 .. Devices!Count(l) : Devices!Nth(l, k) # <<>>
  <2>1. ASSUME NEW k \in 1 .. Devices!Count(l) PROVE Devices!Nth(l, k) # <<>>
    <3>1. l.name \in Seq(STRING \X Int) /\ l.name # <<>>
      BY DEF IsEntryLine
    <3>2. PICK x : x = <<l.name[Len(l.name)][1], l.start + k - 1>>
      OBVIOUS
    <3>3. Devices!Nth(l, k) = l.name \/ Devices!Nth(l, k) = [l.name EXCEPT ![Len(l.name)] = x]
      BY <3>2 DEF Devices!Nth
    <3>4. Len(l.name) \in 1 .. Len(l.name) /\ DOMAIN l.name = 1 .. Len(l.name)
      BY <3>1
    <3>5. DOMAIN Devices!Nth(l, k) = 1 .. Len(l.name)
      BY <3>3, <3>4
    <3> QED
      BY <3>4, <3>5
  <2> QED
    BY <2>1
<1>6. \A q \in Devices!Names(l) : q # <<>>
  BY <1>5 DEF Devices!Names
<1>7. \A q \in DOMAIN fs :
          /\ q \in DOMAIN d.fs /\ d.fs[q].type = fs[q].type /\ d.fs[q].caps = fs[q].caps
          /\ q \notin Devices!Names(l) => d.fs[q] = fs[q]
  BY <1>2 DEF NodesUpTo
<1>8. \A q \in DOMAIN d.fs : IsNode(d.fs[q])
  BY <1>2 DEF NodesUpTo
<1>9. \A q \in DOMAIN d.fs \ DOMAIN fs :
          q # <<>> /\ d.fs[q].caps = {} /\ q \in Devices!Names(l) /\ l.type # "d"
  BY <1>2, <1>4, <1>6 DEF NodesUpTo
<1>10. ASSUME d.ok, NEW k \in 1 .. Devices!Count(l)
       PROVE  LET p == Devices!Nth(l, k)
              IN  /\ p \in DOMAIN d.fs /\ d.fs[p].mode = l.mode /\ d.fs[p].type = l.type
                  /\ d.fs[p].user = own[1] /\ d.fs[p].group = own[2]
                  /\ l.type \in {"c", "b"} => d.fs[p].rdev = <<l.major, l.minor + (k - 1) * l.increment>>
  <2>1. PICK j : j = l.start + k - 1
    OBVIOUS
  <2>2. j \in l.start .. final /\ Devices!Nth(l, k) = Devices!full_name_inc(l, j)
    BY <1>4, <2>1
  <2>3. l.start \in Nat /\ k \in Int
    BY DEF IsEntryLine
  <2>4. j - l.start = k - 1
    BY <2>1, <2>3
  <2>5. PICK p : p = Devices!Nth(l, k)
    OBVIOUS
  <2>6. /\ p \in DOMAIN d.fs /\ d.fs[p].type = l.type /\ d.fs[p].mode = l.mode
        /\ d.fs[p].user = own[1] /\ d.fs[p].group = own[2] /\ d.fs[p].rdev = NodeDevice(l, j)
    BY <1>2, <1>10, <2>2, <2>5 DEF NodesUpTo
  <2>7. l.type \in {"c", "b"} => NodeDevice(l, j) = <<l.major, l.minor + (k - 1) * l.increment>>
    BY <2>4 DEF NodeDevice
  <2> QED
    BY <2>5, <2>6, <2>7
<1> QED
  BY <1>7, <1>8, <1>9, <1>10 DEF LineDone

-----------------------------------------------------------------------------
\* What is no directory was there before or made by an entry; full_name is
\* that of the last entry, and a file with a capability is there.
Untaken == \A p \in DOMAIN fs : fs[p].type = "d" \/ Devices!Taken(linenum, p)
LastIsNamed ==
    \/ full_name = <<>> /\ Devices!Entries = {}
    \/ \E n \in Devices!Entries : (\A o \in Devices!Entries : o <= n) /\ full_name = table[n].name
XattrsHaveFiles ==
    \A k \in 1 .. linenum - 1 :
       table[k].kind = "xattr" => \E n \in Devices!LastEntry(k) : table[n].name \in DOMAIN fs
LineHolds(n, k, l, p) ==
    Devices!Decides(n, p) =>
      /\ p \in DOMAIN fs /\ fs[p].mode = l.mode
      /\ fs[p].type = l.type \/ (l.type = "d" /\ Devices!Taken(n, p))
      /\ l.type \in {"c", "b"} => fs[p].rdev = <<l.major, l.minor + (k - 1) * l.increment>>
      /\ l.user # "-" => fs[p].user = l.user
      /\ l.group # "-" => fs[p].group = l.group
LinesHold ==
    \A n \in Devices!Entries \ wrong : \A k \in 1 .. Devices!Count(table[n]) :
       LineHolds(n, k, table[n], Devices!Nth(table[n], k))
CapsHold == \A p \in DOMAIN fs : fs[p].caps = {table[k].xattr : k \in Devices!XattrLines(p)}
DeviceInv ==
    /\ table \in Seq(DeviceLines) /\ linenum \in Nat \ {0} /\ linenum <= Len(table) + 1
    /\ <<>> \notin DOMAIN fs /\ \A p \in DOMAIN fs : IsNode(fs[p])
    /\ Untaken /\ LastIsNamed /\ XattrsHaveFiles /\ LinesHold /\ CapsHold

LEMMA TableParts == Devices!TableIsApplied <=> LinesHold /\ CapsHold
BY DEF Devices!TableIsApplied, LinesHold, CapsHold, LineHolds, Devices!Exists

LEMMA DeviceInit == Devices!Init => DeviceInv
<1> SUFFICES ASSUME Devices!Init PROVE DeviceInv
  OBVIOUS
<1>1. table \in Seq(DeviceLines) /\ linenum = 1 /\ Len(table) \in Nat
  <2>0. table \in Devices!Tables
    BY DEF Devices!Init
  <2>1. linenum = 1
    BY DEF Devices!Init
  <2>2. PICK n \in 1 .. MaxLines : table \in [1 .. n -> DeviceLines]
    BY <2>0 DEF Devices!Tables
  <2>3. n \in Nat
    BY <2>2, DevicesAssumption
  <2> QED
    BY <2>1, <2>2, <2>3
<1>2. PICK e, f : e = "" /\ f = "f"
  OBVIOUS
<1>3. PICK node : node = [type |-> f, mode |-> 600, user |-> e, group |-> e, rdev |-> <<>>, caps |-> {}]
  OBVIOUS
<1>4. fs = [p \in TargetFiles |-> node]
  BY <1>2, <1>3, Zenon DEF Devices!Init, Devices!Node
<1>5. node.caps = {} /\ IsNode(node)
  BY <1>3 DEF IsNode
<1>6. DOMAIN fs = TargetFiles /\ \A p \in DOMAIN fs : fs[p] = node
  BY <1>4
<1>7. 1 .. linenum - 1 = {}
  BY <1>1
<1>8. Devices!Entries = {}
  BY <1>7 DEF Devices!Entries
<1>9. \A p : Devices!XattrLines(p) = {}
  BY <1>7 DEF Devices!XattrLines
<1>10. full_name = <<>>
  BY DEF Devices!Init
<1>11. <<>> \notin DOMAIN fs /\ \A p \in DOMAIN fs : IsNode(fs[p])
  BY <1>5, <1>6, DevicesAssumption
<1>12. Untaken
  BY <1>6 DEF Untaken, Devices!Taken
<1>13. XattrsHaveFiles
  BY <1>7 DEF XattrsHaveFiles
<1>14. LinesHold /\ CapsHold
  BY <1>5, <1>6, <1>8, <1>9 DEF LinesHold, CapsHold
<1> QED
  BY <1>1, <1>8, <1>10, <1>11, <1>12, <1>13, <1>14 DEF DeviceInv, LastIsNamed

LEMMA DevicesIdles == DevicesIdle => DeviceInv
<1> SUFFICES ASSUME DevicesIdle PROVE DeviceInv
  OBVIOUS
<1>1. table = <<>> /\ linenum = 1 /\ fs = <<>> /\ full_name = <<>>
  BY DEF DevicesIdle
<1>2. table \in Seq(DeviceLines) /\ Len(table) = 0 /\ 1 .. linenum - 1 = {} /\ DOMAIN fs = {}
  BY <1>1
<1>3. Devices!Entries = {}
  BY <1>2 DEF Devices!Entries
<1> QED
  BY <1>1, <1>2, <1>3 DEF DeviceInv, Untaken, LastIsNamed, XattrsHaveFiles, LinesHold, CapsHold

\* The table and what has been read of it do not change.
LEMMA NoLineRead ==
    DeviceInv /\ UNCHANGED <<table, linenum, fs, full_name, wrong>> => DeviceInv'
<1> SUFFICES ASSUME DeviceInv, UNCHANGED <<table, linenum, fs, full_name, wrong>> PROVE DeviceInv'
  OBVIOUS
<1>1. Devices!Entries' = Devices!Entries
  BY DEF Devices!Entries, Devices!IsNumber
<1>2. \A n, p : (Devices!Taken(n, p))' <=> Devices!Taken(n, p)
  BY <1>1 DEF Devices!Taken
<1>3. \A n, p : (Devices!Decides(n, p))' <=> Devices!Decides(n, p)
  BY <1>1 DEF Devices!Decides
<1>4. \A k : Devices!LastEntry(k)' = Devices!LastEntry(k)
  BY <1>1 DEF Devices!LastEntry
<1>5. \A p : Devices!XattrLines(p)' = Devices!XattrLines(p)
  BY <1>4 DEF Devices!XattrLines
<1>6. Untaken' /\ LastIsNamed' /\ XattrsHaveFiles'
  BY <1>1, <1>2, <1>4 DEF DeviceInv, Untaken, LastIsNamed, XattrsHaveFiles
<1>7. \A n, k, l, p : LineHolds(n, k, l, p)' <=> LineHolds(n, k, l, p)
  BY <1>2, <1>3 DEF LineHolds
<1>8. LinesHold'
  BY <1>1, <1>7 DEF DeviceInv, LinesHold
<1>9. CapsHold'
  BY <1>5 DEF DeviceInv, CapsHold
<1> QED
  BY <1>6, <1>8, <1>9 DEF DeviceInv

LEMMA LineIsRead ==
    ASSUME DeviceInv, linenum <= Len(table), linenum' = linenum + 1, UNCHANGED table
    PROVE  /\ linenum \in Nat \ {0} /\ linenum' \in Nat \ {0} /\ linenum' <= Len(table') + 1
           /\ table' \in Seq(DeviceLines) /\ Devices!line \in DeviceLines /\ Devices!line = table[linenum]
           /\ 1 .. linenum' - 1 = (1 .. linenum - 1) \cup {linenum} /\ linenum \notin 1 .. linenum - 1
           /\ Devices!Entries' = IF Devices!line.kind = "entry" /\ Devices!IsNumber(Devices!line)
                                 THEN Devices!Entries \cup {linenum} ELSE Devices!Entries
           /\ \A n \in Devices!Entries : n \in Nat /\ n < linenum
           /\ \A k \in 1 .. linenum - 1 : Devices!LastEntry(k)' = Devices!LastEntry(k)
<1>1. linenum \in Nat \ {0} /\ table \in Seq(DeviceLines) /\ Len(table) \in Nat
  BY DEF DeviceInv
<1>2. /\ linenum' \in Nat \ {0} /\ linenum' <= Len(table) + 1
      /\ 1 .. linenum' - 1 = (1 .. linenum - 1) \cup {linenum} /\ linenum \notin 1 .. linenum - 1
      /\ linenum \in 1 .. Len(table)
  BY <1>1
<1>3. Devices!line = table[linenum] /\ Devices!line \in DeviceLines
  BY <1>1, <1>2 DEF Devices!line
<1>4. Devices!Entries' = IF Devices!line.kind = "entry" /\ Devices!IsNumber(Devices!line)
                         THEN Devices!Entries \cup {linenum} ELSE Devices!Entries
  <2>1. Devices!Entries' = {n \in 1 .. linenum' - 1 : table[n].kind = "entry" /\ Devices!IsNumber(table[n])}
    BY DEF Devices!Entries, Devices!IsNumber
  <2> QED
    BY <1>2, <1>3, <2>1 DEF Devices!Entries
<1>5. \A n \in Devices!Entries : n \in Nat /\ n < linenum
  BY <1>1 DEF Devices!Entries
<1>6. ASSUME NEW k \in 1 .. linenum - 1 PROVE Devices!LastEntry(k)' = Devices!LastEntry(k)
  <2>1. Devices!LastEntry(k)' = {n \in Devices!Entries' : n < k /\ \A o \in Devices!Entries' : o < k => o <= n}
    BY DEF Devices!LastEntry
  <2>2. ~ linenum < k
    BY <1>1
  <2> QED
    BY <1>4, <2>1, <2>2 DEF Devices!LastEntry
<1> QED
  BY <1>1, <1>2, <1>3, <1>4, <1>5, <1>6

\* A line that changes no file, a comment or a refused entry.
LEMMA LineSkipped ==
    ASSUME DeviceInv, linenum <= Len(table), linenum' = linenum + 1, Devices!line.kind # "xattr",
           ~(Devices!line.kind = "entry" /\ Devices!IsNumber(Devices!line)), UNCHANGED <<table, fs, full_name>>,
           wrong \subseteq wrong'
    PROVE  DeviceInv'
<1>1. /\ linenum \in Nat \ {0} /\ linenum' \in Nat \ {0} /\ linenum' <= Len(table') + 1
      /\ table' \in Seq(DeviceLines) /\ Devices!line = table[linenum]
      /\ 1 .. linenum' - 1 = (1 .. linenum - 1) \cup {linenum} /\ linenum \notin 1 .. linenum - 1
      /\ Devices!Entries' = Devices!Entries /\ \A n \in Devices!Entries : n \in Nat /\ n < linenum
      /\ \A k \in 1 .. linenum - 1 : Devices!LastEntry(k)' = Devices!LastEntry(k)
  BY LineIsRead
<1>2. \A n, p : (Devices!Decides(n, p))' <=> Devices!Decides(n, p)
  BY <1>1 DEF Devices!Decides
<1>3. \A p : \A n \in Devices!Entries : Devices!Taken(n, p) => (Devices!Taken(n, p))'
  BY <1>1 DEF Devices!Taken
<1>4. \A p : Devices!Taken(linenum, p) => (Devices!Taken(linenum, p))'
  <2>1. ASSUME NEW p, Devices!Taken(linenum, p)
        PROVE  \/ p \in TargetFiles
               \/ \E k \in Devices!Entries' :
                     k < linenum' /\ p \in Devices!Names(table'[k]) /\ table'[k].type # "d"
    <3>1. \A k \in Devices!Entries : k < linenum'
      BY <1>1
    <3> QED
      BY <1>1, <2>1, <3>1 DEF Devices!Taken
  <2>2. \A p : (Devices!Taken(linenum, p))' <=> \/ p \in TargetFiles
               \/ \E k \in Devices!Entries' :
                     k < linenum' /\ p \in Devices!Names(table'[k]) /\ table'[k].type # "d"
    BY DEF Devices!Taken
  <2> QED
    BY <2>1, <2>2
<1>5. \A p : Devices!XattrLines(p)' = Devices!XattrLines(p)
  BY <1>1 DEF Devices!XattrLines
<1>6. Untaken'
  BY <1>4 DEF DeviceInv, Untaken
<1>7. LastIsNamed'
  BY <1>1 DEF DeviceInv, LastIsNamed
<1>8. XattrsHaveFiles'
  BY <1>1 DEF DeviceInv, XattrsHaveFiles
<1>9. \A k, l, p : \A n \in Devices!Entries : LineHolds(n, k, l, p) => LineHolds(n, k, l, p)'
  BY <1>2, <1>3 DEF LineHolds
<1>10. LinesHold'
  BY <1>1, <1>9 DEF DeviceInv, LinesHold
<1>11. CapsHold'
  BY <1>5 DEF DeviceInv, CapsHold
<1> QED
  BY <1>1, <1>6, <1>7, <1>8, <1>10, <1>11 DEF DeviceInv

\* An entry, whether or not an error is reported for it.
LEMMA LineApplied ==
    ASSUME DeviceInv, linenum <= Len(table), linenum' = linenum + 1, Devices!line.kind = "entry",
           Devices!IsNumber(Devices!line), UNCHANGED table, full_name' = Devices!line.name, NEW d, fs' = d.fs,
           LineDone(d, Devices!line, <<user', group'>>), Devices!Report(d.ok),
           Devices!line.user # "-" => user' = Devices!line.user,
           Devices!line.group # "-" => group' = Devices!line.group
    PROVE  DeviceInv'
<1> DEFINE now == linenum
<1>1. /\ linenum \in Nat \ {0} /\ linenum' \in Nat \ {0} /\ linenum' <= Len(table') + 1
      /\ table' \in Seq(DeviceLines) /\ Devices!line = table[linenum]
      /\ 1 .. linenum' - 1 = (1 .. linenum - 1) \cup {linenum} /\ linenum \notin 1 .. linenum - 1
      /\ Devices!Entries' = Devices!Entries \cup {linenum}
      /\ \A n \in Devices!Entries : n \in Nat /\ n < linenum
      /\ \A k \in 1 .. linenum - 1 : Devices!LastEntry(k)' = Devices!LastEntry(k)
  BY LineIsRead
<1>2. /\ \A q \in DOMAIN fs :
            /\ q \in DOMAIN fs' /\ fs'[q].type = fs[q].type /\ fs'[q].caps = fs[q].caps
            /\ q \notin Devices!Names(Devices!line) => fs'[q] = fs[q]
      /\ \A q \in DOMAIN fs' : IsNode(fs'[q])
      /\ \A q \in DOMAIN fs' \ DOMAIN fs :
            /\ q # <<>> /\ fs'[q].caps = {}
            /\ fs'[q].type = "d" \/ (q \in Devices!Names(Devices!line) /\ Devices!line.type # "d")
  BY DEF LineDone
<1>3. \A p : \A n \in Devices!Entries : (Devices!Decides(n, p))' =>
         Devices!Decides(n, p) /\ p \notin Devices!Names(Devices!line)
  BY <1>1 DEF Devices!Decides
<1>4. /\ \A p : \A n \in Devices!Entries' : (Devices!Taken(n, p))' <=>
               \/ p \in TargetFiles
               \/ \E k \in Devices!Entries : k < n /\ p \in Devices!Names(table[k]) /\ table[k].type # "d"
      /\ \A p : (Devices!Taken(linenum, p))' <=>
               \/ p \in TargetFiles
               \/ \E k \in Devices!Entries' :
                     k < linenum' /\ p \in Devices!Names(table[k]) /\ table[k].type # "d"
  <2>1. \A n, p : (Devices!Taken(n, p))' <=>
               \/ p \in TargetFiles
               \/ \E k \in Devices!Entries' :
                     k < n' /\ p \in Devices!Names(table[k]) /\ table[k].type # "d"
    BY DEF Devices!Taken
  <2> QED
    BY <1>1, <2>1
<1>5. Untaken'
  <2>1. ASSUME NEW p \in DOMAIN fs' PROVE fs'[p].type = "d" \/ (Devices!Taken(linenum, p))'
    <3>1. CASE p \in DOMAIN fs
      <4>1. fs[p].type = "d" \/ Devices!Taken(linenum, p)
        BY <3>1 DEF DeviceInv, Untaken
      <4>2. \A k \in Devices!Entries : k \in Devices!Entries' /\ k < linenum'
        BY <1>1
      <4>3. Devices!Taken(linenum, p) => (Devices!Taken(linenum, p))'
        BY <1>4, <4>2 DEF Devices!Taken
      <4> QED
        BY <1>2, <3>1, <4>1, <4>3
    <3>2. CASE p \notin DOMAIN fs
      <4>1. fs'[p].type = "d" \/ (p \in Devices!Names(table[linenum]) /\ table[linenum].type # "d")
        BY <1>1, <1>2, <3>2
      <4>2. linenum \in Devices!Entries' /\ linenum < linenum'
        BY <1>1
      <4> QED
        BY <1>4, <4>1, <4>2
    <3> QED
      BY <3>1, <3>2
  <2> QED
    BY <2>1 DEF Untaken
<1>6. LastIsNamed'
  <2>1. /\ linenum \in Devices!Entries' /\ \A o \in Devices!Entries' : o <= linenum
        /\ full_name' = table'[linenum].name
    BY <1>1
  <2>2. PICK n : n = linenum
    OBVIOUS
  <2> QED
    BY <2>1, <2>2 DEF LastIsNamed
<1>7. \A k \in 1 .. linenum' - 1 : table'[k].kind = "xattr" => k \in 1 .. linenum - 1
  BY <1>1
<1>8. XattrsHaveFiles'
  BY <1>1, <1>2, <1>7 DEF DeviceInv, XattrsHaveFiles
<1>9. \A p : Devices!XattrLines(p)' = Devices!XattrLines(p)
  <2>1. \A p : Devices!XattrLines(p)' =
         {k \in 1 .. linenum' - 1 : /\ table[k].kind = "xattr"
                                      /\ \E n \in Devices!LastEntry(k)' : table[n].name = p}
    BY DEF Devices!XattrLines
  <2> QED
    BY <1>1, <1>7, <2>1 DEF Devices!XattrLines
<1>10. CapsHold'
  <2>1. ASSUME NEW p \in DOMAIN fs' PROVE fs'[p].caps = {table[k].xattr : k \in Devices!XattrLines(p)}
    <3>1. CASE p \in DOMAIN fs
      BY <1>2, <3>1 DEF DeviceInv, CapsHold
    <3>2. CASE p \notin DOMAIN fs
      <4>1. ASSUME NEW k \in Devices!XattrLines(p) PROVE FALSE
        <5>1. k \in 1 .. linenum - 1 /\ table[k].kind = "xattr"
          BY DEF Devices!XattrLines
        <5>2. PICK n \in Devices!LastEntry(k) : table[n].name = p
          BY DEF Devices!XattrLines
        <5>3. PICK o \in Devices!LastEntry(k) : table[o].name \in DOMAIN fs
          BY <5>1 DEF DeviceInv, XattrsHaveFiles
        <5>4. n \in Nat /\ o \in Nat /\ n <= o /\ o <= n
          BY <1>1, <5>2, <5>3 DEF Devices!LastEntry
        <5>5. n = o
          BY <5>4
        <5> QED
          BY <3>2, <5>2, <5>3, <5>5
      <4>2. fs'[p].caps = {}
        BY <1>2, <3>2
      <4> QED
        BY <4>1, <4>2
    <3> QED
      BY <3>1, <3>2
  <2> QED
    BY <1>9, <2>1 DEF CapsHold
<1>11. ASSUME NEW n \in Devices!Entries, NEW k, NEW l, NEW p, LineHolds(n, k, l, p)
       PROVE  LineHolds(n, k, l, p)'
  <2>1. (Devices!Decides(n, p))' =>
         Devices!Decides(n, p) /\ p \notin Devices!Names(Devices!line)
    BY <1>3
  <2>2. Devices!Taken(n, p) => (Devices!Taken(n, p))'
    BY <1>1, <1>4 DEF Devices!Taken
  <2>3. p \in DOMAIN fs /\ p \notin Devices!Names(Devices!line) => p \in DOMAIN fs' /\ fs'[p] = fs[p]
    BY <1>2
  <2> QED
    BY <1>11, <2>1, <2>2, <2>3 DEF LineHolds
<1>12. ASSUME d.ok, NEW n, n = linenum, NEW l, l = Devices!line, NEW k \in 1 .. Devices!Count(l),
              NEW p, p = Devices!Nth(l, k)
       PROVE  LineHolds(n, k, l, p)'
  <2>1. /\ p \in DOMAIN fs' /\ fs'[p].mode = l.mode
        /\ fs'[p].user = user' /\ fs'[p].group = group'
        /\ l.type \in {"c", "b"} => fs'[p].rdev = <<l.major, l.minor + (k - 1) * l.increment>>
        /\ fs'[p].type = l.type \/ (l.type = "d" /\ p \in DOMAIN fs)
    BY <1>12 DEF LineDone
  <2>2. p \in DOMAIN fs => fs'[p].type = "d" \/ (Devices!Taken(n, p))'
    <3>1. ASSUME p \in DOMAIN fs PROVE fs'[p].type = "d" \/ Devices!Taken(n, p)
      BY <1>2, <1>12, <3>1 DEF DeviceInv, Untaken
    <3>2. Devices!Taken(n, p) => (Devices!Taken(n, p))'
      BY <1>1, <1>4, <1>12 DEF Devices!Taken
    <3> QED
      BY <3>1, <3>2
  <2>3. fs'[p].type = l.type \/ (l.type = "d" /\ (Devices!Taken(n, p))')
    BY <2>1, <2>2
  <2> QED
    BY <1>12, <2>1, <2>3 DEF LineHolds
<1>13. LinesHold'
  <2>1. wrong \subseteq wrong' /\ (linenum \in wrong' \/ d.ok)
    BY DEF Devices!Report
  <2>2. ASSUME NEW n \in Devices!Entries' \ wrong', NEW k \in 1 .. Devices!Count(table[n])
        PROVE  LineHolds(n, k, table[n], Devices!Nth(table[n], k))'
    <3>1. PICK l, p : l = table[n] /\ p = Devices!Nth(l, k)
      OBVIOUS
    <3>2. CASE n \in Devices!Entries
      <4>1. LineHolds(n, k, l, p)
        BY <2>1, <3>1, <3>2 DEF DeviceInv, LinesHold
      <4>2. LineHolds(n, k, l, p)'
        BY <1>11, <3>2, <4>1
      <4> QED
        BY <3>1, <4>2
    <3>3. CASE n = linenum
      <4>1. d.ok /\ l = Devices!line
        BY <1>1, <2>1, <2>2, <3>1, <3>3
      <4>2. LineHolds(n, k, l, p)'
        BY <1>12, <3>1, <3>3, <4>1
      <4> QED
        BY <3>1, <4>2
    <3> QED
      BY <1>1, <3>2, <3>3
  <2> QED
    BY <2>2 DEF LinesHold
<1> QED
  BY <1>1, <1>2, <1>5, <1>6, <1>8, <1>10, <1>13 DEF DeviceInv

\* An xattr line adds its capability to the file of the last entry.
LEMMA CapIsAdded ==
    ASSUME DeviceInv, Devices!Xattr
    PROVE  DeviceInv'
<1>0. /\ linenum <= Len(table) /\ linenum' = linenum + 1 /\ Devices!line.kind = "xattr"
      /\ UNCHANGED <<table, full_name, wrong>> /\ full_name \in DOMAIN fs
      /\ fs' = [fs EXCEPT ![full_name].caps = @ \cup {Devices!line.xattr}]
  BY DEF Devices!Xattr, Devices!Reading, Devices!Continue, Devices!fixed, Devices!MayHaveCaps, Devices!Exists
<1>1. /\ linenum \in Nat \ {0} /\ linenum' \in Nat \ {0} /\ linenum' <= Len(table') + 1
      /\ table' \in Seq(DeviceLines) /\ Devices!line = table[linenum]
      /\ 1 .. linenum' - 1 = (1 .. linenum - 1) \cup {linenum} /\ linenum \notin 1 .. linenum - 1
      /\ Devices!Entries' = Devices!Entries /\ \A n \in Devices!Entries : n \in Nat /\ n < linenum
      /\ \A k \in 1 .. linenum - 1 : Devices!LastEntry(k)' = Devices!LastEntry(k)
  BY <1>0, LineIsRead
<1>2. /\ DOMAIN fs' = DOMAIN fs /\ \A q \in DOMAIN fs : q # full_name => fs'[q] = fs[q]
      /\ fs'[full_name] = [type |-> fs[full_name].type, mode |-> fs[full_name].mode,
                           user |-> fs[full_name].user, group |-> fs[full_name].group,
                           rdev |-> fs[full_name].rdev, caps |-> fs[full_name].caps \cup {Devices!line.xattr}]
  <2>1. PICK n : n = fs[full_name]
    OBVIOUS
  <2>2. IsNode(n)
    BY <1>0, <2>1 DEF DeviceInv
  <2>3. PICK c : c = n.caps \cup {Devices!line.xattr}
    OBVIOUS
  <2>4. fs' = [fs EXCEPT ![full_name] = [n EXCEPT !.caps = c]]
    BY <1>0, <2>1, <2>3
  <2>5. [n EXCEPT !.caps = c] = [type |-> n.type, mode |-> n.mode, user |-> n.user, group |-> n.group,
                                 rdev |-> n.rdev, caps |-> c]
    BY <2>2 DEF IsNode
  <2> QED
    BY <1>0, <2>1, <2>3, <2>4, <2>5
<1>3. \A q \in DOMAIN fs :
          /\ IsNode(fs'[q]) /\ fs'[q].type = fs[q].type /\ fs'[q].mode = fs[q].mode
          /\ fs'[q].user = fs[q].user /\ fs'[q].group = fs[q].group /\ fs'[q].rdev = fs[q].rdev
          /\ fs'[q].caps = IF q = full_name THEN fs[q].caps \cup {Devices!line.xattr} ELSE fs[q].caps
  <2>1. PICK e, o : e = fs'[full_name] /\ o = fs[full_name]
    OBVIOUS
  <2>2. PICK c : c = o.caps \cup {Devices!line.xattr}
    OBVIOUS
  <2>3. e = [type |-> o.type, mode |-> o.mode, user |-> o.user, group |-> o.group, rdev |-> o.rdev, caps |-> c]
    BY <1>2, <2>1, <2>2
  <2>4. /\ IsNode(e) /\ e.type = o.type /\ e.mode = o.mode /\ e.user = o.user /\ e.group = o.group
        /\ e.rdev = o.rdev /\ e.caps = c
    BY <2>3 DEF IsNode
  <2>5. \A q \in DOMAIN fs : IsNode(fs[q])
    BY DEF DeviceInv
  <2> QED
    BY <1>2, <2>1, <2>2, <2>4, <2>5
<1>4. full_name # <<>>
  BY <1>0 DEF DeviceInv
<1>5. PICK final \in Devices!Entries : (\A o \in Devices!Entries : o <= final) /\ full_name = table[final].name
  BY <1>4 DEF DeviceInv, LastIsNamed
<1>6. PICK m : m = linenum
  OBVIOUS
<1>7. Devices!LastEntry(m)' = {final}
  <2>1. \A n \in Devices!Entries : n \in Nat /\ n < m
    BY <1>1, <1>6
  <2>2. Devices!LastEntry(m)' = {n \in Devices!Entries' : n < m /\ \A o \in Devices!Entries' : o < m => o <= n}
    BY DEF Devices!LastEntry
  <2>3. Devices!LastEntry(m)' = {n \in Devices!Entries : \A o \in Devices!Entries : o <= n}
    BY <1>1, <2>1, <2>2
  <2>4. \A n \in Devices!Entries : (\A o \in Devices!Entries : o <= n) => n = final
    BY <1>5, <2>1
  <2> QED
    BY <1>5, <2>3, <2>4
<1>8. \A p : Devices!XattrLines(p)' =
         IF p = full_name THEN Devices!XattrLines(p) \cup {m} ELSE Devices!XattrLines(p)
  <2>1. \A p : Devices!XattrLines(p)' =
         {k \in 1 .. linenum' - 1 : /\ table[k].kind = "xattr"
                                      /\ \E n \in Devices!LastEntry(k)' : table[n].name = p}
    BY <1>0 DEF Devices!XattrLines
  <2>2. table[m].kind = "xattr"
    BY <1>0, <1>1, <1>6
  <2>3. \A k \in 1 .. linenum - 1 : Devices!LastEntry(k)' = Devices!LastEntry(k) /\ k # m
    BY <1>1, <1>6
  <2>4. \A p : (\E n \in Devices!LastEntry(m)' : table[n].name = p) <=> p = full_name
    BY <1>5, <1>7
  <2>5. ASSUME NEW p, NEW k
        PROVE  k \in Devices!XattrLines(p)' <=> k \in Devices!XattrLines(p) \/ (k = m /\ p = full_name)
    <3>1. k \in Devices!XattrLines(p)' <=> /\ k \in (1 .. linenum - 1) \cup {m} /\ table[k].kind = "xattr"
                                           /\ \E n \in Devices!LastEntry(k)' : table[n].name = p
      BY <1>1, <1>6, <2>1
    <3>2. CASE k = m
      <4>1. k \notin Devices!XattrLines(p)
        BY <1>1, <1>6, <3>2 DEF Devices!XattrLines
      <4> QED
        BY <2>2, <2>4, <3>1, <3>2, <4>1
    <3>3. CASE k # m
      BY <2>3, <3>1, <3>3 DEF Devices!XattrLines
    <3> QED
      BY <3>2, <3>3
  <2> QED
    BY <2>5
<1>9. CapsHold'
  <2>1. ASSUME NEW p \in DOMAIN fs PROVE fs'[p].caps = {table[k].xattr : k \in Devices!XattrLines(p)'}
    <3>1. fs[p].caps = {table[k].xattr : k \in Devices!XattrLines(p)}
      BY DEF DeviceInv, CapsHold
    <3>2. CASE p = full_name
      <4>1. Devices!XattrLines(p)' = Devices!XattrLines(p) \cup {m} /\ Devices!line.xattr = table[m].xattr
        BY <1>1, <1>6, <1>8, <3>2
      <4>2. fs'[p].caps = fs[p].caps \cup {table[m].xattr}
        BY <1>3, <3>2, <4>1
      <4> QED
        BY <3>1, <4>1, <4>2
    <3>3. CASE p # full_name
      <4>1. Devices!XattrLines(p)' = Devices!XattrLines(p) /\ fs'[p].caps = fs[p].caps
        BY <1>3, <1>8, <3>3
      <4> QED
        BY <3>1, <4>1
    <3> QED
      BY <3>2, <3>3
  <2> QED
    BY <1>0, <1>2, <2>1 DEF CapsHold
<1>10. \A n, p : (Devices!Taken(n, p))' <=> Devices!Taken(n, p)
  BY <1>0, <1>1 DEF Devices!Taken
<1>11. \A p : Devices!Taken(linenum, p) => (Devices!Taken(linenum, p))'
  <2>1. \A p : (Devices!Taken(linenum, p))' <=> \/ p \in TargetFiles
               \/ \E k \in Devices!Entries' :
                     k < linenum' /\ p \in Devices!Names(table'[k]) /\ table'[k].type # "d"
    BY DEF Devices!Taken
  <2>2. \A k \in Devices!Entries : k < linenum'
    BY <1>1
  <2> QED
    BY <1>0, <1>1, <2>1, <2>2 DEF Devices!Taken
<1>12. \A n, p : (Devices!Decides(n, p))' <=> Devices!Decides(n, p)
  BY <1>0, <1>1 DEF Devices!Decides
<1>13. Untaken'
  BY <1>2, <1>3, <1>11 DEF DeviceInv, Untaken
<1>14. LastIsNamed'
  BY <1>0, <1>1 DEF DeviceInv, LastIsNamed
<1>15. XattrsHaveFiles'
  <2>1. ASSUME NEW k \in 1 .. linenum' - 1, table[k].kind = "xattr"
        PROVE  \E n \in Devices!LastEntry(k)' : table[n].name \in DOMAIN fs
    <3>1. CASE k = m
      BY <1>0, <1>5, <1>7, <3>1
    <3>2. CASE k # m
      <4>1. k \in 1 .. linenum - 1
        BY <1>1, <1>6, <3>2
      <4> QED
        BY <1>1, <2>1, <4>1 DEF DeviceInv, XattrsHaveFiles
    <3> QED
      BY <3>1, <3>2
  <2> QED
    BY <1>0, <1>2, <2>1 DEF XattrsHaveFiles
<1>16. ASSUME NEW n, NEW k, NEW l, NEW p, LineHolds(n, k, l, p)
       PROVE  LineHolds(n, k, l, p)'
  BY <1>2, <1>3, <1>10, <1>12, <1>16 DEF LineHolds
<1>17. LinesHold'
  BY <1>0, <1>1, <1>16 DEF DeviceInv, LinesHold
<1> QED
  BY <1>1, <1>2, <1>3, <1>4, <1>9, <1>13, <1>14, <1>15, <1>17 DEF DeviceInv

LEMMA DeviceStep ==
    ASSUME DeviceInv, [Devices!Next]_deviceVars
    PROVE  DeviceInv'
<1>1. ASSUME UNCHANGED deviceVars PROVE DeviceInv'
  BY <1>1, NoLineRead DEF deviceVars
<1>2. ASSUME Devices!Comment PROVE DeviceInv'
  <2>1. /\ linenum <= Len(table) /\ linenum' = linenum + 1 /\ Devices!line.kind = "comment"
        /\ UNCHANGED <<table, fs, full_name>> /\ wrong \subseteq wrong'
    BY <1>2 DEF Devices!Comment, Devices!Reading, Devices!Continue, Devices!fixed
  <2> QED
    BY <2>1, LineSkipped
<1>3. ASSUME Devices!Refused PROVE DeviceInv'
  <2>1. /\ linenum <= Len(table) /\ linenum' = linenum + 1
        /\ Devices!line.kind = "entry" /\ ~Devices!IsNumber(Devices!line)
        /\ UNCHANGED <<table, fs, full_name>> /\ wrong \subseteq wrong'
    BY <1>3 DEF Devices!Refused, Devices!Reading, Devices!Continue, Devices!fixed, Devices!Report
  <2> QED
    BY <2>1, LineSkipped
<1>4. ASSUME Devices!UnknownOwner PROVE DeviceInv'
  BY <1>4, NoLineRead DEF Devices!UnknownOwner, Devices!Die, Devices!fixed
<1>5. ASSUME Devices!Apply PROVE DeviceInv'
  <2>1. /\ linenum <= Len(table) /\ linenum' = linenum + 1
        /\ Devices!line.kind = "entry" /\ Devices!IsNumber(Devices!line)
        /\ UNCHANGED table /\ full_name' = Devices!line.name
        /\ Devices!line.user # "-" => user' = Devices!line.user
        /\ Devices!line.group # "-" => group' = Devices!line.group
    BY <1>5 DEF Devices!Apply, Devices!Scan, Devices!Reading, Devices!Continue, Devices!fixed
  <2>2. PICK l, own : l = Devices!line /\ own = <<user', group'>>
    OBVIOUS
  <2>3. PICK d : /\ fs' = d.fs /\ Devices!Report(d.ok)
                 /\ d = CASE l.type = "d" ->
                             Devices!Changed(Devices!bb_make_directory(fs, l.name, l.mode), l.name, own, l.mode)
                          [] l.type = "f" ->
                                IF Devices!Exists(fs, l.name) /\ fs[l.name].type = "f"
                                THEN Devices!Changed(fs, l.name, own, l.mode) ELSE [fs |-> fs, ok |-> FALSE]
                          [] l.type \in {"c", "b", "p"} -> Devices!MakeNodes(l, own)
                          [] OTHER -> [fs |-> fs, ok |-> FALSE]
    BY <1>5, <2>2 DEF Devices!Apply
  <2>4. IsEntryLine(l) /\ (\A q \in DOMAIN fs : IsNode(fs[q])) /\ <<>> \notin DOMAIN fs
    BY <2>1, <2>2, LineIsRead, DevicesAssumption DEF DeviceInv, IsEntryLine
  <2>5. LineDone(d, l, own)
    <3>1. CASE l.type = "d"
      <4>1. d = Devices!Changed(Devices!bb_make_directory(fs, l.name, l.mode), l.name, own, l.mode)
        BY <2>3, <3>1
      <4> QED
        BY <2>4, <3>1, <4>1, DirectoryDone
    <3>2. CASE l.type = "f" /\ Devices!Exists(fs, l.name) /\ fs[l.name].type = "f"
      <4>1. d = Devices!Changed(fs, l.name, own, l.mode)
        BY <2>3, <3>2
      <4> QED
        BY <2>4, <3>2, <4>1, FileDone
    <3>3. CASE l.type \in {"c", "b", "p"}
      <4>1. d = Devices!MakeNodes(l, own)
        BY <2>3, <3>3
      <4> QED
        BY <2>4, <3>3, <4>1, NodesDone
    <3>4. CASE /\ l.type \notin {"d", "c", "b", "p"}
               /\ ~(l.type = "f" /\ Devices!Exists(fs, l.name) /\ fs[l.name].type = "f")
      <4>1. d = [fs |-> fs, ok |-> FALSE]
        BY <2>3, <3>4
      <4>2. d.fs = fs /\ d.ok = FALSE
        BY <4>1
      <4> QED
        BY <2>4, <4>2 DEF LineDone
    <3> QED
      BY <3>1, <3>2, <3>3, <3>4
  <2> QED
    BY <2>1, <2>2, <2>3, <2>5, LineApplied
<1>6. ASSUME Devices!Xattr PROVE DeviceInv'
  BY <1>6, CapIsAdded
<1>7. ASSUME Devices!XattrFails PROVE DeviceInv'
  BY <1>7, NoLineRead DEF Devices!XattrFails, Devices!Die, Devices!fixed
<1>8. ASSUME Devices!EndOfTable PROVE DeviceInv'
  BY <1>8, NoLineRead DEF Devices!EndOfTable, Devices!fixed
<1> QED
  BY <1>1, <1>2, <1>3, <1>4, <1>5, <1>6, <1>7, <1>8 DEF Devices!Next

-----------------------------------------------------------------------------
(***************************************************************************)
(* The pager knows positions, not lines.  For the proof the place of a     *)
(* page is the number of line ends before it, and one more when the end    *)
(* has been reached: get_line() adds one to it, back_lines() takes as many *)
(* away as it is told to, and one that was told too many stops at 0 with   *)
(* the mark of the start.  So the keys keep page_length lines between the  *)
(* top of the window and the page, and that is what they count back from.  *)
(***************************************************************************)
\* What the program knows of the text: page is where the window ends, and the
\* marks, the length and the position of the window fit together.
One(b) == IF b THEN 1 ELSE 0
Least(m, n) == IF m < n THEN m ELSE n
IsStart(p) == p \in 0 .. Pager!End /\ (p = 0 \/ doc.text[p] = NL)
HighestStart(height) == IF Pager!Lines + 1 > height THEN Pager!Lines + 1 - height ELSE 0
View(height, t, b, p, e, n) ==
    /\ IsStart(t) /\ b \in BOOLEAN /\ (b <=> t = 0)
    /\ IsStart(p) /\ e \in BOOLEAN /\ (e => p = Pager!End)
    /\ n \in Nat \ {0} /\ n = Least(height, Pager!Lines + 1 - Pager!LineOf(t))
    /\ Pager!LineOf(p) + One(e) = Pager!LineOf(t) + n
    /\ search => Pager!LineOf(t) <= HighestStart(height)
DigitsLead ==
    \A e \in DOMAIN doc.entries :
       top <= doc.entries[e] /\ doc.entries[e] < page =>
          /\ header[e] # 0 => \A key \in keys : key[1] = header[e] <=> key[2] = e
          /\ header[e] = 0 => Pager!Cardinality(keys) = JUMP_NB
PagerGiven ==
    /\ Len(doc.text) \in Nat /\ search \in BOOLEAN /\ doc.entries \in Seq(Nat)
    /\ \A e, f \in DOMAIN doc.entries : e < f => doc.entries[e] <= doc.entries[f]
    /\ boxh \in Nat \ {0} /\ margin \in Nat
PagerInv ==
    /\ PagerGiven
    /\ Pager!Terminated =>
          /\ vscroll \in 0 .. Pager!Lines
          /\ t_open => View(boxh, top, begin_reached, page, end_reached, page_length) /\ (search => DigitsLead)

LEMMA SameCount == \A S : Pager!Cardinality(S) = Cardinality(S)
BY DEF Pager!Cardinality, Cardinality

LEMMA FirstExists ==
    ASSUME NEW S, S \subseteq Nat, S # {}
    PROVE  \E n \in S : \A o \in S : n <= o
BY LeastExists

LEMMA GreatestExists ==
    ASSUME NEW b \in Nat, NEW S, S \subseteq 0 .. b, S # {}
    PROVE  Pager!Max(S) \in S /\ \A n \in S : n <= Pager!Max(S)
<1> DEFINE T == {b - n : n \in S}
<1>1. T \subseteq Nat /\ T # {}
  <2>1. \A n \in S : b - n \in Nat
    OBVIOUS
  <2> QED
    BY <2>1
<1>2. PICK d \in T : \A o \in T : d <= o
  BY <1>1, FirstExists
<1>3. PICK m \in S : d = b - m
  BY <1>2
<1>4. ASSUME NEW n \in S PROVE n <= m
  <2>1. b - n \in T
    OBVIOUS
  <2>2. d <= b - n
    BY <1>2, <2>1
  <2>3. n \in 0 .. b /\ m \in 0 .. b
    OBVIOUS
  <2> QED
    BY <1>3, <2>2, <2>3
<1>5. \A x \in S : (\A y \in S : x >= y) => x = m
  <2>1. ASSUME NEW x \in S, \A y \in S : x >= y PROVE x = m
    <3>1. x >= m /\ x <= m /\ x \in Nat /\ m \in Nat
      BY <1>4, <2>1
    <3> QED
      BY <3>1
  <2> QED
    BY <2>1
<1>6. \A y \in S : m >= y
  <2>1. ASSUME NEW y \in S PROVE m >= y
    <3>1. y <= m /\ y \in Nat /\ m \in Nat
      BY <1>4
    <3> QED
      BY <3>1
  <2> QED
    BY <2>1
<1>7. Pager!Max(S) = m
  BY <1>5, <1>6 DEF Pager!Max
<1> QED
  BY <1>4, <1>7

\* The numbers of lines before two positions.
LEMMA LinesAreCounted ==
    ASSUME NEW a \in Int, NEW b \in Int
    PROVE  IsFiniteSet(Pager!NewLines(a, b)) /\ Pager!Cardinality(Pager!NewLines(a, b)) \in Nat
<1>1. Pager!NewLines(a, b) \in SUBSET (a .. b)
  BY DEF Pager!NewLines
<1>2. IsFiniteSet(a .. b)
  BY FS_Interval, SameCount
<1>3. IsFiniteSet(Pager!NewLines(a, b))
  BY <1>1, <1>2, FS_Subset, SameCount
<1> QED
  BY <1>3, FS_CardinalityType, SameCount

LEMMA LineCounted == ASSUME NEW p \in Int PROVE Pager!LineOf(p) \in Nat
BY LinesAreCounted DEF Pager!LineOf

LEMMA LinesGrow ==
    ASSUME NEW p \in Nat, NEW q \in Nat, p < q, doc.text[q] = NL
    PROVE  Pager!LineOf(p) < Pager!LineOf(q)
<1>1. Pager!NewLines(0, p - 1) \in SUBSET Pager!NewLines(0, q - 1)
  BY DEF Pager!NewLines
<1>2. q - 1 \in Pager!NewLines(0, q - 1) /\ q - 1 \notin Pager!NewLines(0, p - 1)
  BY DEF Pager!NewLines
<1>3. IsFiniteSet(Pager!NewLines(0, q - 1))
  BY LinesAreCounted
<1>4. Pager!LineOf(p) <= Pager!LineOf(q) /\ Pager!LineOf(p) # Pager!LineOf(q)
  BY <1>1, <1>2, <1>3, FS_Subset, SameCount DEF Pager!LineOf
<1> QED
  BY <1>4, LineCounted

LEMMA LineOfStarts ==
    ASSUME NEW p, IsStart(p), Len(doc.text) \in Nat, Pager!Terminated
    PROVE  /\ p \in Nat /\ p <= Pager!End /\ Pager!LineOf(p) \in Nat /\ IsStart(0) /\ IsStart(Pager!End)
           /\ Pager!LineOf(0) = 0 /\ Pager!Lines \in Nat \ {0} /\ Pager!End \in Nat \ {0}
           /\ p = 0 <=> Pager!LineOf(p) = 0
           /\ p = Pager!End <=> Pager!LineOf(p) = Pager!Lines
           /\ Pager!LineOf(p) <= Pager!Lines
<1>1. /\ p \in Nat /\ p <= Pager!End /\ Pager!End \in Nat \ {0}
      /\ doc.text[Pager!End] = NL /\ (p = 0 \/ doc.text[p] = NL)
  BY DEF IsStart, Pager!Terminated, Pager!End
<1>2. IsStart(0) /\ IsStart(Pager!End)
  BY <1>1 DEF IsStart
<1>3. Pager!LineOf(0) = 0
  <2>1. Pager!NewLines(0, 0 - 1) = {}
    BY DEF Pager!NewLines
  <2> QED
    BY <2>1, FS_EmptySet, SameCount DEF Pager!LineOf
<1>4. Pager!LineOf(p) \in Nat /\ Pager!LineOf(Pager!End) \in Nat /\ Pager!Lines = Pager!LineOf(Pager!End)
  BY <1>1, LineCounted DEF Pager!Lines
<1>5. p < Pager!End => Pager!LineOf(p) < Pager!Lines
  BY <1>1, <1>4, LinesGrow
<1>6. 0 < p => 0 < Pager!LineOf(p)
  BY <1>1, <1>3, LinesGrow
<1>7. Pager!LineOf(0) < Pager!LineOf(Pager!End)
  BY <1>1, LinesGrow
<1> QED
  BY <1>1, <1>2, <1>3, <1>4, <1>5, <1>6, <1>7

LEMMA StartsAreLines ==
    ASSUME NEW p, NEW q, IsStart(p), IsStart(q), Pager!LineOf(p) = Pager!LineOf(q), Len(doc.text) \in Nat
    PROVE  p = q
<1>1. p \in Nat /\ q \in Nat /\ (p = 0 \/ doc.text[p] = NL) /\ (q = 0 \/ doc.text[q] = NL)
  BY DEF IsStart, Pager!End
<1>2. Pager!LineOf(p) \in Nat /\ Pager!LineOf(q) \in Nat
  BY <1>1, LineCounted
<1>3. ~ p < q /\ ~ q < p
  BY <1>1, <1>2, LinesGrow
<1> QED
  BY <1>1, <1>3

\* The end of the line at p, and the start of the line before it.
LEMMA NextLine ==
    ASSUME NEW p, IsStart(p), p # Pager!End, Len(doc.text) \in Nat, Pager!Terminated
    PROVE  /\ Pager!NewLines(p, Pager!End - 1) # {}
           /\ IsStart(Pager!Min(Pager!NewLines(p, Pager!End - 1)) + 1)
           /\ Pager!LineOf(Pager!Min(Pager!NewLines(p, Pager!End - 1)) + 1) = Pager!LineOf(p) + 1
<1>1. p \in Nat /\ p < Pager!End /\ Pager!End \in Nat /\ doc.text[Pager!End] = NL
  BY DEF IsStart, Pager!Terminated, Pager!End
<1>2. PICK S : S = Pager!NewLines(p, Pager!End - 1)
  OBVIOUS
<1>3. Pager!End - 1 \in S /\ S \subseteq Nat
  BY <1>1, <1>2 DEF Pager!NewLines
<1>4. PICK m : m = Pager!Min(S)
  OBVIOUS
<1>5. m \in S /\ \A n \in S : m <= n
  BY <1>3, <1>4, LeastExists
<1>6. m \in p .. Pager!End - 1 /\ doc.text[m + 1] = NL
  BY <1>2, <1>5 DEF Pager!NewLines
<1>7. IsStart(m + 1)
  BY <1>1, <1>6 DEF IsStart
<1>8. Pager!NewLines(0, m) = Pager!NewLines(0, p - 1) \cup {m}
  <2>1. ASSUME NEW i, i \in Pager!NewLines(0, m), i # m PROVE i \in Pager!NewLines(0, p - 1)
    <3>1. i \in 0 .. m /\ doc.text[i + 1] = NL /\ i # m
      BY <2>1 DEF Pager!NewLines
    <3>2. i \notin S
      BY <1>1, <1>5, <1>6, <3>1
    <3>3. i < p
      BY <1>1, <1>2, <1>6, <3>1, <3>2 DEF Pager!NewLines
    <3> QED
      BY <1>1, <3>1, <3>3 DEF Pager!NewLines
  <2>2. ASSUME NEW i \in Pager!NewLines(0, p - 1) PROVE i \in Pager!NewLines(0, m)
    BY <1>1, <1>6 DEF Pager!NewLines
  <2>3. m \in Pager!NewLines(0, m)
    BY <1>1, <1>6 DEF Pager!NewLines
  <2> QED
    BY <2>1, <2>2, <2>3
<1>9. m \notin Pager!NewLines(0, p - 1)
  BY <1>1, <1>6 DEF Pager!NewLines
<1>10. Pager!LineOf(m + 1) = Pager!LineOf(p) + 1
  <2>1. (m + 1) - 1 = m
    BY <1>1, <1>6
  <2>2. IsFiniteSet(Pager!NewLines(0, p - 1))
    BY <1>1, LinesAreCounted
  <2> QED
    BY <1>8, <1>9, <2>1, <2>2, FS_AddElement, SameCount DEF Pager!LineOf
<1> QED
  BY <1>2, <1>3, <1>4, <1>7, <1>10

LEMMA LineAbove ==
    ASSUME NEW p, IsStart(p), p # 0, Len(doc.text) \in Nat
    PROVE  /\ Pager!NewLines(0, p - 2) = {} <=> Pager!LineOf(p) = 1
           /\ Pager!NewLines(0, p - 2) # {} =>
                 /\ IsStart(Pager!Max(Pager!NewLines(0, p - 2)) + 1)
                 /\ Pager!LineOf(Pager!Max(Pager!NewLines(0, p - 2)) + 1) = Pager!LineOf(p) - 1
           /\ Pager!LineOf(p) \in Nat \ {0}
<1>1. p \in Nat \ {0} /\ p <= Pager!End /\ Pager!End \in Nat /\ doc.text[p] = NL
  BY DEF IsStart, Pager!End
<1>2. PICK S : S = Pager!NewLines(0, p - 2)
  OBVIOUS
<1>3. Pager!NewLines(0, p - 1) = S \cup {p - 1} /\ p - 1 \notin S
  BY <1>1, <1>2 DEF Pager!NewLines
<1>4. IsFiniteSet(S) /\ Pager!Cardinality(S) \in Nat
  BY <1>1, <1>2, LinesAreCounted
<1>5. Pager!LineOf(p) = Pager!Cardinality(S) + 1
  BY <1>3, <1>4, FS_AddElement, SameCount DEF Pager!LineOf
<1>6. Pager!Cardinality(S) = 0 <=> S = {}
  BY <1>4, FS_EmptySet, SameCount
<1>7. ASSUME S # {}
      PROVE  IsStart(Pager!Max(S) + 1) /\ Pager!LineOf(Pager!Max(S) + 1) = Pager!LineOf(p) - 1
  <2>1. S \subseteq 0 .. p - 2
    BY <1>2 DEF Pager!NewLines
  <2>2. p - 2 \in Nat
    <3>1. PICK i \in S : TRUE
      BY <1>7
    <3>2. i \in 0 .. p - 2
      BY <2>1
    <3> QED
      BY <1>1, <3>2
  <2>3. PICK m : m = Pager!Max(S)
    OBVIOUS
  <2>4. m \in S /\ \A n \in S : n <= m
    BY <1>7, <2>1, <2>2, <2>3, GreatestExists
  <2>5. m \in 0 .. p - 2 /\ doc.text[m + 1] = NL
    BY <1>2, <2>4 DEF Pager!NewLines
  <2>6. IsStart(m + 1)
    BY <1>1, <2>2, <2>5 DEF IsStart
  <2>7. Pager!NewLines(0, m) = S
    <3>1. \A i \in S : i \in 0 .. m
      BY <2>1, <2>4, <2>5
    <3> QED
      BY <1>1, <1>2, <2>5, <3>1 DEF Pager!NewLines
  <2>8. (m + 1) - 1 = m
    BY <2>5
  <2>9. Pager!LineOf(m + 1) = Pager!Cardinality(S)
    BY <2>7, <2>8 DEF Pager!LineOf
  <2> QED
    BY <1>4, <1>5, <2>3, <2>6, <2>9
<1> QED
  BY <1>2, <1>4, <1>5, <1>6, <1>7

-----------------------------------------------------------------------------
\* A place in the text, as the line it is at; the end counts as a line when it
\* has been reached.
TextGiven == Len(doc.text) \in Nat /\ Pager!Terminated
Place(s) ==
    IsStart(s.page) /\ s.begin \in BOOLEAN /\ s.end \in BOOLEAN /\ (s.end => s.page = Pager!End)
Reached(s) == Pager!LineOf(s.page) + One(s.end)
Yes == TRUE
No == FALSE

LEMMA AtParts ==
    \A p, b, e : Pager!At(p, b, e).page = p /\ Pager!At(p, b, e).begin = b /\ Pager!At(p, b, e).end = e
BY DEF Pager!At

LEMMA PlaceReached ==
    ASSUME TextGiven, NEW s, Place(s)
    PROVE  /\ Reached(s) \in 0 .. Pager!Lines + 1 /\ Pager!Lines \in Nat \ {0}
           /\ s.end <=> Reached(s) = Pager!Lines + 1
           /\ ~ s.end => Reached(s) = Pager!LineOf(s.page)
           /\ Reached(s) = 0 <=> s.page = 0
<1>1. /\ Pager!LineOf(s.page) \in Nat /\ Pager!LineOf(s.page) <= Pager!Lines /\ Pager!Lines \in Nat \ {0}
      /\ s.page = 0 <=> Pager!LineOf(s.page) = 0
      /\ s.page = Pager!End <=> Pager!LineOf(s.page) = Pager!Lines
  BY LineOfStarts DEF Place, TextGiven
<1>2. CASE s.end
  <2>1. Reached(s) = Pager!LineOf(s.page) + 1 /\ Pager!LineOf(s.page) = Pager!Lines
    BY <1>1, <1>2 DEF Reached, One, Place
  <2> QED
    BY <1>1, <1>2, <2>1
<1>3. CASE ~ s.end
  <2>1. Reached(s) = Pager!LineOf(s.page) + 0
    BY <1>3 DEF Reached, One
  <2> QED
    BY <1>1, <1>3, <2>1
<1> QED
  BY <1>2, <1>3

LEMMA GotLine ==
    ASSUME TextGiven, NEW s, IsStart(s.page), s.begin \in BOOLEAN
    PROVE  LET r == Pager!get_line(s)
           IN  Place(r) /\ r.begin = s.begin /\ Reached(r) = Pager!LineOf(s.page) + 1
<1> DEFINE r == Pager!get_line(s)
<1>1. /\ Pager!LineOf(s.page) \in Nat /\ IsStart(Pager!End)
      /\ s.page = Pager!End <=> Pager!LineOf(s.page) = Pager!Lines
      /\ s.page \in Nat /\ s.page <= Pager!End /\ Pager!End \in Nat
  BY LineOfStarts DEF TextGiven
<1>2. CASE s.page = Pager!End
  <2>1. Pager!NewLines(s.page, Pager!End - 1) = {}
    BY <1>1, <1>2 DEF Pager!NewLines
  <2>2. r = Pager!At(Pager!End, s.begin, Yes)
    BY <2>1, Zenon DEF Pager!get_line, Yes
  <2>3. r.page = Pager!End /\ r.begin = s.begin /\ r.end = Yes
    <3> HIDE DEF r
    <3> QED
      BY <2>2, AtParts
  <2>4. r.end /\ r.end \in BOOLEAN
    BY <2>3, Zenon DEF Yes
  <2> HIDE DEF r
  <2>5. Reached(r) = Pager!LineOf(Pager!End) + 1
    BY <2>3, <2>4 DEF Reached, One
  <2> QED
    BY <1>1, <1>2, <2>3, <2>4, <2>5 DEF Place, r
<1>3. CASE s.page # Pager!End
  <2>1. PICK m : m = Pager!Min(Pager!NewLines(s.page, Pager!End - 1)) + 1
    OBVIOUS
  <2>2. Pager!NewLines(s.page, Pager!End - 1) # {} /\ IsStart(m) /\ Pager!LineOf(m) = Pager!LineOf(s.page) + 1
    BY <1>3, <2>1, NextLine DEF TextGiven
  <2>3. r = Pager!At(m, s.begin, No)
    BY <2>1, <2>2, Zenon DEF Pager!get_line, No
  <2>4. r.page = m /\ r.begin = s.begin /\ r.end = No
    <3> HIDE DEF r
    <3> QED
      BY <2>3, AtParts
  <2>5. ~ r.end /\ r.end \in BOOLEAN
    BY <2>4, Zenon DEF No
  <2> HIDE DEF r
  <2>6. Reached(r) = Pager!LineOf(m)
    BY <1>1, <2>2, <2>4, <2>5 DEF Reached, One
  <2> QED
    BY <1>1, <2>2, <2>4, <2>5, <2>6 DEF Place, r
<1> QED
  BY <1>2, <1>3

\* One step back from a place that is not known to be the first.
LEMMA WentBack ==
    ASSUME TextGiven, NEW s, Place(s)
    PROVE  LET r == Pager!BackOne(s)
           IN  /\ Place(r)
               /\ s.begin => r = s
               /\ ~ s.begin => /\ Reached(r) = IF Reached(s) > 0 THEN Reached(s) - 1 ELSE 0
                               /\ r.begin <=> Reached(s) <= 1
<1> DEFINE r == Pager!BackOne(s)
<1>1. /\ Pager!LineOf(s.page) \in Nat /\ Pager!Lines \in Nat \ {0}
      /\ s.page = 0 <=> Pager!LineOf(s.page) = 0
      /\ s.page = Pager!End <=> Pager!LineOf(s.page) = Pager!Lines
      /\ s.page \in Nat /\ s.page <= Pager!End /\ Pager!End \in Nat \ {0} /\ IsStart(0) /\ Pager!LineOf(0) = 0
  BY LineOfStarts DEF TextGiven, Place
<1>2. s.begin \in BOOLEAN /\ s.end \in BOOLEAN /\ (s.end => s.page = Pager!End) /\ IsStart(s.page)
  BY DEF Place
<1>3. CASE s.begin
  BY <1>3 DEF Pager!BackOne
<1>4. CASE ~ s.begin /\ s.page = Pager!End /\ s.end
  <2>1. r = Pager!At(s.page, No, No)
    BY <1>4, Zenon DEF Pager!BackOne, No
  <2>2. r.page = s.page /\ r.begin = No /\ r.end = No
    <3> HIDE DEF r
    <3> QED
      BY <2>1, AtParts
  <2>3. ~ r.end /\ r.end \in BOOLEAN /\ ~ r.begin /\ r.begin \in BOOLEAN
    BY <2>2, Zenon DEF No
  <2> HIDE DEF r
  <2>4. Reached(r) = Pager!LineOf(s.page) /\ Reached(s) = Pager!LineOf(s.page) + 1
    BY <1>1, <1>4, <2>2, <2>3 DEF Reached, One
  <2>5. Place(r)
    BY <1>2, <2>2, <2>3 DEF Place
  <2> QED
    BY <1>1, <1>4, <2>3, <2>4, <2>5 DEF r
<1>5. CASE ~ s.begin /\ s.page = 0
  <2>1. ~ s.end
    BY <1>1, <1>2, <1>5
  <2>2. r = Pager!At(0, Yes, s.end)
    BY <1>5, <2>1, Zenon DEF Pager!BackOne, Yes
  <2>3. r.page = 0 /\ r.begin = Yes /\ r.end = s.end
    <3> HIDE DEF r
    <3> QED
      BY <2>2, AtParts
  <2>4. ~ r.end /\ r.end \in BOOLEAN /\ r.begin /\ r.begin \in BOOLEAN
    BY <1>2, <2>1, <2>3, Zenon DEF Yes
  <2> HIDE DEF r
  <2>5. Reached(r) = 0 /\ Reached(s) = 0
    BY <1>1, <1>5, <2>1, <2>3, <2>4 DEF Reached, One
  <2>6. Place(r)
    BY <1>1, <2>3, <2>4 DEF Place
  <2> QED
    BY <1>5, <2>4, <2>5, <2>6 DEF r
<1>6. CASE ~ s.begin /\ s.page # 0 /\ ~ s.end
  <2>1. r = Pager!LineBefore(s)
    BY <1>6, Zenon DEF Pager!BackOne
  <2>2. PICK m : m = Pager!Max(Pager!NewLines(0, s.page - 2)) + 1
    OBVIOUS
  <2>3. /\ Pager!NewLines(0, s.page - 2) = {} <=> Pager!LineOf(s.page) = 1
        /\ Pager!NewLines(0, s.page - 2) # {} => IsStart(m) /\ Pager!LineOf(m) = Pager!LineOf(s.page) - 1
        /\ Pager!LineOf(s.page) \in Nat \ {0}
    BY <1>2, <1>6, <2>2, LineAbove DEF TextGiven
  <2>4. Reached(s) = Pager!LineOf(s.page)
    BY <1>1, <1>6 DEF Reached, One
  <2>5. CASE Pager!NewLines(0, s.page - 2) = {}
    <3>1. r = Pager!At(0, Yes, s.end)
      BY <2>1, <2>5, Zenon DEF Pager!LineBefore, Yes
    <3>2. r.page = 0 /\ r.begin = Yes /\ r.end = s.end
      <4> HIDE DEF r
      <4> QED
        BY <3>1, AtParts
    <3>3. ~ r.end /\ r.end \in BOOLEAN /\ r.begin /\ r.begin \in BOOLEAN
      BY <1>2, <1>6, <3>2, Zenon DEF Yes
    <3> HIDE DEF r
    <3>4. Reached(r) = 0
      BY <1>1, <3>2, <3>3 DEF Reached, One
    <3>5. Place(r)
      BY <1>1, <3>2, <3>3 DEF Place
    <3> QED
      BY <1>6, <2>3, <2>4, <2>5, <3>3, <3>4, <3>5 DEF r
  <2>6. CASE Pager!NewLines(0, s.page - 2) # {}
    <3>1. r = Pager!At(m, No, s.end)
      BY <2>1, <2>2, <2>6, Zenon DEF Pager!LineBefore, No
    <3>2. r.page = m /\ r.begin = No /\ r.end = s.end
      <4> HIDE DEF r
      <4> QED
        BY <3>1, AtParts
    <3>3. ~ r.end /\ r.end \in BOOLEAN /\ ~ r.begin /\ r.begin \in BOOLEAN
      BY <1>2, <1>6, <3>2, Zenon DEF No
    <3> HIDE DEF r
    <3>4. Reached(r) = Pager!LineOf(s.page) - 1
      BY <2>3, <2>6, <3>2, <3>3 DEF Reached, One
    <3>5. Place(r)
      BY <2>3, <2>6, <3>2, <3>3 DEF Place
    <3> QED
      BY <1>6, <2>3, <2>4, <2>6, <3>3, <3>4, <3>5 DEF r
  <2> QED
    BY <2>5, <2>6
<1> QED
  BY <1>2, <1>3, <1>4, <1>5, <1>6

\* Steps in one direction are a recursive function, which is there whatever the
\* steps are.
WalkStep(forward, s) == IF forward = 1 THEN Pager!get_line(s) ELSE Pager!BackOne(s)
IsWalk(f, forward, s, n) == f = [k \in 0 .. n |-> IF k = 0 THEN s ELSE WalkStep(forward, f[k - 1])]

LEMMA WalksExist ==
    ASSUME NEW forward, NEW s, NEW m \in Nat
    PROVE  \E f : IsWalk(f, forward, s, m)
<1> DEFINE missing == {n \in Nat : ~ \E f : IsWalk(f, forward, s, n)}
<1>1. SUFFICES ASSUME missing # {} PROVE FALSE
  OBVIOUS
<1>2. PICK n \in missing : \A o \in missing : n <= o
  BY <1>1, FirstExists
<1>3. n \in Nat
  OBVIOUS
<1>4. n # 0
  <2>1. SUFFICES ASSUME n = 0 PROVE FALSE
    OBVIOUS
  <2> DEFINE f == [k \in 0 .. n |-> s]
  <2>2. \A k \in 0 .. n : k = 0
    BY <2>1
  <2>3. f = [k \in 0 .. n |-> IF k = 0 THEN s ELSE WalkStep(forward, f[k - 1])]
    BY <2>2
  <2> QED
    BY <1>2, <2>3, Zenon DEF IsWalk
<1>5. n - 1 \in Nat /\ ~ n <= n - 1
  BY <1>3, <1>4
<1>6. n - 1 \notin missing
  BY <1>2, <1>5
<1>7. PICK g : IsWalk(g, forward, s, n - 1)
  BY <1>5, <1>6
<1>8. g = [k \in 0 .. n - 1 |-> IF k = 0 THEN s ELSE WalkStep(forward, g[k - 1])]
  BY <1>7 DEF IsWalk
<1> DEFINE f == [k \in 0 .. n |-> IF k = n THEN WalkStep(forward, g[n - 1]) ELSE g[k]]
<1>9. ASSUME NEW k \in 0 .. n PROVE f[k] = IF k = 0 THEN s ELSE WalkStep(forward, f[k - 1])
  <2>1. CASE k = 0
    BY <1>3, <1>4, <1>8, <2>1
  <2>2. CASE k # 0 /\ k # n
    <3>1. k \in 0 .. n - 1 /\ k - 1 \in 0 .. n /\ k - 1 # n
      BY <1>3, <2>2
    <3>2. g[k] = WalkStep(forward, g[k - 1])
      BY <1>8, <2>2, <3>1
    <3> QED
      BY <2>2, <3>1, <3>2
  <2>3. CASE k = n
    <3>1. k - 1 \in 0 .. n /\ k - 1 # n /\ k # 0
      BY <1>3, <1>4, <2>3
    <3> QED
      BY <2>3, <3>1
  <2> QED
    BY <2>1, <2>2, <2>3
<1>10. f = [k \in 0 .. n |-> IF k = 0 THEN s ELSE WalkStep(forward, f[k - 1])]
  <2>1. f = [k \in 0 .. n |-> f[k]]
    OBVIOUS
  <2> HIDE DEF f
  <2> QED
    BY <1>9, <2>1
<1> QED
  BY <1>2, <1>10, Zenon DEF IsWalk

LEMMA WalksSteps ==
    ASSUME NEW forward, NEW s, NEW n \in Nat, NEW f, IsWalk(f, forward, s, n)
    PROVE  f[0] = s /\ \A k \in 1 .. n : f[k] = WalkStep(forward, f[k - 1])
<1>1. 0 \in 0 .. n /\ \A k \in 1 .. n : k \in 0 .. n /\ k # 0
  OBVIOUS
<1>2. f = [k \in 0 .. n |-> IF k = 0 THEN s ELSE WalkStep(forward, f[k - 1])]
  BY DEF IsWalk
<1> QED
  BY <1>1, <1>2

LEMMA LinesAreSteps ==
    ASSUME NEW s, NEW n \in Nat
    PROVE  \E f : IsWalk(f, 1, s, n) /\ Pager!Times(Pager!get_line, s, n) = f[n]
<1> DEFINE t == CHOOSE u : u = [k \in 0 .. n |-> IF k = 0 THEN s ELSE Pager!get_line(u[k - 1])]
<1>1. PICK f : IsWalk(f, 1, s, n)
  BY WalksExist
<1>2. f = [k \in 0 .. n |-> IF k = 0 THEN s ELSE Pager!get_line(f[k - 1])]
  BY <1>1 DEF IsWalk, WalkStep
<1>3. t = [k \in 0 .. n |-> IF k = 0 THEN s ELSE Pager!get_line(t[k - 1])]
  BY <1>2, Zenon
<1>4. Pager!Times(Pager!get_line, s, n) = t[n]
  BY Zenon DEF Pager!Times
<1> HIDE DEF t
<1>5. IsWalk(t, 1, s, n)
  BY <1>3 DEF IsWalk, WalkStep
<1> QED
  BY <1>4, <1>5

LEMMA BackIsSteps ==
    ASSUME NEW s, NEW n \in Nat
    PROVE  \E f : IsWalk(f, 0, s, n) /\ Pager!Times(Pager!BackOne, s, n) = f[n]
<1> DEFINE t == CHOOSE u : u = [k \in 0 .. n |-> IF k = 0 THEN s ELSE Pager!BackOne(u[k - 1])]
<1>1. PICK f : IsWalk(f, 0, s, n)
  BY WalksExist
<1>2. f = [k \in 0 .. n |-> IF k = 0 THEN s ELSE Pager!BackOne(f[k - 1])]
  BY <1>1 DEF IsWalk, WalkStep
<1>3. t = [k \in 0 .. n |-> IF k = 0 THEN s ELSE Pager!BackOne(t[k - 1])]
  BY <1>2, Zenon
<1>4. Pager!Times(Pager!BackOne, s, n) = t[n]
  BY Zenon DEF Pager!Times
<1> HIDE DEF t
<1>5. IsWalk(t, 0, s, n)
  BY <1>3 DEF IsWalk, WalkStep
<1> QED
  BY <1>4, <1>5

\* n lines on, or the end.
LEMMA GotLines ==
    ASSUME TextGiven, NEW s, IsStart(s.page), s.begin \in BOOLEAN, NEW n \in Nat \ {0}
    PROVE  LET r == Pager!Times(Pager!get_line, s, n)
           IN  /\ Place(r) /\ r.begin = s.begin
               /\ Reached(r) = Least(Pager!LineOf(s.page) + n, Pager!Lines + 1)
<1>1. PICK f : IsWalk(f, 1, s, n) /\ Pager!Times(Pager!get_line, s, n) = f[n]
  BY LinesAreSteps
<1>2. f[0] = s /\ \A k \in 1 .. n : f[k] = Pager!get_line(f[k - 1])
  BY <1>1, WalksSteps DEF WalkStep
<1>3. PICK from, all : from = Pager!LineOf(s.page) /\ all = Pager!Lines
  OBVIOUS
<1>4. from \in Nat /\ all \in Nat \ {0} /\ from <= all
  BY <1>3, LineOfStarts DEF TextGiven
<1> DEFINE Good(k) == /\ Place(f[k]) /\ f[k].begin = s.begin
                      /\ Reached(f[k]) = Least(from + k, all + 1)
           bad == {k \in 1 .. n : ~ Good(k)}
<1>5. bad = {}
  <2>1. SUFFICES ASSUME bad # {} PROVE FALSE
    OBVIOUS
  <2>2. bad \subseteq Nat
    OBVIOUS
  <2>3. PICK k \in bad : \A o \in bad : k <= o
    BY <2>1, <2>2, FirstExists
  <2>4. k \in 1 .. n /\ k \in Nat
    OBVIOUS
  <2>5. PICK p : p = f[k - 1]
    OBVIOUS
  <2>6. f[k] = Pager!get_line(p)
    BY <1>2, <2>4, <2>5
  <2>7. CASE k = 1
    <3>1. p = s
      BY <1>2, <2>5, <2>7
    <3>2. Place(f[k]) /\ f[k].begin = s.begin /\ Reached(f[k]) = from + 1
      BY <1>3, <2>6, <3>1, GotLine
    <3>3. Least(from + k, all + 1) = from + 1
      BY <1>4, <2>7 DEF Least
    <3> QED
      BY <2>3, <3>2, <3>3
  <2>8. CASE k # 1
    <3>1. k - 1 \in 1 .. n /\ ~ k <= k - 1
      BY <2>4, <2>8
    <3>2. k - 1 \notin bad
      BY <2>3, <3>1
    <3>3. Good(k - 1)
      BY <3>1, <3>2
    <3>4. Place(p) /\ p.begin = s.begin /\ Reached(p) = Least(from + (k - 1), all + 1)
      BY <2>5, <3>3
    <3>5. IsStart(p.page) /\ p.begin \in BOOLEAN
      BY <3>4 DEF Place
    <3>6. Place(f[k]) /\ f[k].begin = s.begin /\ Reached(f[k]) = Pager!LineOf(p.page) + 1
      BY <2>6, <3>4, <3>5, GotLine
    <3>7. /\ p.end <=> Reached(p) = all + 1
          /\ ~ p.end => Reached(p) = Pager!LineOf(p.page)
          /\ p.end => Pager!LineOf(p.page) = all
      <4>1. /\ p.end <=> Reached(p) = Pager!Lines + 1
            /\ ~ p.end => Reached(p) = Pager!LineOf(p.page)
        BY <3>4, PlaceReached
      <4>2. p.end => p.page = Pager!End
        BY <3>4 DEF Place
      <4>3. p.page = Pager!End <=> Pager!LineOf(p.page) = Pager!Lines
        BY <3>5, LineOfStarts DEF TextGiven
      <4> QED
        BY <1>3, <4>1, <4>2, <4>3
    <3>8. Pager!LineOf(p.page) + 1 = Least(from + k, all + 1)
      <4>1. PICK x, y : x = Pager!LineOf(p.page) /\ y = Reached(p)
        OBVIOUS
      <4>2. /\ y = IF from + (k - 1) < all + 1 THEN from + (k - 1) ELSE all + 1
            /\ (y = all + 1 /\ x = all) \/ (y # all + 1 /\ x = y)
        BY <3>4, <3>7, <4>1 DEF Least
      <4>3. x + 1 = IF from + k < all + 1 THEN from + k ELSE all + 1
        BY <1>4, <2>4, <4>2
      <4> QED
        BY <4>1, <4>3 DEF Least
    <3> QED
      BY <2>3, <3>6, <3>8
  <2> QED
    BY <2>7, <2>8
<1>6. n \in 1 .. n
  OBVIOUS
<1>7. Good(n)
  BY <1>5, <1>6
<1> QED
  BY <1>1, <1>3, <1>7

\* n lines back, or the start, which is marked if a step led to it.
LEMMA WentBackLines ==
    ASSUME TextGiven, NEW s, Place(s), ~ s.begin, NEW n \in Nat
    PROVE  LET r == Pager!Times(Pager!BackOne, s, n)
           IN  /\ Place(r)
               /\ Reached(r) = IF Reached(s) > n THEN Reached(s) - n ELSE 0
               /\ r.begin <=> n > 0 /\ Reached(s) <= n
<1>1. PICK f : IsWalk(f, 0, s, n) /\ Pager!Times(Pager!BackOne, s, n) = f[n]
  BY BackIsSteps
<1>2. f[0] = s /\ \A k \in 1 .. n : f[k] = Pager!BackOne(f[k - 1])
  BY <1>1, WalksSteps DEF WalkStep
<1>3. PICK from : from = Reached(s)
  OBVIOUS
<1>4. from \in Nat
  BY <1>3, PlaceReached
<1> DEFINE Good(k) == /\ Place(f[k]) /\ Reached(f[k]) = IF from > k THEN from - k ELSE 0
                      /\ f[k].begin <=> k > 0 /\ from <= k
           bad == {k \in 0 .. n : ~ Good(k)}
<1>5. bad = {}
  <2>1. SUFFICES ASSUME bad # {} PROVE FALSE
    OBVIOUS
  <2>2. bad \subseteq Nat
    OBVIOUS
  <2>3. PICK k \in bad : \A o \in bad : k <= o
    BY <2>1, <2>2, FirstExists
  <2>4. k \in 0 .. n /\ k \in Nat
    OBVIOUS
  <2>5. CASE k = 0
    <3>1. (IF from > k THEN from - k ELSE 0) = from
      BY <1>4, <2>5
    <3>2. f[k] = s
      BY <1>2, <2>5
    <3> QED
      BY <1>3, <2>3, <2>5, <3>1, <3>2
  <2>6. CASE k # 0
    <3>1. k - 1 \in 0 .. n /\ k \in 1 .. n /\ ~ k <= k - 1
      BY <2>4, <2>6
    <3>2. k - 1 \notin bad
      BY <2>3, <3>1
    <3>3. Good(k - 1)
      BY <3>1, <3>2
    <3>4. PICK p : p = f[k - 1]
      OBVIOUS
    <3>5. f[k] = Pager!BackOne(p)
      BY <1>2, <3>1, <3>4
    <3>6. /\ Place(p) /\ Reached(p) = IF from > k - 1 THEN from - (k - 1) ELSE 0
          /\ p.begin <=> k - 1 > 0 /\ from <= k - 1
      BY <3>3, <3>4
    <3>7. /\ Place(f[k]) /\ (p.begin => f[k] = p)
          /\ ~ p.begin => /\ Reached(f[k]) = IF Reached(p) > 0 THEN Reached(p) - 1 ELSE 0
                          /\ f[k].begin <=> Reached(p) <= 1
      BY <3>5, <3>6, WentBack
    <3>8. CASE p.begin
      <4>1. from <= k - 1
        BY <3>6, <3>8
      <4>2. ~ from > k - 1 /\ ~ from > k /\ from <= k /\ k > 0
        BY <1>4, <2>4, <2>6, <4>1
      <4> QED
        BY <2>3, <3>6, <3>7, <3>8, <4>2
    <3>9. CASE ~ p.begin
      <4>1. PICK x, y : x = Reached(p) /\ y = Reached(f[k])
        OBVIOUS
      <4>2. /\ x = IF from > k - 1 THEN from - (k - 1) ELSE 0
            /\ y = IF x > 0 THEN x - 1 ELSE 0
            /\ ~ (k - 1 > 0 /\ from <= k - 1)
        BY <3>6, <3>7, <3>9, <4>1
      <4>3. /\ y = IF from > k THEN from - k ELSE 0
            /\ x <= 1 <=> k > 0 /\ from <= k
        BY <1>4, <2>4, <2>6, <4>2
      <4> QED
        BY <2>3, <3>7, <3>9, <4>1, <4>3
    <3> QED
      BY <3>8, <3>9
  <2> QED
    BY <2>5, <2>6
<1>6. n \in 0 .. n
  OBVIOUS
<1>7. Good(n)
  BY <1>5, <1>6
<1> QED
  BY <1>1, <1>3, <1>7

LEMMA NoLines == ASSUME NEW s PROVE Pager!Times(Pager!get_line, s, 0) = s
<1>1. PICK f : IsWalk(f, 1, s, 0) /\ Pager!Times(Pager!get_line, s, 0) = f[0]
  BY LinesAreSteps
<1> QED
  BY <1>1, WalksSteps

LEMMA BackLines ==
    ASSUME TextGiven, NEW s, IsStart(s.page), s.end \in BOOLEAN, s.end => s.page = Pager!End, NEW n \in Nat
    PROVE  LET r == Pager!back_lines(s, n)
           IN  /\ Place(r)
               /\ Reached(r) = IF Reached(s) > n THEN Reached(s) - n ELSE 0
               /\ r.begin <=> n > 0 /\ Reached(s) <= n
<1>1. PICK p : p = Pager!At(s.page, No, s.end)
  OBVIOUS
<1>2. p.page = s.page /\ p.begin = No /\ p.end = s.end
  BY <1>1, AtParts
<1>3. ~ p.begin /\ p.begin \in BOOLEAN
  BY <1>2, Zenon DEF No
<1>4. Place(p) /\ Reached(p) = Reached(s)
  BY <1>2, <1>3 DEF Place, Reached
<1>5. Pager!back_lines(s, n) = Pager!Times(Pager!BackOne, p, n)
  BY <1>1, Zenon DEF Pager!back_lines, No
<1>6. PICK r : r = Pager!Times(Pager!BackOne, p, n)
  OBVIOUS
<1>7. /\ Place(r) /\ Reached(r) = IF Reached(p) > n THEN Reached(p) - n ELSE 0
      /\ r.begin <=> n > 0 /\ Reached(p) <= n
  BY <1>3, <1>4, <1>6, WentBackLines
<1> QED
  BY <1>4, <1>5, <1>6, <1>7

\* The results of a search are moved down to fill the window.
Shown(height, line) == IF search THEN Least(line, HighestStart(height)) ELSE line

LEMMA FilledIs ==
    ASSUME TextGiven, NEW height \in Nat \ {0}, search \in BOOLEAN,
           NEW s, IsStart(s.page), s.begin \in BOOLEAN, s.begin <=> s.page = 0
    PROVE  LET r == Pager!Filled(height, s)
           IN  /\ IsStart(r.page) /\ r.begin \in BOOLEAN /\ (r.begin <=> r.page = 0)
               /\ Pager!LineOf(r.page) = Shown(height, Pager!LineOf(s.page))
<1>1. CASE ~ search
  BY <1>1 DEF Pager!Filled, Shown
<1>2. CASE search
  <2>1. PICK g : g = Pager!Times(Pager!get_line, s, height)
    OBVIOUS
  <2>2. Place(g) /\ Reached(g) = Least(Pager!LineOf(s.page) + height, Pager!Lines + 1)
    BY <2>1, GotLines
  <2>3. IsStart(g.page) /\ g.end \in BOOLEAN /\ (g.end => g.page = Pager!End)
    BY <2>2 DEF Place
  <2>4. PICK r : r = Pager!back_lines(g, height)
    OBVIOUS
  <2>5. Pager!Filled(height, s) = r
    BY <1>2, <2>1, <2>4 DEF Pager!Filled
  <2>6. /\ Place(r) /\ Reached(r) = IF Reached(g) > height THEN Reached(g) - height ELSE 0
        /\ r.begin <=> height > 0 /\ Reached(g) <= height
    BY <2>3, <2>4, BackLines
  <2>7. IsStart(r.page) /\ r.begin \in BOOLEAN
    BY <2>6 DEF Place
  <2>8. /\ Pager!Lines \in Nat \ {0}
        /\ ~ r.end => Reached(r) = Pager!LineOf(r.page)
        /\ r.end <=> Reached(r) = Pager!Lines + 1
        /\ Reached(r) = 0 <=> r.page = 0
    BY <2>6, PlaceReached
  <2>9. Pager!LineOf(s.page) \in Nat /\ Pager!LineOf(s.page) <= Pager!Lines
    BY LineOfStarts DEF TextGiven
  <2>10. PICK x, y, all, line :
            x = Reached(g) /\ y = Reached(r) /\ all = Pager!Lines /\ line = Pager!LineOf(s.page)
    OBVIOUS
  <2>11. /\ x = IF line + height < all + 1 THEN line + height ELSE all + 1
         /\ y = IF x > height THEN x - height ELSE 0
         /\ line \in Nat /\ all \in Nat \ {0} /\ line <= all
    BY <2>2, <2>6, <2>8, <2>9, <2>10 DEF Least
  <2>12. /\ x <= height <=> y = 0
         /\ y # all + 1
         /\ y = Least(line, IF all + 1 > height THEN all + 1 - height ELSE 0)
    BY <2>11 DEF Least
  <2>13. Pager!LineOf(r.page) = y /\ (r.begin <=> y = 0)
    BY <2>6, <2>8, <2>10, <2>12
  <2>14. Shown(height, line) = Least(line, IF all + 1 > height THEN all + 1 - height ELSE 0)
    BY <1>2, <2>10 DEF Shown, HighestStart
  <2> QED
    BY <2>5, <2>7, <2>8, <2>10, <2>12, <2>13, <2>14
<1> QED
  BY <1>1, <1>2

LEMMA LengthIs ==
    ASSUME TextGiven, NEW height \in Nat \ {0}, NEW s, IsStart(s.page), s.begin \in BOOLEAN
    PROVE  /\ Pager!LengthFrom(height, s) = Least(height, Pager!Lines + 1 - Pager!LineOf(s.page))
           /\ Pager!LengthFrom(height, s) \in Nat \ {0}
<1>1. PICK all, line : all = Pager!Lines /\ line = Pager!LineOf(s.page)
  OBVIOUS
<1>2. line \in Nat /\ all \in Nat \ {0} /\ line <= all
  BY <1>1, LineOfStarts DEF TextGiven
<1>3. ASSUME NEW k \in 1 .. height PROVE Pager!Times(Pager!get_line, s, k).end <=> k >= all + 1 - line
  <2>1. PICK r : r = Pager!Times(Pager!get_line, s, k)
    OBVIOUS
  <2>2. Place(r) /\ Reached(r) = Least(line + k, all + 1)
    BY <1>1, <2>1, GotLines
  <2>3. r.end <=> Reached(r) = all + 1
    BY <1>1, <2>2, PlaceReached
  <2>4. Least(line + k, all + 1) = all + 1 <=> k >= all + 1 - line
    BY <1>2 DEF Least
  <2> QED
    BY <2>1, <2>2, <2>3, <2>4
<1>4. PICK S : S = {k \in 1 .. height : Pager!Times(Pager!get_line, s, k).end}
  OBVIOUS
<1>5. \A k : k \in S <=> k \in 1 .. height /\ k >= all + 1 - line
  BY <1>3, <1>4
<1>6. Pager!LengthFrom(height, s) = IF S = {} THEN height ELSE Pager!Min(S)
  BY <1>4, Zenon DEF Pager!LengthFrom
<1>7. PICK m : m = Pager!Min(S)
  OBVIOUS
<1>8. S # {} => m = all + 1 - line /\ m <= height
  <2>1. SUFFICES ASSUME S # {} PROVE m = all + 1 - line /\ m <= height
    OBVIOUS
  <2>2. S \subseteq Nat
    BY <1>5
  <2>3. m \in S /\ \A n \in S : m <= n
    BY <1>7, <2>1, <2>2, LeastExists
  <2>4. m \in 1 .. height /\ m >= all + 1 - line
    BY <1>5, <2>3
  <2>5. all + 1 - line \in S
    BY <1>2, <1>5, <2>4
  <2>6. m <= all + 1 - line
    BY <2>3, <2>5
  <2> QED
    BY <1>2, <2>4, <2>6
<1>9. S = {} => height < all + 1 - line
  <2>1. height \in 1 .. height
    OBVIOUS
  <2>2. height >= all + 1 - line => height \in S
    BY <1>5, <2>1
  <2> QED
    BY <1>2, <2>2
<1>10. Pager!LengthFrom(height, s) = IF height < all + 1 - line THEN height ELSE all + 1 - line
  <2>1. CASE S = {}
    BY <1>6, <1>9, <2>1
  <2>2. CASE S # {}
    <3>1. Pager!LengthFrom(height, s) = all + 1 - line /\ all + 1 - line <= height
      BY <1>6, <1>7, <1>8, <2>2
    <3> QED
      BY <1>2, <3>1
  <2> QED
    BY <2>1, <2>2
<1> QED
  BY <1>1, <1>2, <1>10 DEF Least

-----------------------------------------------------------------------------
\* The digits.  The entries on a page are a run of numbers.
LEMMA DigitsDiffer ==
    ASSUME NEW e \in Nat \ {0}, NEW f \in Nat \ {0}, e < f, f - e < JUMP_NB
    PROVE  Pager!Digit(e) # Pager!Digit(f) /\ Pager!Digit(e) # 0 /\ Pager!Digit(f) # 0
<1>1. PICK j : j = JUMP_NB
  OBVIOUS
<1>2. j \in Nat \ {0}
  BY <1>1, PagerAssumption
<1> DEFINE q == (e - 1) \div j
           r == (f - 1) \div j
<1>3. /\ q \in Int /\ r \in Int
      /\ e - 1 = j * q + ((e - 1) % j) /\ f - 1 = j * r + ((f - 1) % j)
      /\ (e - 1) % j \in 0 .. j - 1 /\ (f - 1) % j \in 0 .. j - 1
  BY <1>2
<1> HIDE DEF q, r
<1>4. (e - 1) % j # (f - 1) % j
  <2>1. SUFFICES ASSUME (e - 1) % j = (f - 1) % j PROVE FALSE
    OBVIOUS
  <2>2. f - e = j * r - j * q
    <3>1. PICK x, y, z : x = j * q /\ y = j * r /\ z = (e - 1) % j
      OBVIOUS
    <3>2. e - 1 = x + z /\ f - 1 = y + z /\ x \in Int /\ y \in Int /\ z \in Int
      BY <1>2, <1>3, <2>1, <3>1
    <3>3. f - e = y - x
      BY <3>2
    <3> QED
      BY <3>1, <3>3
  <2>3. j * r - j * q = j * (r - q)
    BY <1>2, <1>3
  <2>4. r - q \in Int /\ (r - q <= 0 \/ r - q >= 1)
    BY <1>3
  <2>5. PICK d : d = r - q
    OBVIOUS
  <2>6. d <= 0 => j * d <= 0
    BY <1>2, <2>4, <2>5
  <2>7. d >= 1 => j * d >= j
    BY <1>2, <2>4, <2>5
  <2>8. f - e = j * d /\ f - e > 0 /\ f - e < j /\ j * d \in Int /\ f - e \in Int
    BY <1>1, <1>2, <2>2, <2>3, <2>4, <2>5
  <2> QED
    BY <1>2, <2>4, <2>5, <2>6, <2>7, <2>8
<1> QED
  BY <1>1, <1>3, <1>4 DEF Pager!Digit

EntriesGiven ==
    /\ doc.entries \in Seq(Nat)
    /\ \A e, f \in DOMAIN doc.entries : e < f => doc.entries[e] <= doc.entries[f]

LEMMA NumberedIs ==
    ASSUME EntriesGiven, NEW a \in Nat, NEW b \in Nat, NEW e \in Pager!OnPage(a, b)
    PROVE  \E first \in Pager!OnPage(a, b) :
              /\ first \in Nat \ {0} /\ first <= e /\ e \in Nat
              /\ \A f \in Nat : first <= f /\ f <= e => f \in Pager!OnPage(a, b)
              /\ \A f \in Pager!OnPage(a, b) : f \in Nat \ {0} /\ first <= f
              /\ \A f \in Pager!OnPage(a, b) : f \in Pager!Numbered(a, b) <=> f - first < JUMP_NB
<1>1. PICK S, s : S = Pager!OnPage(a, b) /\ s = doc.entries
  OBVIOUS
<1>2. s \in Seq(Nat) /\ \A x, y \in DOMAIN s : x < y => s[x] <= s[y]
  BY <1>1 DEF EntriesGiven
<1>3. \A x : x \in S <=> x \in DOMAIN s /\ a <= s[x] /\ s[x] < b
  BY <1>1 DEF Pager!OnPage
<1>4. DOMAIN s = 1 .. Len(s) /\ Len(s) \in Nat /\ \A x \in DOMAIN s : s[x] \in Nat
  BY <1>2
<1>5. S \subseteq Nat /\ e \in S /\ 0 \notin S
  BY <1>1, <1>3, <1>4
<1>6. PICK first \in S : \A x \in S : first <= x
  BY <1>5, FirstExists
<1>7. ASSUME NEW x \in S, NEW f \in Nat, first <= f, f <= x PROVE f \in S
  <2>1. first \in DOMAIN s /\ x \in DOMAIN s /\ a <= s[first] /\ s[x] < b
    BY <1>3
  <2>2. f \in DOMAIN s
    BY <1>4, <1>7, <2>1
  <2>3. s[first] <= s[f] /\ s[f] <= s[x] /\ s[first] \in Nat /\ s[f] \in Nat /\ s[x] \in Nat
    <3>1. first < f \/ first = f
      BY <1>4, <1>7, <2>1, <2>2
    <3>2. f < x \/ f = x
      BY <1>4, <1>7, <2>1, <2>2
    <3>3. s[first] \in Nat /\ s[f] \in Nat /\ s[x] \in Nat
      BY <1>4, <2>1, <2>2
    <3>4. s[first] <= s[f]
      BY <1>2, <2>1, <2>2, <3>1, <3>3
    <3>5. s[f] <= s[x]
      BY <1>2, <2>1, <2>2, <3>2, <3>3
    <3> QED
      BY <3>3, <3>4, <3>5
  <2>4. a <= s[f] /\ s[f] < b
    BY <2>1, <2>3
  <2> QED
    BY <1>3, <2>2, <2>4
<1>8. ASSUME NEW f \in S PROVE f \in Pager!Numbered(a, b) <=> f - first < JUMP_NB
  <2>1. f \in Nat /\ first \in Nat /\ first <= f
    BY <1>5, <1>6
  <2>2. {o \in S : o < f} = first .. f - 1
    <3>1. \A o \in S : o < f => o \in first .. f - 1
      BY <1>5, <1>6, <2>1
    <3>2. \A o \in first .. f - 1 : o \in Nat /\ first <= o /\ o <= f /\ o < f
      BY <2>1
    <3>3. \A o \in first .. f - 1 : o \in S /\ o < f
      BY <1>7, <3>2
    <3> QED
      BY <3>1, <3>3
  <2>3. Pager!Cardinality(first .. f - 1) = f - first
    <3>1. Pager!Cardinality(first .. f - 1) = IF first > f - 1 THEN 0 ELSE (f - 1) - first + 1
      BY <2>1, FS_Interval, SameCount
    <3> QED
      BY <2>1, <3>1
  <2>4. f \in Pager!Numbered(a, b) <=> Pager!Cardinality({o \in S : o < f}) < JUMP_NB
    BY <1>1, Zenon DEF Pager!Numbered
  <2> QED
    BY <2>2, <2>3, <2>4
<1>9. \A f \in S : f \in Nat \ {0} /\ first <= f
  BY <1>5, <1>6
<1>10. \A f \in Nat : first <= f /\ f <= e => f \in S
  BY <1>5, <1>7
<1> QED
  BY <1>1, <1>5, <1>6, <1>8, <1>9, <1>10

LEMMA DigitsAreOnce ==
    ASSUME EntriesGiven, NEW a \in Nat, NEW b \in Nat,
           NEW e \in Pager!Numbered(a, b), NEW f \in Pager!Numbered(a, b)
    PROVE  Pager!Digit(e) # 0 /\ (Pager!Digit(e) = Pager!Digit(f) <=> e = f)
<1>1. e \in Pager!OnPage(a, b) /\ f \in Pager!OnPage(a, b)
  BY DEF Pager!Numbered
<1>2. PICK first \in Pager!OnPage(a, b) :
         /\ first \in Nat \ {0}
         /\ \A o \in Pager!OnPage(a, b) : o \in Nat \ {0} /\ first <= o
         /\ \A o \in Pager!OnPage(a, b) : o \in Pager!Numbered(a, b) <=> o - first < JUMP_NB
  BY <1>1, NumberedIs
<1>3. /\ e \in Nat \ {0} /\ f \in Nat \ {0} /\ first <= e /\ first <= f
      /\ e - first < JUMP_NB /\ f - first < JUMP_NB
  BY <1>1, <1>2
<1>4. JUMP_NB \in Nat
  BY PagerAssumption
<1>5. CASE e < f
  <2>1. f - e < JUMP_NB
    BY <1>2, <1>3, <1>4
  <2> QED
    BY <1>3, <1>5, <2>1, DigitsDiffer
<1>6. CASE f < e
  <2>1. e - f < JUMP_NB
    BY <1>2, <1>3, <1>4
  <2> QED
    BY <1>3, <1>6, <2>1, DigitsDiffer
<1>7. CASE e = f
  <2>1. Pager!Digit(e) # 0
    <3>1. JUMP_NB \in Nat \ {0}
      BY PagerAssumption
    <3>2. (e - 1) % JUMP_NB \in 0 .. JUMP_NB - 1
      BY <1>3, <3>1
    <3> QED
      BY <3>1, <3>2 DEF Pager!Digit
  <2> QED
    BY <1>7, <2>1
<1> QED
  BY <1>3, <1>5, <1>6, <1>7

LEMMA KeysAreCounted ==
    ASSUME EntriesGiven, NEW a \in Nat, NEW b \in Nat,
           NEW e \in Pager!OnPage(a, b), e \notin Pager!Numbered(a, b)
    PROVE  Pager!Cardinality({<<Pager!Digit(o), o>> : o \in Pager!Numbered(a, b)}) = JUMP_NB
<1>1. PICK first \in Pager!OnPage(a, b) :
         /\ first \in Nat \ {0} /\ first <= e /\ e \in Nat
         /\ \A f \in Nat : first <= f /\ f <= e => f \in Pager!OnPage(a, b)
         /\ \A f \in Pager!OnPage(a, b) : f \in Nat \ {0} /\ first <= f
         /\ \A f \in Pager!OnPage(a, b) : f \in Pager!Numbered(a, b) <=> f - first < JUMP_NB
  BY NumberedIs
<1>2. PICK j : j = JUMP_NB
  OBVIOUS
<1>3. j \in Nat \ {0}
  BY <1>2, PagerAssumption
<1>4. ~ e - first < j
  BY <1>1, <1>2
<1>5. Pager!Numbered(a, b) = first .. first + j - 1
  <2>1. ASSUME NEW f \in Pager!Numbered(a, b) PROVE f \in first .. first + j - 1
    <3>1. f \in Pager!OnPage(a, b)
      BY DEF Pager!Numbered
    <3>2. f \in Nat /\ first <= f /\ f - first < j
      BY <1>1, <1>2, <3>1
    <3> QED
      BY <1>1, <1>3, <3>2
  <2>2. ASSUME NEW f \in first .. first + j - 1 PROVE f \in Pager!Numbered(a, b)
    <3>1. f \in Nat /\ first <= f /\ f <= e /\ f - first < j
      BY <1>1, <1>3, <1>4
    <3>2. f \in Pager!OnPage(a, b)
      BY <1>1, <3>1
    <3> QED
      BY <1>1, <1>2, <3>1, <3>2
  <2> QED
    BY <2>1, <2>2
<1> DEFINE N == first .. first + j - 1
           K == {<<Pager!Digit(o), o>> : o \in N}
           g == [o \in N |-> <<Pager!Digit(o), o>>]
<1>6. IsFiniteSet(N) /\ Pager!Cardinality(N) = j
  <2>1. /\ IsFiniteSet(N)
        /\ Pager!Cardinality(N) = IF first > first + j - 1 THEN 0 ELSE (first + j - 1) - first + 1
    <3>1. first \in Int /\ first + j - 1 \in Int
      BY <1>1, <1>3
    <3> QED
      BY <3>1, FS_Interval, SameCount
  <2> QED
    BY <1>1, <1>3, <2>1
<1>7. g \in Surjection(N, K)
  BY DEF Surjection
<1>8. g \in Injection(N, K)
  BY DEF Injection, IsInjective
<1> HIDE DEF N, K, g
<1>9. Pager!Cardinality(K) = Pager!Cardinality(N)
  BY <1>6, <1>7, <1>8, FS_Surjection, SameCount
<1> QED
  BY <1>2, <1>5, <1>6, <1>9 DEF K, N

-----------------------------------------------------------------------------
\* What print_page() leaves.
LEMMA TextStays ==
    ASSUME doc' = doc, search' = search
    PROVE  /\ \A p : Pager!LineOf(p)' = Pager!LineOf(p) /\ IsStart(p)' = IsStart(p)
           /\ Pager!End' = Pager!End /\ Pager!Lines' = Pager!Lines
<1>1. Pager!End' = Pager!End
  BY DEF Pager!End
<1>2. \A p : Pager!NewLines(0, p - 1)' = Pager!NewLines(0, p - 1)
  BY DEF Pager!NewLines
<1>3. \A p : Pager!LineOf(p)' = Pager!LineOf(p)
  BY <1>2 DEF Pager!LineOf
<1>4. \A p : IsStart(p)' = IsStart(p)
  BY <1>1 DEF IsStart
<1>5. Pager!Lines' = Pager!Lines
  <2>1. Pager!NewLines(0, Pager!End - 1)' = Pager!NewLines(0, Pager!End - 1)
    BY <1>1 DEF Pager!NewLines
  <2> QED
    BY <2>1 DEF Pager!Lines, Pager!LineOf
<1> QED
  BY <1>1, <1>3, <1>4, <1>5

LEMMA ViewStays ==
    ASSUME doc' = doc, search' = search
    PROVE  /\ \A h, t, b, p, e, n : View(h, t, b, p, e, n)' <=> View(h, t, b, p, e, n)
           /\ View(boxh, top, begin_reached, page, end_reached, page_length)'
              <=> View(boxh', top', begin_reached', page', end_reached', page_length')
           /\ \A l : Pager!LineOf(top)' = l <=> Pager!LineOf(top') = l
<1>1. /\ \A p : Pager!LineOf(p)' = Pager!LineOf(p) /\ IsStart(p)' = IsStart(p)
      /\ Pager!End' = Pager!End /\ Pager!Lines' = Pager!Lines
  BY TextStays
<1>2. \A h, t, b, p, e, n : View(h, t, b, p, e, n)' <=> View(h, t, b, p, e, n)
  BY <1>1 DEF View, HighestStart, One, Least
<1>3. PICK h, t, b, p, e, n :
         /\ h = boxh' /\ t = top' /\ b = begin_reached' /\ p = page'
         /\ e = end_reached' /\ n = page_length'
  OBVIOUS
<1>4. View(boxh, top, begin_reached, page, end_reached, page_length)' <=> View(h, t, b, p, e, n)'
  BY <1>3
<1>5. View(boxh', top', begin_reached', page', end_reached', page_length') <=> View(h, t, b, p, e, n)
  BY <1>3
<1>6. Pager!LineOf(top)' = Pager!LineOf(t)' /\ Pager!LineOf(top') = Pager!LineOf(t)
  BY <1>3
<1> QED
  BY <1>1, <1>2, <1>4, <1>5, <1>6

LEMMA DigitsPrinted ==
    ASSUME EntriesGiven, search, doc' = doc, NEW a \in Nat, NEW b \in Nat,
           Pager!update_text(a, b), top' = a, page' = b
    PROVE  DigitsLead'
<1>1. PICK N, O : N = Pager!Numbered(a, b) /\ O = Pager!OnPage(a, b)
  OBVIOUS
<1>2. N \subseteq O /\ O \subseteq DOMAIN doc.entries
  BY <1>1 DEF Pager!Numbered, Pager!OnPage
<1>3. keys' = {<<Pager!Digit(e), e>> : e \in N}
  BY <1>1 DEF Pager!update_text
<1>4. ASSUME NEW e \in O PROVE header'[e] = IF e \in N THEN Pager!Digit(e) ELSE 0
  BY <1>1, <1>2 DEF Pager!update_text
<1>5. ASSUME NEW e \in DOMAIN doc.entries, a <= doc.entries[e], doc.entries[e] < b
      PROVE  /\ header'[e] # 0 => \A key \in keys' : key[1] = header'[e] <=> key[2] = e
             /\ header'[e] = 0 => Pager!Cardinality(keys') = JUMP_NB
  <2>1. e \in O
    BY <1>1, <1>5 DEF Pager!OnPage
  <2>2. CASE e \in N
    <3>1. header'[e] = Pager!Digit(e) /\ Pager!Digit(e) # 0
      BY <1>1, <1>4, <2>1, <2>2, DigitsAreOnce
    <3>2. ASSUME NEW key \in keys' PROVE key[1] = header'[e] <=> key[2] = e
      <4>1. PICK f \in N : key = <<Pager!Digit(f), f>>
        BY <1>3
      <4>2. Pager!Digit(f) = Pager!Digit(e) <=> f = e
        BY <1>1, <2>2, DigitsAreOnce
      <4> QED
        BY <3>1, <4>1, <4>2
    <3> QED
      BY <3>1, <3>2
  <2>3. CASE e \notin N
    <3>1. header'[e] = 0
      BY <1>4, <2>1, <2>3
    <3>2. Pager!Cardinality(keys') = JUMP_NB
      BY <1>1, <1>3, <2>1, <2>3, KeysAreCounted
    <3> QED
      BY <3>1, <3>2
  <2> QED
    BY <2>2, <2>3
<1> QED
  BY <1>5 DEF DigitsLead

Starts(s) == IsStart(s.page) /\ s.begin \in BOOLEAN /\ (s.begin <=> s.page = 0)

LEMMA Printed ==
    ASSUME TextGiven, EntriesGiven, search \in BOOLEAN, doc' = doc, search' = search,
           NEW height \in Nat \ {0}, NEW s, Starts(s), Pager!print_page(height, s)
    PROVE  /\ View(height, top', begin_reached', page', end_reached', page_length')
           /\ search => DigitsLead'
           /\ Pager!LineOf(top') = Shown(height, Pager!LineOf(s.page))
<1>1. PICK r : r = Pager!Filled(height, s)
  OBVIOUS
<1>2. PICK g : g = Pager!Times(Pager!get_line, r, height)
  OBVIOUS
<1>3. /\ IsStart(r.page) /\ r.begin \in BOOLEAN /\ (r.begin <=> r.page = 0)
      /\ Pager!LineOf(r.page) = Shown(height, Pager!LineOf(s.page))
  BY <1>1, FilledIs DEF Starts
<1>4. Place(g) /\ Reached(g) = Least(Pager!LineOf(r.page) + height, Pager!Lines + 1)
  BY <1>2, <1>3, GotLines
<1>5. PICK n : n = Pager!LengthFrom(height, r)
  OBVIOUS
<1>6. n = Least(height, Pager!Lines + 1 - Pager!LineOf(r.page)) /\ n \in Nat \ {0}
  BY <1>3, <1>5, LengthIs
<1>7. /\ Pager!update_text(r.page, g.page)
      /\ top' = r.page /\ begin_reached' = r.begin
      /\ page' = g.page /\ end_reached' = g.end /\ page_length' = n
  BY <1>1, <1>2, <1>5, Zenon DEF Pager!print_page
<1>8. IsStart(g.page) /\ g.end \in BOOLEAN /\ (g.end => g.page = Pager!End)
  BY <1>4 DEF Place
<1>9. /\ r.page \in Nat /\ Pager!LineOf(r.page) \in Nat /\ Pager!LineOf(r.page) <= Pager!Lines
      /\ Pager!Lines \in Nat \ {0} /\ g.page \in Nat /\ Pager!LineOf(s.page) \in Nat
  BY <1>3, <1>8, LineOfStarts DEF TextGiven, Starts
<1>10. Pager!LineOf(g.page) + One(g.end) = Pager!LineOf(r.page) + n
  <2>1. PICK line, all : line = Pager!LineOf(r.page) /\ all = Pager!Lines
    OBVIOUS
  <2>2. /\ Reached(g) = IF line + height < all + 1 THEN line + height ELSE all + 1
        /\ n = IF height < all + 1 - line THEN height ELSE all + 1 - line
    BY <1>4, <1>6, <2>1 DEF Least
  <2>3. Reached(g) = line + n
    BY <1>9, <2>1, <2>2
  <2> QED
    BY <2>1, <2>3 DEF Reached
<1>11. search => Pager!LineOf(r.page) <= HighestStart(height)
  <2>1. ASSUME search PROVE Pager!LineOf(r.page) <= HighestStart(height)
    <3>1. Pager!LineOf(r.page) = Least(Pager!LineOf(s.page), HighestStart(height))
      BY <1>3, <2>1 DEF Shown
    <3>2. HighestStart(height) \in Nat
      BY <1>9 DEF HighestStart
    <3> QED
      BY <1>9, <3>1, <3>2 DEF Least
  <2> QED
    BY <2>1
<1>12. View(height, r.page, r.begin, g.page, g.end, n)
  BY <1>3, <1>6, <1>8, <1>10, <1>11 DEF View
<1>13. search => DigitsLead'
  BY <1>7, <1>9, DigitsPrinted
<1> QED
  BY <1>3, <1>7, <1>12, <1>13

-----------------------------------------------------------------------------
\* The keys.  The window ends at the line after the last it shows, or, with the
\* end on the screen, behind the last line.
TextShows == View(boxh, top, begin_reached, page, end_reached, page_length)
TextShowsNext == View(boxh', top', begin_reached', page', end_reached', page_length')

LEMMA WindowIs ==
    ASSUME TextGiven, PagerGiven, TextShows
    PROVE  /\ IsStart(top) /\ begin_reached \in BOOLEAN /\ (begin_reached <=> Pager!LineOf(top) = 0)
           /\ IsStart(page) /\ end_reached \in BOOLEAN /\ (end_reached => page = Pager!End)
           /\ Pager!LineOf(top) \in Nat /\ Pager!LineOf(top) <= Pager!Lines /\ Pager!Lines \in Nat \ {0}
           /\ boxh \in Nat \ {0} /\ page_length \in Nat \ {0}
           /\ page_length = Least(boxh, Pager!Lines + 1 - Pager!LineOf(top))
           /\ Pager!LineOf(page) + One(end_reached) = Pager!LineOf(top) + page_length
           /\ end_reached <=> Pager!LineOf(top) + boxh > Pager!Lines
           /\ ~ end_reached => page_length = boxh /\ Pager!LineOf(page) = Pager!LineOf(top) + boxh
           /\ search => Pager!LineOf(top) <= HighestStart(boxh)
<1>1. /\ IsStart(top) /\ begin_reached \in BOOLEAN /\ (begin_reached <=> top = 0)
      /\ IsStart(page) /\ end_reached \in BOOLEAN /\ (end_reached => page = Pager!End)
      /\ page_length = Least(boxh, Pager!Lines + 1 - Pager!LineOf(top))
      /\ Pager!LineOf(page) + One(end_reached) = Pager!LineOf(top) + page_length
      /\ boxh \in Nat \ {0} /\ page_length \in Nat \ {0}
      /\ search => Pager!LineOf(top) <= HighestStart(boxh)
  BY DEF TextShows, View, PagerGiven
<1>2. /\ Pager!LineOf(top) \in Nat /\ Pager!LineOf(top) <= Pager!Lines /\ Pager!Lines \in Nat \ {0}
      /\ top = 0 <=> Pager!LineOf(top) = 0
  BY <1>1, LineOfStarts DEF TextGiven
<1>3. /\ Pager!LineOf(page) \in Nat /\ Pager!LineOf(page) <= Pager!Lines
      /\ page = Pager!End <=> Pager!LineOf(page) = Pager!Lines
  BY <1>1, LineOfStarts DEF TextGiven
<1>4. PICK line, all, to, n, h :
         /\ line = Pager!LineOf(top) /\ all = Pager!Lines /\ to = Pager!LineOf(page)
         /\ n = page_length /\ h = boxh
  OBVIOUS
<1>5. n = IF h < all + 1 - line THEN h ELSE all + 1 - line
  BY <1>1, <1>4 DEF Least
<1>6. CASE end_reached
  <2>1. to = all /\ to + 1 = line + n
    BY <1>1, <1>3, <1>4, <1>6 DEF One
  <2>2. line + h > all
    BY <1>1, <1>2, <1>3, <1>4, <1>5, <2>1
  <2> QED
    BY <1>1, <1>2, <1>4, <1>6, <2>2
<1>7. CASE ~ end_reached
  <2>1. to = line + n /\ to <= all
    <3>1. to + 0 = line + n
      BY <1>1, <1>4, <1>7 DEF One
    <3> QED
      BY <1>3, <1>4, <3>1
  <2>2. n = h /\ ~ line + h > all
    BY <1>1, <1>2, <1>3, <1>4, <1>5, <2>1
  <2> QED
    BY <1>1, <1>2, <1>4, <1>7, <2>1, <2>2
<1> QED
  BY <1>6, <1>7

\* Back from the end of the window.
LEMMA BackFromNow ==
    ASSUME TextGiven, PagerGiven, TextShows, NEW n \in Nat, n > 0 \/ ~ end_reached
    PROVE  \E r : /\ r = Pager!back_lines(Pager!Now, n) /\ Starts(r)
                  /\ Pager!LineOf(r.page) = IF Pager!LineOf(top) + page_length > n
                                      THEN Pager!LineOf(top) + page_length - n ELSE 0
<1>1. PICK m : m = Pager!Now
  OBVIOUS
<1>2. m.page = page /\ m.end = end_reached
  <2>1. PICK p, b, e : p = page /\ b = begin_reached /\ e = end_reached
    OBVIOUS
  <2>2. m = Pager!At(p, b, e)
    BY <1>1, <2>1, Zenon DEF Pager!Now
  <2> QED
    BY <2>1, <2>2, AtParts
<1>3. PICK from, all : from = Pager!LineOf(top) + page_length /\ all = Pager!Lines
  OBVIOUS
<1>4. /\ from \in Nat \ {0} /\ all \in Nat \ {0}
      /\ IsStart(m.page) /\ m.end \in BOOLEAN /\ (m.end => m.page = Pager!End)
      /\ Reached(m) = from
      /\ ~ end_reached => from <= all
      /\ from <= all + 1
  <2>1. Pager!LineOf(page) <= Pager!Lines /\ Pager!LineOf(page) \in Nat
    BY WindowIs, LineOfStarts DEF TextGiven
  <2>2. /\ Pager!LineOf(top) \in Nat /\ Pager!Lines \in Nat \ {0} /\ Pager!LineOf(top) <= Pager!Lines
        /\ boxh \in Nat \ {0}
    BY WindowIs
  <2>3. page_length = IF boxh < Pager!Lines + 1 - Pager!LineOf(top) THEN boxh
                      ELSE Pager!Lines + 1 - Pager!LineOf(top)
    BY WindowIs DEF Least
  <2>4. Reached(m) = from
    BY <1>2, <1>3, WindowIs DEF Reached
  <2>5. IsStart(m.page) /\ m.end \in BOOLEAN /\ (m.end => m.page = Pager!End)
    BY <1>2, WindowIs
  <2>6. ~ end_reached => from <= all
    BY <1>3, <2>1, WindowIs
  <2> QED
    BY <1>3, <2>2, <2>3, <2>4, <2>5, <2>6
<1>5. PICK r : r = Pager!back_lines(m, n)
  OBVIOUS
<1>6. Place(r) /\ Reached(r) = (IF from > n THEN from - n ELSE 0) /\ (r.begin <=> n > 0 /\ from <= n)
  BY <1>4, <1>5, BackLines
<1>7. /\ r.end <=> Reached(r) = all + 1
      /\ ~ r.end => Reached(r) = Pager!LineOf(r.page)
      /\ Reached(r) = 0 <=> r.page = 0
  BY <1>3, <1>6, PlaceReached
<1>8. ~ r.end
  BY <1>4, <1>6, <1>7
<1>9. r.page = 0 <=> from <= n
  BY <1>4, <1>6, <1>7
<1>10. r.begin <=> r.page = 0
  BY <1>4, <1>6, <1>9
<1>11. IsStart(r.page) /\ r.begin \in BOOLEAN
  BY <1>6 DEF Place
<1>12. Pager!LineOf(r.page) = IF from > n THEN from - n ELSE 0
  BY <1>6, <1>7, <1>8
<1>13. Starts(r)
  BY <1>10, <1>11 DEF Starts
<1>14. r = Pager!back_lines(Pager!Now, n)
  BY <1>1, <1>5
<1>15. Pager!LineOf(r.page) = IF Pager!LineOf(top) + page_length > n
                              THEN Pager!LineOf(top) + page_length - n ELSE 0
  <2>1. Pager!LineOf(top) \in Nat /\ page_length \in Nat
    BY WindowIs
  <2> QED
    BY <1>3, <1>4, <1>12, <2>1
<1> QED
  BY <1>13, <1>14, <1>15

LEMMA KeyShows ==
    ASSUME TextGiven, NEW s, Starts(s), Pager!Show(s), PagerGiven
    PROVE  TextShowsNext /\ (search => DigitsLead') /\ Pager!LineOf(top') = Shown(boxh, Pager!LineOf(s.page))
<1>1. PICK h : h = boxh
  OBVIOUS
<1>2. h \in Nat \ {0} /\ Pager!print_page(h, s) /\ boxh' = h /\ doc' = doc /\ search' = search
  BY <1>1, Zenon DEF Pager!Show, PagerGiven
<1>3. EntriesGiven /\ search \in BOOLEAN
  BY DEF EntriesGiven, PagerGiven
<1>4. /\ View(h, top', begin_reached', page', end_reached', page_length')
      /\ search => DigitsLead'
      /\ Pager!LineOf(top') = Shown(h, Pager!LineOf(s.page))
  BY <1>2, <1>3, Printed
<1> QED
  BY <1>1, <1>2, <1>4 DEF TextShowsNext

LEMMA BackShows ==
    ASSUME TextGiven, PagerGiven, TextShows, NEW n \in Nat, n > 0 \/ ~ end_reached,
           Pager!Show(Pager!back_lines(Pager!Now, n))
    PROVE  /\ TextShowsNext /\ (search => DigitsLead')
           /\ Pager!LineOf(top') = Shown(boxh, IF Pager!LineOf(top) + page_length > n
                                         THEN Pager!LineOf(top) + page_length - n ELSE 0)
<1>1. PICK r : /\ r = Pager!back_lines(Pager!Now, n) /\ Starts(r)
               /\ Pager!LineOf(r.page) = IF Pager!LineOf(top) + page_length > n
                                         THEN Pager!LineOf(top) + page_length - n ELSE 0
  BY BackFromNow
<1>2. Pager!Show(r)
  BY <1>1
<1> QED
  BY <1>1, <1>2, KeyShows

LEMMA LineUpShows ==
    ASSUME TextGiven, PagerGiven, TextShows, Pager!LineUp
    PROVE  TextShowsNext /\ (search => DigitsLead') /\ Pager!LineOf(top') = Pager!LineOf(top) - 1
<1>1. PICK n, line, h : n = page_length + 1 /\ line = Pager!LineOf(top) /\ h = boxh
  OBVIOUS
<1>2. n \in Nat \ {0} /\ line \in Nat \ {0} /\ page_length = n - 1 /\ (search => line <= HighestStart(h))
  BY <1>1, WindowIs DEF Pager!LineUp
<1>3. Pager!Show(Pager!back_lines(Pager!Now, n))
  BY <1>1, Zenon DEF Pager!LineUp
<1>4. /\ TextShowsNext /\ (search => DigitsLead')
      /\ Pager!LineOf(top') = Shown(h, IF line + page_length > n THEN line + page_length - n ELSE 0)
  BY <1>1, <1>2, <1>3, BackShows
<1>5. (IF line + page_length > n THEN line + page_length - n ELSE 0) = line - 1
  BY <1>2
<1>6. Shown(h, line - 1) = line - 1
  <2>1. HighestStart(h) \in Nat
    BY <1>1, WindowIs DEF HighestStart
  <2> QED
    BY <1>2, <2>1 DEF Shown, Least
<1> QED
  BY <1>1, <1>4, <1>5, <1>6

LEMMA PageUpShows ==
    ASSUME TextGiven, PagerGiven, TextShows, Pager!PageUp
    PROVE  /\ TextShowsNext /\ (search => DigitsLead')
           /\ Pager!LineOf(top') = IF Pager!LineOf(top) > boxh THEN Pager!LineOf(top) - boxh ELSE 0
<1>1. PICK n, line, h : n = page_length + boxh /\ line = Pager!LineOf(top) /\ h = boxh
  OBVIOUS
<1>2. /\ n \in Nat \ {0} /\ line \in Nat /\ page_length = n - h /\ h \in Nat \ {0}
      /\ search => line <= HighestStart(h)
  BY <1>1, WindowIs
<1>3. Pager!Show(Pager!back_lines(Pager!Now, n))
  BY <1>1, Zenon DEF Pager!PageUp
<1>4. /\ TextShowsNext /\ (search => DigitsLead')
      /\ Pager!LineOf(top') = Shown(h, IF line + page_length > n THEN line + page_length - n ELSE 0)
  BY <1>1, <1>2, <1>3, BackShows
<1>5. PICK to : to = IF line > h THEN line - h ELSE 0
  OBVIOUS
<1>6. (IF line + page_length > n THEN line + page_length - n ELSE 0) = to
  BY <1>2, <1>5
<1>7. Shown(h, to) = to
  <2>1. HighestStart(h) \in Nat
    BY <1>1, WindowIs DEF HighestStart
  <2>2. to \in Nat /\ to <= line
    BY <1>2, <1>5
  <2> QED
    BY <1>2, <2>1, <2>2 DEF Shown, Least
<1> QED
  BY <1>1, <1>4, <1>5, <1>6, <1>7

LEMMA LineDownShows ==
    ASSUME TextGiven, PagerGiven, TextShows, Pager!LineDown
    PROVE  TextShowsNext /\ (search => DigitsLead') /\ Pager!LineOf(top') = Pager!LineOf(top) + 1
<1>1. PICK n, line, h, all : n = page_length - 1 /\ line = Pager!LineOf(top) /\ h = boxh /\ all = Pager!Lines
  OBVIOUS
<1>2. /\ n \in Nat /\ line \in Nat /\ page_length = n + 1 /\ h \in Nat \ {0} /\ all \in Nat
      /\ line + h <= all
  BY <1>1, WindowIs DEF Pager!LineDown
<1>3. Pager!Show(Pager!back_lines(Pager!Now, n)) /\ ~ end_reached
  BY <1>1, Zenon DEF Pager!LineDown
<1>4. /\ TextShowsNext /\ (search => DigitsLead')
      /\ Pager!LineOf(top') = Shown(h, IF line + page_length > n THEN line + page_length - n ELSE 0)
  BY <1>1, <1>2, <1>3, BackShows
<1>5. (IF line + page_length > n THEN line + page_length - n ELSE 0) = line + 1
  BY <1>2
<1>6. Shown(h, line + 1) = line + 1
  <2>1. HighestStart(h) = all + 1 - h /\ line + 1 <= all + 1 - h
    BY <1>1, <1>2 DEF HighestStart
  <2> QED
    BY <1>2, <2>1 DEF Shown, Least
<1> QED
  BY <1>1, <1>4, <1>5, <1>6

LEMMA SidewaysShows ==
    ASSUME TextGiven, PagerGiven, TextShows, Pager!Sideways
    PROVE  TextShowsNext /\ (search => DigitsLead') /\ top' = top
<1>1. PICK n, line, h, t : n = page_length /\ line = Pager!LineOf(top) /\ h = boxh /\ t = top
  OBVIOUS
<1>2. /\ n \in Nat \ {0} /\ line \in Nat /\ h \in Nat \ {0} /\ IsStart(t)
      /\ search => line <= HighestStart(h)
  BY <1>1, WindowIs
<1>3. Pager!Show(Pager!back_lines(Pager!Now, n))
  BY <1>1, Zenon DEF Pager!Sideways
<1>4. /\ TextShowsNext /\ (search => DigitsLead')
      /\ Pager!LineOf(top') = Shown(h, IF line + page_length > n THEN line + page_length - n ELSE 0)
  BY <1>1, <1>2, <1>3, BackShows
<1>5. (IF line + page_length > n THEN line + page_length - n ELSE 0) = line
  BY <1>1, <1>2
<1>6. Shown(h, line) = line
  <2>1. HighestStart(h) \in Nat
    BY <1>1, WindowIs DEF HighestStart
  <2> QED
    BY <1>2, <2>1 DEF Shown, Least
<1>7. PICK u : u = top'
  OBVIOUS
<1>8. IsStart(u) /\ Pager!LineOf(u) = Pager!LineOf(t)
  BY <1>1, <1>4, <1>5, <1>6, <1>7 DEF TextShowsNext, View
<1>9. u = t
  BY <1>2, <1>8, StartsAreLines DEF TextGiven
<1> QED
  BY <1>1, <1>4, <1>7, <1>9

LEMMA PageDownShows ==
    ASSUME TextGiven, PagerGiven, TextShows, Pager!PageDown
    PROVE  /\ TextShowsNext /\ (search => DigitsLead')
           /\ Pager!LineOf(top') = Shown(boxh, Pager!LineOf(top) + page_length)
<1>1. PICK p, e : p = page /\ e = end_reached
  OBVIOUS
<1>2. PICK s : s = Pager!At(p, No, e)
  OBVIOUS
<1>3. s.page = p /\ s.begin = No
  BY <1>2, AtParts
<1>4. ~ s.begin /\ s.begin \in BOOLEAN
  BY <1>3, Zenon DEF No
<1>5. Pager!Show(s)
  BY <1>1, <1>2, Zenon DEF Pager!PageDown, No
<1>6. ~ end_reached
  BY Zenon DEF Pager!PageDown
<1>7. IsStart(p) /\ Pager!LineOf(p) = Pager!LineOf(top) + page_length /\ Pager!LineOf(p) \in Nat \ {0}
  <2>1. Pager!LineOf(p) = Pager!LineOf(top) + boxh /\ page_length = boxh /\ IsStart(p)
    BY <1>1, <1>6, WindowIs
  <2>2. Pager!LineOf(top) \in Nat /\ boxh \in Nat \ {0}
    BY WindowIs
  <2> QED
    BY <2>1, <2>2
<1>8. p # 0
  BY <1>7, LineOfStarts DEF TextGiven
<1>9. Starts(s)
  BY <1>3, <1>4, <1>7, <1>8 DEF Starts
<1> QED
  BY <1>3, <1>5, <1>7, <1>9, KeyShows

LEMMA HomeShows ==
    ASSUME TextGiven, PagerGiven, TextShows, Pager!Home
    PROVE  TextShowsNext /\ (search => DigitsLead')
<1>1. PICK e : e = end_reached
  OBVIOUS
<1>2. PICK s : s = Pager!At(0, Yes, e)
  OBVIOUS
<1>3. s.page = 0 /\ s.begin = Yes
  BY <1>2, AtParts
<1>4. s.begin /\ s.begin \in BOOLEAN
  BY <1>3, Zenon DEF Yes
<1>5. Pager!Show(s)
  BY <1>1, <1>2, Zenon DEF Pager!Home, Yes
<1>6. IsStart(0)
  BY WindowIs, LineOfStarts DEF TextGiven
<1>7. Starts(s)
  BY <1>3, <1>4, <1>6 DEF Starts
<1> QED
  BY <1>5, <1>7, KeyShows

LEMMA LastPageShows ==
    ASSUME TextGiven, PagerGiven, TextShows, Pager!LastPage
    PROVE  TextShowsNext /\ (search => DigitsLead')
<1>1. PICK p, b, h : p = Pager!End /\ b = begin_reached /\ h = boxh
  OBVIOUS
<1>2. PICK s : s = Pager!At(p, b, Yes)
  OBVIOUS
<1>3. s.page = p /\ s.end = Yes
  BY <1>2, AtParts
<1>4. s.end /\ s.end \in BOOLEAN
  BY <1>3, Zenon DEF Yes
<1>5. PICK r : r = Pager!back_lines(s, h)
  OBVIOUS
<1>6. Pager!Show(r)
  BY <1>1, <1>2, <1>5, Zenon DEF Pager!LastPage, Yes
<1>7. IsStart(s.page) /\ (s.end => s.page = Pager!End) /\ h \in Nat \ {0}
  BY <1>1, <1>3, WindowIs, LineOfStarts DEF TextGiven
<1>8. /\ Place(r) /\ Reached(r) = (IF Reached(s) > h THEN Reached(s) - h ELSE 0)
      /\ r.begin <=> h > 0 /\ Reached(s) <= h
  BY <1>4, <1>5, <1>7, BackLines
<1>9. /\ Reached(s) \in 0 .. Pager!Lines + 1 /\ Pager!Lines \in Nat \ {0} /\ (Reached(r) = 0 <=> r.page = 0)
  <2>1. Reached(s) = Pager!LineOf(s.page) + 1
    BY <1>4 DEF Reached, One
  <2>2. Pager!LineOf(s.page) = Pager!Lines /\ Pager!Lines \in Nat \ {0}
    BY <1>1, <1>3, <1>7, LineOfStarts DEF TextGiven
  <2>3. Reached(r) = 0 <=> r.page = 0
    BY <1>8, PlaceReached
  <2> QED
    BY <2>1, <2>2, <2>3
<1>10. r.begin <=> r.page = 0
  BY <1>7, <1>8, <1>9
<1>11. Starts(r)
  BY <1>8, <1>10 DEF Starts, Place
<1> QED
  BY <1>6, <1>11, KeyShows

LEMMA TextResizeShows ==
    ASSUME TextGiven, PagerGiven, TextShows, Pager!Resize
    PROVE  TextShowsNext /\ (search => DigitsLead') /\ boxh' \in Nat \ {0}
<1>1. PICK n : n = boxh + margin
  OBVIOUS
<1>2. n \in Nat \ {0}
  BY <1>1 DEF PagerGiven
<1>3. PICK h \in 1 .. PagerHeight \ {boxh} : boxh' = h /\ Pager!print_page(h, Pager!back_lines(Pager!Now, n))
  BY <1>1, Zenon DEF Pager!Resize
<1>4. h \in Nat \ {0}
  BY <1>3, PagerAssumption
<1>5. PICK r : r = Pager!back_lines(Pager!Now, n) /\ Starts(r)
  BY <1>2, BackFromNow
<1>6. Pager!print_page(h, r) /\ doc' = doc /\ search' = search
  BY <1>3, <1>5, Zenon DEF Pager!Resize
<1>7. EntriesGiven /\ search \in BOOLEAN
  BY DEF EntriesGiven, PagerGiven
<1>8. /\ View(h, top', begin_reached', page', end_reached', page_length')
      /\ search => DigitsLead'
  BY <1>4, <1>5, <1>6, <1>7, Printed
<1> QED
  BY <1>3, <1>4, <1>8 DEF TextShowsNext

\* The dialogue starts at the line it was left at.
LEMMA OpenShows ==
    ASSUME TextGiven, PagerGiven, vscroll \in 0 .. Pager!Lines, Pager!Open
    PROVE  TextShowsNext /\ (search => DigitsLead')
<1>1. PICK v, h, b : v = vscroll /\ h = boxh /\ b = (vscroll = 0)
  OBVIOUS
<1>2. v \in Nat /\ v <= Pager!Lines /\ h \in Nat \ {0} /\ b \in BOOLEAN /\ (b <=> v = 0)
  <2>1. Pager!Lines \in Nat
    BY LineCounted DEF Pager!Lines, Pager!End, TextGiven
  <2>2. v \in Nat /\ v <= Pager!Lines /\ h \in Nat \ {0}
    BY <1>1, <2>1 DEF PagerGiven
  <2>3. b \in BOOLEAN /\ (b <=> v = 0)
    BY <1>1, Zenon
  <2> QED
    BY <2>2, <2>3
<1>3. PICK a : a = Pager!At(0, b, No)
  OBVIOUS
<1>4. a.page = 0 /\ a.begin = b /\ a.end = No
  BY <1>3, AtParts
<1>5. IsStart(0) /\ Pager!LineOf(0) = 0 /\ Pager!Lines \in Nat \ {0}
  <2>1. IsStart(0)
    BY DEF IsStart, Pager!End, TextGiven
  <2> QED
    BY <2>1, LineOfStarts DEF TextGiven
<1>6. PICK s : s = Pager!Times(Pager!get_line, a, v)
  OBVIOUS
<1>7. Pager!print_page(h, s) /\ boxh' = h /\ doc' = doc /\ search' = search
  BY <1>1, <1>3, <1>6, Zenon DEF Pager!Open, No
<1>8. Starts(s)
  <2>1. CASE v = 0
    <3>1. s = a
      BY <1>6, <2>1, NoLines
    <3> QED
      BY <1>2, <1>4, <1>5, <2>1, <3>1 DEF Starts
  <2>2. CASE v # 0
    <3>1. Place(s) /\ s.begin = b /\ Reached(s) = Least(0 + v, Pager!Lines + 1)
      BY <1>2, <1>4, <1>5, <1>6, <2>2, GotLines
    <3>2. Reached(s) # 0
      BY <1>2, <1>5, <2>2, <3>1 DEF Least
    <3>3. s.page # 0
      BY <3>1, <3>2, PlaceReached
    <3> QED
      BY <1>2, <2>2, <3>1, <3>3 DEF Starts, Place
  <2> QED
    BY <2>1, <2>2
<1>9. EntriesGiven /\ search \in BOOLEAN
  BY DEF EntriesGiven, PagerGiven
<1>10. /\ View(h, top', begin_reached', page', end_reached', page_length')
       /\ search => DigitsLead'
  BY <1>2, <1>7, <1>8, <1>9, Printed
<1> QED
  BY <1>7, <1>10 DEF TextShowsNext

\* What a jump remembers is the line of the window.
LEMMA JumpRemembers ==
    ASSUME TextGiven, PagerGiven, TextShows, Pager!Jump
    PROVE  vscroll' = Pager!LineOf(top) /\ vscroll' \in 0 .. Pager!Lines
<1>1. PICK n : n = page_length
  OBVIOUS
<1>2. /\ n \in Nat \ {0} /\ page_length = n
      /\ Pager!LineOf(top) \in Nat /\ Pager!LineOf(top) <= Pager!Lines /\ Pager!Lines \in Nat
  BY <1>1, WindowIs
<1>3. PICK r : /\ r = Pager!back_lines(Pager!Now, n) /\ Starts(r)
               /\ Pager!LineOf(r.page) = IF Pager!LineOf(top) + page_length > n
                                         THEN Pager!LineOf(top) + page_length - n ELSE 0
  BY <1>2, BackFromNow
<1>4. vscroll' = Pager!Cardinality(Pager!NewLines(0, r.page - 1))
  BY <1>1, <1>3, Zenon DEF Pager!Jump
<1>5. vscroll' = Pager!LineOf(r.page)
  BY <1>4 DEF Pager!LineOf
<1>6. PICK line, length : line = Pager!LineOf(top) /\ length = page_length
  OBVIOUS
<1>7. Pager!LineOf(r.page) = IF line + length > n THEN line + length - n ELSE 0
  BY <1>2, <1>3, <1>6
<1>8. Pager!LineOf(r.page) = line
  BY <1>2, <1>6, <1>7
<1> QED
  BY <1>2, <1>5, <1>6, <1>8

-----------------------------------------------------------------------------
LEMMA GivenStays ==
    ASSUME PagerGiven, doc' = doc, search' = search, margin' = margin, boxh' \in Nat \ {0}
    PROVE  PagerGiven' /\ (Pager!Terminated' <=> Pager!Terminated) /\ EntriesGiven
<1>1. Pager!Terminated' <=> Pager!Terminated
  BY DEF Pager!Terminated, Pager!End
<1> QED
  BY <1>1 DEF PagerGiven, EntriesGiven

LEMMA InvFromShows ==
    ASSUME PagerInv, doc' = doc, search' = search, margin' = margin, vscroll' = vscroll,
           Pager!Terminated => boxh' \in Nat \ {0} /\ TextShowsNext /\ (search => DigitsLead'),
           boxh' \in Nat \ {0}
    PROVE  PagerInv'
<1>1. PagerGiven' /\ (Pager!Terminated' <=> Pager!Terminated)
  BY GivenStays DEF PagerInv
<1>2. ASSUME Pager!Terminated PROVE /\ (vscroll \in 0 .. Pager!Lines)'
                                    /\ View(boxh, top, begin_reached, page, end_reached, page_length)'
                                    /\ (search => DigitsLead)'
  <2>1. vscroll \in 0 .. Pager!Lines /\ Pager!Lines' = Pager!Lines
    BY <1>2, TextStays DEF PagerInv
  <2>2. View(boxh, top, begin_reached, page, end_reached, page_length)'
    BY <1>2, ViewStays DEF TextShowsNext
  <2> QED
    BY <1>2, <2>1, <2>2
<1> QED
  BY <1>1, <1>2 DEF PagerInv

LEMMA TextIsGiven == ASSUME PagerGiven, Pager!Terminated PROVE TextGiven
BY DEF PagerGiven, TextGiven

LEMMA PagerStep == ASSUME PagerInv, [Pager!Next]_pagerVars PROVE PagerInv'
<1>1. PagerGiven
  BY DEF PagerInv
<1>2. Pager!Terminated => TextGiven /\ vscroll \in 0 .. Pager!Lines /\ (t_open => TextShows)
  BY <1>1, TextIsGiven DEF PagerInv, TextShows
<1>3. boxh \in Nat \ {0}
  BY <1>1 DEF PagerGiven
<1>4. CASE Pager!Open
  <2>1. /\ doc' = doc /\ search' = search /\ margin' = margin /\ vscroll' = vscroll /\ boxh' = boxh
    BY <1>4, Zenon DEF Pager!Open
  <2>2. Pager!Terminated => TextShowsNext /\ (search => DigitsLead')
    BY <1>1, <1>2, <1>4, OpenShows
  <2> QED
    BY <1>3, <2>1, <2>2, InvFromShows
<1>5. ASSUME NEW s, Pager!Show(s), Pager!Terminated => TextShowsNext /\ (search => DigitsLead') PROVE PagerInv'
  <2>1. /\ doc' = doc /\ search' = search /\ margin' = margin /\ vscroll' = vscroll /\ boxh' = boxh
    BY <1>5, Zenon DEF Pager!Show
  <2> QED
    BY <1>3, <1>5, <2>1, InvFromShows
<1>6. CASE Pager!Home
  <2>1. PICK s : s = Pager!At(0, TRUE, end_reached)
    OBVIOUS
  <2>2. Pager!Show(s) /\ t_open
    BY <1>6, <2>1, Zenon DEF Pager!Home, Pager!Show
  <2> QED
    BY <1>1, <1>2, <1>5, <1>6, <2>2, HomeShows
<1>7. CASE Pager!LastPage
  <2>1. PICK s : s = Pager!back_lines(Pager!At(Pager!End, begin_reached, TRUE), boxh)
    OBVIOUS
  <2>2. Pager!Show(s) /\ t_open
    BY <1>7, <2>1, Zenon DEF Pager!LastPage, Pager!Show
  <2> QED
    BY <1>1, <1>2, <1>5, <1>7, <2>2, LastPageShows
<1>8. CASE Pager!LineUp
  <2>1. PICK s : s = Pager!back_lines(Pager!Now, page_length + 1)
    OBVIOUS
  <2>2. Pager!Show(s) /\ t_open
    BY <1>8, <2>1, Zenon DEF Pager!LineUp, Pager!Show
  <2> QED
    BY <1>1, <1>2, <1>5, <1>8, <2>2, LineUpShows
<1>9. CASE Pager!PageUp
  <2>1. PICK s : s = Pager!back_lines(Pager!Now, page_length + boxh)
    OBVIOUS
  <2>2. Pager!Show(s) /\ t_open
    BY <1>9, <2>1, Zenon DEF Pager!PageUp, Pager!Show
  <2> QED
    BY <1>1, <1>2, <1>5, <1>9, <2>2, PageUpShows
<1>10. CASE Pager!LineDown
  <2>1. PICK s : s = Pager!back_lines(Pager!Now, page_length - 1)
    OBVIOUS
  <2>2. Pager!Show(s) /\ t_open
    BY <1>10, <2>1, Zenon DEF Pager!LineDown, Pager!Show
  <2> QED
    BY <1>1, <1>2, <1>5, <1>10, <2>2, LineDownShows
<1>11. CASE Pager!PageDown
  <2>1. PICK s : s = Pager!At(page, FALSE, end_reached)
    OBVIOUS
  <2>2. Pager!Show(s) /\ t_open
    BY <1>11, <2>1, Zenon DEF Pager!PageDown, Pager!Show
  <2> QED
    BY <1>1, <1>2, <1>5, <1>11, <2>2, PageDownShows
<1>12. CASE Pager!Sideways
  <2>1. PICK s : s = Pager!back_lines(Pager!Now, page_length)
    OBVIOUS
  <2>2. Pager!Show(s) /\ t_open
    BY <1>12, <2>1, Zenon DEF Pager!Sideways, Pager!Show
  <2> QED
    BY <1>1, <1>2, <1>5, <1>12, <2>2, SidewaysShows
<1>13. CASE Pager!Resize
  <2>1. doc' = doc /\ search' = search /\ margin' = margin /\ vscroll' = vscroll /\ t_open
    BY <1>13, Zenon DEF Pager!Resize
  <2>2. boxh' \in Nat \ {0}
    <3>1. PICK h \in 1 .. PagerHeight \ {boxh} : boxh' = h
      BY <1>13, Zenon DEF Pager!Resize
    <3> QED
      BY <3>1, PagerAssumption
  <2>3. Pager!Terminated => TextShowsNext /\ (search => DigitsLead')
    BY <1>1, <1>2, <1>13, <2>1, TextResizeShows
  <2> QED
    BY <2>1, <2>2, <2>3, InvFromShows
<1>14. CASE Pager!Jump
  <2>1. t_open /\ t_open' = FALSE /\ doc' = doc /\ search' = search /\ margin' = margin /\ boxh' = boxh
    BY <1>14, Zenon DEF Pager!Jump
  <2>2. PagerGiven' /\ (Pager!Terminated' <=> Pager!Terminated)
    BY <1>1, <1>3, <2>1, GivenStays
  <2>3. Pager!Terminated => (vscroll \in 0 .. Pager!Lines)'
    BY <1>1, <1>2, <1>14, <2>1, JumpRemembers, TextStays
  <2> QED
    BY <2>1, <2>2, <2>3 DEF PagerInv
<1>15. CASE Pager!Leave
  <2>1. /\ t_open' = FALSE /\ doc' = doc /\ search' = search /\ margin' = margin /\ boxh' = boxh
        /\ vscroll' = 0
    BY <1>15, Zenon DEF Pager!Leave
  <2>2. PagerGiven' /\ (Pager!Terminated' <=> Pager!Terminated)
    BY <1>1, <1>3, <2>1, GivenStays
  <2>3. Pager!Terminated => (vscroll \in 0 .. Pager!Lines)'
    <3>1. Pager!Terminated => Pager!Lines \in Nat
      BY <1>2, LineCounted DEF Pager!Lines, Pager!End, TextGiven
    <3>2. Pager!Lines' = Pager!Lines
      BY <2>1, TextStays
    <3> QED
      BY <2>1, <3>1, <3>2
  <2> QED
    BY <2>1, <2>2, <2>3 DEF PagerInv
<1>16. CASE UNCHANGED pagerVars
  <2>1. /\ t_open' = t_open /\ doc' = doc /\ search' = search /\ margin' = margin /\ boxh' = boxh
        /\ vscroll' = vscroll /\ top' = top /\ begin_reached' = begin_reached /\ page' = page
        /\ end_reached' = end_reached /\ page_length' = page_length /\ keys' = keys /\ header' = header
    BY <1>16 DEF pagerVars
  <2>2. PagerGiven' /\ (Pager!Terminated' <=> Pager!Terminated)
    BY <1>1, <1>3, <2>1, GivenStays
  <2>3. Pager!Terminated => (vscroll \in 0 .. Pager!Lines)'
    BY <1>2, <2>1, TextStays
  <2>4. View(boxh, top, begin_reached, page, end_reached, page_length)'
           <=> View(boxh, top, begin_reached, page, end_reached, page_length)
    BY <2>1, ViewStays
  <2>5. DigitsLead' <=> DigitsLead
    BY <2>1 DEF DigitsLead
  <2> QED
    BY <2>1, <2>2, <2>3, <2>4, <2>5 DEF PagerInv
<1> QED
  BY <1>4, <1>6, <1>7, <1>8, <1>9, <1>10, <1>11, <1>12, <1>13, <1>14, <1>15, <1>16 DEF Pager!Next

LEMMA PagerKeys == ASSUME PagerInv PROVE Pager!KeysMoveTheWindow
<1>1. SUFFICES ASSUME t_open, Pager!Terminated
               PROVE  /\ Pager!LineUp => Pager!LineOf(top') = Pager!LineOf(top) - 1
                      /\ Pager!LineDown => Pager!LineOf(top') = Pager!LineOf(top) + 1
                      /\ Pager!PageUp => Pager!LineOf(top') = IF Pager!LineOf(top) > boxh
                                                              THEN Pager!LineOf(top) - boxh ELSE 0
                      /\ Pager!PageDown => Pager!LineOf(top') = Pager!Bounded(Pager!LineOf(top) + page_length)
                      /\ Pager!Sideways => top' = top
                      /\ Pager!Jump => vscroll' = Pager!LineOf(top)
  BY DEF Pager!KeysMoveTheWindow
<1>2. TextGiven /\ PagerGiven /\ TextShows
  BY <1>1, TextIsGiven DEF PagerInv, TextShows
<1>3. Pager!PageDown => Pager!LineOf(top') = Pager!Bounded(Pager!LineOf(top) + page_length)
  <2>1. PICK line, h, all : line = Pager!LineOf(top) + page_length /\ h = boxh /\ all = Pager!Lines
    OBVIOUS
  <2>2. line \in Nat /\ h \in Nat /\ all \in Nat
    BY <1>2, <2>1, WindowIs
  <2>3. Shown(h, line) = Pager!Bounded(line)
    BY <2>1, <2>2 DEF Shown, Pager!Bounded, Least, HighestStart
  <2>4. Pager!PageDown => Pager!LineOf(top') = Shown(h, line)
    BY <1>2, <2>1, PageDownShows
  <2> QED
    BY <2>1, <2>3, <2>4
<1> QED
  BY <1>2, <1>3, LineUpShows, LineDownShows, PageUpShows, SidewaysShows, JumpRemembers

LEMMA PagerPage == PagerInv => Pager!PageIsTrue
<1>1. SUFFICES ASSUME PagerInv, t_open, Pager!Terminated
               PROVE  /\ top = 0 \/ doc.text[top] = NL
                      /\ begin_reached = (top = 0)
                      /\ end_reached = (Pager!LineOf(top) + boxh > Pager!Lines)
                      /\ Pager!LineOf(top) + page_length = Pager!LineOf(page) + (IF end_reached THEN 1 ELSE 0)
                      /\ search => DigitsLead
  BY DEF Pager!PageIsTrue, DigitsLead
<1>2. TextGiven /\ PagerGiven /\ TextShows
  BY <1>1, TextIsGiven DEF PagerInv, TextShows
<1>3. top = 0 \/ doc.text[top] = NL
  BY <1>2 DEF TextShows, View, IsStart
<1>4. begin_reached = (top = 0)
  <2>1. begin_reached \in BOOLEAN /\ (begin_reached <=> top = 0)
    BY <1>2 DEF TextShows, View
  <2> QED
    BY <2>1, Zenon
<1>5. end_reached = (Pager!LineOf(top) + boxh > Pager!Lines)
  <2>1. end_reached \in BOOLEAN /\ (end_reached <=> Pager!LineOf(top) + boxh > Pager!Lines)
    BY <1>2, WindowIs
  <2>2. CASE end_reached
    <3>1. end_reached = TRUE /\ (Pager!LineOf(top) + boxh > Pager!Lines)
      BY <2>1, <2>2, Zenon
    <3>2. (Pager!LineOf(top) + boxh > Pager!Lines) = TRUE
      BY <3>1
    <3> QED
      BY <3>1, <3>2, Zenon
  <2>3. CASE ~ end_reached
    <3>1. end_reached = FALSE /\ ~ (Pager!LineOf(top) + boxh > Pager!Lines)
      BY <2>1, <2>3, Zenon
    <3>2. (Pager!LineOf(top) + boxh > Pager!Lines) = FALSE
      BY <3>1
    <3> QED
      BY <3>1, <3>2, Zenon
  <2> QED
    BY <2>2, <2>3
<1>6. Pager!LineOf(top) + page_length = Pager!LineOf(page) + (IF end_reached THEN 1 ELSE 0)
  BY <1>2, WindowIs DEF One
<1>7. search => DigitsLead
  BY <1>1 DEF PagerInv
<1> QED
  BY <1>3, <1>4, <1>5, <1>6, <1>7

LEMMA PagerStart == ASSUME Pager!Init PROVE PagerInv
<1>1. PagerGiven
  <2>1. doc \in Texts /\ search \in BOOLEAN /\ boxh \in 1 .. PagerHeight /\ margin = PagerMargin
    BY DEF Pager!Init
  <2>2. Len(doc.text) \in Nat
    BY <2>1, PagerAssumption
  <2> QED
    BY <2>1, <2>2, PagerAssumption DEF PagerGiven
<1>2. ~ t_open /\ vscroll = 0
  BY DEF Pager!Init
<1>3. Pager!Terminated => Pager!Lines \in Nat
  BY <1>1, TextIsGiven, LineCounted DEF Pager!Lines, Pager!End, TextGiven
<1> QED
  BY <1>1, <1>2, <1>3 DEF PagerInv

LEMMA PagerIdles == ASSUME PagerIdle PROVE PagerInv
<1>1. /\ ~ t_open /\ vscroll = 0 /\ doc.text = <<"c">> /\ doc.entries = <<>>
      /\ search \in BOOLEAN /\ boxh = 1 /\ margin = 1
  BY DEF PagerIdle
<1>2. Len(doc.text) = 1
  BY <1>1
<1>3. PagerGiven
  <2>1. DOMAIN doc.entries = {} /\ doc.entries \in Seq(Nat)
    BY <1>1
  <2> QED
    BY <1>1, <1>2, <2>1 DEF PagerGiven
<1>4. Pager!Terminated => Pager!Lines \in Nat
  BY <1>3, TextIsGiven, LineCounted DEF Pager!Lines, Pager!End, TextGiven
<1> QED
  BY <1>1, <1>3, <1>4 DEF PagerInv

-----------------------------------------------------------------------------
(***************************************************************************)
(* One program runs, and what it leaves alone the others have.             *)
(***************************************************************************)
ToolsInv == InputInv /\ NInputInv /\ AutoInv /\ WrapperInv /\ ListInv /\ MenuInv /\ PagerInv /\ DeviceInv

LEMMA ToolsStart == ToolsInit => ToolsInv
<1> SUFFICES ASSUME ToolsInit PROVE ToolsInv
  OBVIOUS
<1>1. Init
  BY DEF ToolsInit, InputIdle
<1>2. NInput!Init
  BY DEF ToolsInit, NInputIdle
<1>3. Autoconf!Init
  BY DEF ToolsInit, AutoIdle
<1>4. Wrapper!Init
  BY DEF ToolsInit, WrapperIdle
<1>5. ListInv
  BY ListInitial, ListIdles DEF ToolsInit
<1>6. MenuInv
  BY MenuInitial DEF ToolsInit
<1>7. DeviceInv
  BY DeviceInit, DevicesIdles DEF ToolsInit
<1>8. PagerInv
  BY PagerStart, PagerIdles DEF ToolsInit
<1> QED
  BY <1>1, <1>2, <1>3, <1>4, <1>5, <1>6, <1>7, <1>8, InputInit, NInputInit, AutoInit, WrapperInit DEF ToolsInv

LEMMA ToolsStep == ToolsInv /\ [ToolsNext]_allVars => ToolsInv'
<1> SUFFICES ASSUME ToolsInv, [ToolsNext]_allVars PROVE ToolsInv'
  OBVIOUS
<1>1. [Next]_vars
  BY DEF allVars, inputVars, ToolsNext, InputNext, MenuNext, ListNext, PagerNext, NInputNext, AutoNext,
         WrapperNext, DevicesNext
<1>2. [NInput!Next]_ninputVars
  BY DEF allVars, ToolsNext, InputNext, MenuNext, ListNext, PagerNext, NInputNext, AutoNext,
         WrapperNext, DevicesNext
<1>3. [Autoconf!Next]_autoVars
  BY DEF allVars, ToolsNext, InputNext, MenuNext, ListNext, PagerNext, NInputNext, AutoNext,
         WrapperNext, DevicesNext
<1>4. [Wrapper!Next]_wrapperVars
  BY DEF allVars, ToolsNext, InputNext, MenuNext, ListNext, PagerNext, NInputNext, AutoNext,
         WrapperNext, DevicesNext
<1>5. [List!Next]_listVars
  BY DEF allVars, ToolsNext, InputNext, MenuNext, ListNext, PagerNext, NInputNext, AutoNext,
         WrapperNext, DevicesNext
<1>6. [Menu!Next]_menuVars
  BY DEF allVars, ToolsNext, InputNext, MenuNext, ListNext, PagerNext, NInputNext, AutoNext,
         WrapperNext, DevicesNext
<1>7. [Devices!Next]_deviceVars
  BY DEF allVars, ToolsNext, InputNext, MenuNext, ListNext, PagerNext, NInputNext, AutoNext,
         WrapperNext, DevicesNext
<1>8. DeviceInv'
  BY <1>7, DeviceStep DEF ToolsInv
<1>9. [Pager!Next]_pagerVars
  BY DEF allVars, ToolsNext, InputNext, MenuNext, ListNext, PagerNext, NInputNext, AutoNext,
         WrapperNext, DevicesNext
<1>10. PagerInv'
  BY <1>9, PagerStep DEF ToolsInv
<1> QED
  BY <1>1, <1>2, <1>3, <1>4, <1>5, <1>6, <1>8, <1>10, InputStep, NInputStep, AutoStep, WrapperStep,
     ListStep, MenuStep DEF ToolsInv

\* Whatever keys come in whatever order, with resizes in between, both input
\* lines show the text they hold at the place of the cursor, and the text fits
\* in its buffer. (inputbox.c, nconf.gui.c)
THEOREM InputLines == ToolsSpec => []InputLinesAreTrue
<1>1. ToolsInv => InputLinesAreTrue
  BY NInputShows DEF ToolsInv, InputInv, InputLinesAreTrue
<1> QED
  BY <1>1, ToolsStart, ToolsStep, PTL DEF ToolsSpec

\* Wherever silentoldconfig was stopped, a build that make lets begin sees one
\* configuration in all three files and in all its objects.
\* (conf_write_autoconf)
THEOREM BuildsSeeConfig == ToolsSpec => []BuildSeesConfig
<1>1. ToolsInv => BuildSeesConfig
  BY AutoIsSound DEF ToolsInv
<1> QED
  BY <1>1, ToolsStart, ToolsStep, PTL DEF ToolsSpec

\* For every command line, every table of options and every set of paths: the
\* array is never overrun, the compiler gets the command line as it was, and
\* the paths that are reported are the unsafe ones. (toolchain-wrapper.c)
THEOREM WrapperWorks == ToolsSpec => []WrapperIsSound
<1>1. ToolsInv => WrapperIsSound
  BY WrapperInvIsSound DEF ToolsInv
<1> QED
  BY <1>1, ToolsStart, ToolsStep, PTL DEF ToolsSpec

\* For every list of items and every set of comments among them: the screen of a
\* choice is a window of the list with one line highlighted, which is the item
\* that is set, and the list comes back with it after its help.
\* (dialog_checklist, conf_choice)
THEOREM ListWorks == ToolsSpec => ListIsTrue
<1>1. ToolsInv /\ [ToolsNext]_allVars => [List!ChoiceIsTrue' /\ List!HelpComesBack]_(List!vars)
  <2> SUFFICES ASSUME ToolsInv, [ToolsNext]_allVars
               PROVE  (List!ChoiceIsTrue' /\ List!HelpComesBack) \/ UNCHANGED List!vars
    OBVIOUS
  <2>1. [List!Next]_listVars
    BY DEF allVars, ToolsNext, InputNext, MenuNext, ListNext, PagerNext, NInputNext, AutoNext,
           WrapperNext, DevicesNext
  <2>2. ListInv' /\ (List!HelpComesBack \/ UNCHANGED listVars)
    BY <2>1, ListStep DEF ToolsInv
  <2>3. UNCHANGED listVars => UNCHANGED List!vars
    BY DEF listVars, List!vars
  <2> QED
    BY <2>2, <2>3, ListInvIsTrue
<1> QED
  BY <1>1, ToolsStart, ToolsStep, PTL DEF ToolsSpec, ListIsTrue, List!ListIsTrue

\* For every menu and every terminal: however the keys, resizes and calls come,
\* the screen is a window of the list with the item highlighted that Enter
\* picks, and the menu comes back as it was left. (dialog_menu, conf)
THEOREM MenuWorks == ToolsSpec => MenuIsTrue
<1>1. ToolsInv => Menu!ScreenIsTrue
  BY MenuInvIsTrue DEF ToolsInv
<1>2. ToolsInv => Menu!PlaceIsKept
  BY PlaceStays DEF ToolsInv
<1> QED
  BY <1>1, <1>2, ToolsStart, ToolsStep, PTL DEF ToolsSpec, MenuIsTrue, Menu!MenuIsTrue

\* For every text that ends with a line end and every height of the window:
\* however the keys, resizes and jumps come, the page starts at a line, the marks
\* that stop the keys say whether its ends are on the screen, every key moves it
\* by what it says, and in the results of a search a digit on the screen leads
\* to its entry. (dialog_textbox, update_text)
THEOREM PagerWorks == ToolsSpec => PagerIsTrue
<1>1. ToolsInv => Pager!PageIsTrue
  BY PagerPage DEF ToolsInv
<1>2. ToolsInv => Pager!KeysMoveTheWindow
  BY PagerKeys DEF ToolsInv
<1> QED
  BY <1>1, <1>2, ToolsStart, ToolsStep, PTL DEF ToolsSpec, PagerIsTrue, Pager!PagerIsTrue

\* For every device table: whatever calls fail and wherever an unknown owner or a
\* missing file ends it, what a line says that was not reported holds of its files
\* unless a later line is about them too, every number of a line has its node,
\* and the capabilities are those of the xattr lines. (makedevs.c)
THEOREM TableWorks == ToolsSpec => []TableIsApplied
<1>1. ToolsInv => TableIsApplied
  BY TableParts DEF ToolsInv, DeviceInv, TableIsApplied
<1> QED
  BY <1>1, ToolsStart, ToolsStep, PTL DEF ToolsSpec
=============================================================================
