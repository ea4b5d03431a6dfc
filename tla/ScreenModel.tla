---------------------------- MODULE ScreenModel -----------------------------
(***************************************************************************)
(* The screen as the program knows it (internal/host/screen_update.go and  *)
(* types.go): from the emulator's dump of its cells to fields, and from a  *)
(* field to its text.                                                      *)
(*                                                                         *)
(* A cell holds a character or the attribute that starts a field.  A text  *)
(* is the sequence of its lines; blanks, nulls and the underscores that    *)
(* stand for them are one character.  Colours, highlighting and the kinds  *)
(* of input fields are left out.  Rows and columns count from 0, sequences *)
(* from 1.                                                                 *)
(***************************************************************************)
EXTENDS Integers, Sequences, FiniteSets, SequencesExt, SeqFilter

CONSTANTS
    Width, Height,  \* of the emulator's screen
    Chars,          \* the characters
    Blank,          \* the one that is trimmed
    Margin          \* what a line of a multi-line input is short of its row: 3

ASSUME DimensionsAssumption == Width \in Nat \ {0} /\ Height \in Nat \ {0} /\ Margin \in Nat

ASSUME BlankAssumption == Blank \in Chars

Attributes == {"input", "protected"}

ASSUME CharsAssumption == Chars \cap Attributes = {}

Positions == 0..(Width * Height - 1)

Row(p) == p \div Width
Col(p) == p % Width

(* The emulator's cells, in order. *)
Screens == [Positions -> Chars \cup Attributes]

-----------------------------------------------------------------------------
(* The dump and its rows                                                   *)

CellRow(cells, y) == [x \in 1..Width |-> cells[y * Width + x - 1]]

AllCells(cells) == [i \in 1..(Width * Height) |-> cells[i - 1]]

(* The forms that a dump of the same cells takes: a line for every row,    *)
(* one line, or one line in which the screen is repeated.                  *)
Dumps(cells) ==
    {[y \in 1..Height |-> CellRow(cells, y - 1)],
     <<AllCells(cells)>>,
     <<AllCells(cells) \o AllCells(cells)>>}

(* repeatsScreen: every block is like the first. *)
RepeatsScreen(tokens) ==
    \A i \in DOMAIN tokens : tokens[i] = tokens[1 + ((i - 1) % (Width * Height))]

(* Variant: only a dump of exactly one screen is split. *)
NormalizeOneScreen(lines) ==
    LET tokens == lines[1]
    IN  IF Len(lines) = 1 /\ Len(tokens) = Width * Height
        THEN [y \in 1..Height |-> SubSeq(tokens, (y - 1) * Width + 1, y * Width)]
        ELSE lines

(* normalizeScreenTokens. *)
NormalizeTokens(lines) ==
    LET tokens == lines[1]
        rows == Len(tokens) \div Width
        splits == /\ Len(lines) = 1
                  /\ Len(tokens) % Width = 0
                  /\ rows >= Height
                  /\ rows % Height = 0
                  /\ RepeatsScreen(tokens)
    IN  IF splits THEN [y \in 1..Height |-> SubSeq(tokens, (y - 1) * Width + 1, y * Width)]
        ELSE lines

-----------------------------------------------------------------------------
(* Fields                                                                  *)

Fields ==
    [startX : 0..Width, startY : 0..Height, endX : 0..(Width - 1), endY : 0..(Height - 1),
     input : BOOLEAN, changed : BOOLEAN, value : Seq(Seq(Chars))]

Unread == << << >> >>

NewField(input, start, end) ==
    [startX |-> start[1], startY |-> start[2], endX |-> end[1], endY |-> end[2],
     input |-> input, changed |-> FALSE, value |-> Unread]

(* Variant: a field after an attribute in a row's last cell starts beyond  *)
(* the row.                                                                *)
StartAfterBeyond(x, y, width) == <<x + 1, y>>

(* Where a field starts whose attribute is at x, y of a row. *)
StartAfter(x, y, width) == IF x + 1 = width THEN <<0, y + 1>> ELSE <<x + 1, y>>

(* Where it ends, if the next attribute is at x, y. *)
EndBefore(x, y, width) == IF x = 0 THEN <<width - 1, y - 1>> ELSE <<x - 1, y>>

(* updateBuffer, decodeLineTokens and processStartField on rows of one     *)
(* width: the cells before the first attribute are taken for a protected   *)
(* field, those after the last one end with the screen.                    *)
DecodeFields(rows) ==
    LET width == Len(rows[1])
        height == Len(rows)
        cell(p) == rows[1 + (p \div width)][1 + (p % width)]
        places == 0..(width * height - 1)
        at == Filter([i \in 1..(width * height) |-> i - 1], {p \in places : cell(p) \in Attributes})
        start(i) == StartAfter(at[i] % width, at[i] \div width, width)
        end(i) == IF i = Len(at) THEN <<width - 1, height - 1>>
                  ELSE EndBefore(at[i + 1] % width, at[i + 1] \div width, width)
        first == CASE at = << >> -> <<NewField(FALSE, <<0, 0>>, <<width - 1, height - 1>>)>>
                   [] at # << >> /\ at[1] = 0 -> << >>
                   [] OTHER -> <<NewField(FALSE, <<0, 0>>, EndBefore(at[1] % width, at[1] \div width, width))>>
    IN  first \o [i \in 1..Len(at) |-> NewField(cell(at[i]) = "input", start(i), end(i))]

(* Screen.Update: the fields of a dump. *)
Decode(lines) == DecodeFields(NormalizeTokens(lines))

(* The field ends before it starts: nothing lies between two attributes,   *)
(* or nothing follows the last one.                                        *)
IsEmpty(f) == f.endY < f.startY \/ (f.endY = f.startY /\ f.endX < f.startX)

IsMultiline(f) == f.endY > f.startY

FieldHeight(f) == f.endY - f.startY + 1

(* Variant: the rows between the first and the last are not counted. *)
FieldLengthOfTwoRows(f) ==
    IF f.startY = f.endY THEN f.endX - f.startX + 1
    ELSE (Width - f.startX) + (f.endX + 1)

(* fieldLength. *)
FieldLength(f) ==
    IF f.startY = f.endY THEN f.endX - f.startX + 1
    ELSE (Width - f.startX) + (f.endX + 1)
            + (IF f.endY - f.startY > 1 THEN (f.endY - f.startY - 1) * Width ELSE 0)

(* Variant: a field is a rectangle. *)
FieldContainsAsBox(f, x, y) ==
    f.startY <= y /\ y <= f.endY /\ f.startX <= x /\ x <= f.endX

(* contains; an empty field, too, is asked. *)
FieldContains(f, x, y) ==
    IF f.startY = f.endY THEN y = f.startY /\ f.startX <= x /\ x <= f.endX
    ELSE CASE f.startY < y /\ y < f.endY -> TRUE
           [] y = f.startY -> x >= f.startX
           [] y = f.endY -> x <= f.endX
           [] OTHER -> FALSE

(* GetInputFieldAt: the first such field's number, or 0. *)
InputFieldAt(fields, x, y) ==
    LET there == {i \in DOMAIN fields : fields[i].input /\ FieldContains(fields[i], x, y)}
    IN  IF there = {} THEN 0 ELSE CHOOSE i \in there : \A j \in there : i <= j

-----------------------------------------------------------------------------
(* Texts                                                                   *)

(* In the buffer an attribute is a blank. *)
Buffer(cells) == [p \in Positions |-> IF cells[p] \in Attributes THEN Blank ELSE cells[p]]

Between(buffer, p, q) == [i \in 1..(q - p + 1) |-> buffer[p + i - 1]]

(* Substring, with a line for every row of the field.  An empty field's    *)
(* end is never met: its text is the rest of the screen, in one line.      *)
Substring(buffer, f) ==
    LET p == f.startY * Width + f.startX
        q == f.endY * Width + f.endX
        from(y) == IF y = f.startY THEN p ELSE y * Width
        to(y) == IF y = f.endY THEN q ELSE y * Width + Width - 1
    IN  IF IsEmpty(f) THEN <<Between(buffer, p, Width * Height - 1)>>
        ELSE [i \in 1..FieldHeight(f) |-> Between(buffer, from(f.startY + i - 1), to(f.startY + i - 1))]

Trim(line) ==
    LET dark == {i \in DOMAIN line : line[i] # Blank}
    IN  IF dark = {} THEN << >>
        ELSE SubSeq(line, CHOOSE i \in dark : \A j \in dark : i <= j,
                          CHOOSE i \in dark : \A j \in dark : i >= j)

(* normalizeInputValue. *)
Normalize(lines) == [i \in DOMAIN lines |-> Trim(lines[i])]

(* GetValue: read from the buffer while the value is the empty string.     *)
Read(buffer, f) ==
    IF f.value = Unread THEN [f EXCEPT !.value = Substring(buffer, f)] ELSE f

(* SetValue. *)
Set(f, lines) ==
    IF f.value = lines THEN f ELSE [f EXCEPT !.value = lines, !.changed = TRUE]

(* The width of line i of a field's input in the page (renderInputField    *)
(* and adjustFieldWidth).                                                  *)
InputWidth(f, i) ==
    LET row == CASE i = FieldHeight(f) -> f.endX + 1
                 [] i = 1 /\ i # FieldHeight(f) -> Width - f.startX
                 [] OTHER -> Width
    IN  IF ~IsMultiline(f) THEN f.endX - f.startX + 1
        ELSE IF row > Margin THEN row - Margin ELSE 0
=============================================================================
