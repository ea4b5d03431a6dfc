------------------------------ MODULE Terminal ------------------------------
(***************************************************************************)
(* A form on its way from the emulator's screen to the page and back: the  *)
(* screen is read into fields, the page shows them, the user's submit sets *)
(* the fields (main.go), a recording takes them down, and SubmitScreen     *)
(* (internal/host/s3270.go) types what has changed.                        *)
(*                                                                         *)
(* The emulator is s3270, which is not part of the program: its cells, its *)
(* cursor and the actions movecursor, eraseeof, key and newline are        *)
(* modelled as the program uses them.  It refuses input outside the input  *)
(* fields, and its answer to that may be an error.                         *)
(***************************************************************************)
EXTENDS ScreenModel

CONSTANTS
    ModelRows, \* of the configured terminal model; more than any screen has, if none is
    Layouts,   \* the screens the host application shows
    Texts      \* the lines the user types

(* The emulator runs the configured model: the page shows all its fields.  *)
ASSUME ModelRowsAssumption == ModelRows \in Nat /\ ModelRows >= Height

ASSUME LayoutsAssumption == Layouts \subseteq Screens

ASSUME TextsAssumption == Texts \subseteq Seq(Chars)

VARIABLES
    pc,         \* "read", "page", "record", "send", "sent" or "failed"
    cells,      \* of the emulator
    shown,      \* the cells the host application had shown
    fields,     \* h.screen.Fields
    posted,     \* the lines of every field that the submit carries
    recording,  \* a recording is active
    steps,      \* what it has taken down: [row, column, text]
    next,       \* the field SubmitScreen is at
    refused     \* the emulator has refused an input

vars == <<pc, cells, shown, fields, posted, recording, steps, next, refused>>

-----------------------------------------------------------------------------
(* The emulator                                                            *)

Size == Width * Height

(* Where the field of position p starts: fields go on at the screen's top. *)
Attribute(image, p) ==
    LET attributes == {q \in Positions : image[q] \in Attributes}
        distance(q) == (p + Size - q) % Size
    IN  CHOOSE q \in attributes : \A r \in attributes : distance(q) <= distance(r)

IsInput(image, p) ==
    /\ p \in Positions
    /\ image[p] \notin Attributes
    /\ \E q \in Positions : image[q] \in Attributes
    /\ image[Attribute(image, p)] = "input"

(* The emulator while it is typed at; refused is sticky. *)
Emulator(image, p) == [image |-> image, cursor |-> p, refused |-> p \notin Positions]

EraseEOF(e) ==
    IF ~IsInput(e.image, e.cursor) THEN [e EXCEPT !.refused = TRUE]
    ELSE LET distance(q) == (q + Size - e.cursor) % Size
             rest == {q \in Positions :
                        \A r \in Positions : distance(r) <= distance(q) => e.image[r] \notin Attributes}
         IN  [e EXCEPT !.image = [q \in Positions |-> IF q \in rest THEN Blank ELSE e.image[q]]]

TypeKey(e, c) ==
    IF ~IsInput(e.image, e.cursor) THEN [e EXCEPT !.refused = TRUE]
    ELSE [e EXCEPT !.image[e.cursor] = c, !.cursor = (@ + 1) % Size]

(* The first input position of the rows below. *)
NewLine(e) ==
    LET below == (Row(e.cursor) + 1) * Width
        distance(q) == (q + 2 * Size - below) % Size
        inputs == {q \in Positions : IsInput(e.image, q)}
    IN  IF inputs = {} THEN [e EXCEPT !.refused = TRUE]
        ELSE [e EXCEPT !.cursor = CHOOSE q \in inputs : \A r \in inputs : distance(q) <= distance(r)]

TypeText(e, line) == FoldLeft(LAMBDA d, c : TypeKey(d, c), e, line)

(* Variant: lines are typed one after the other. *)
TypeLinesOn(e, lines) == TypeText(e, FlattenSeq(lines))

TypeLines(e, lines) ==
    FoldLeftDomain(LAMBDA d, i : TypeText(IF i = 1 THEN d ELSE NewLine(d), lines[i]), e, lines)

(* What SubmitScreen does for a field. *)
TypeField(f) ==
    TypeLines(EraseEOF(Emulator(cells, f.startY * Width + f.startX)), f.value)

-----------------------------------------------------------------------------
Init ==
    /\ pc = "read"
    /\ cells \in Layouts
    /\ shown = cells
    /\ fields = << >>
    /\ posted = << >>
    /\ recording \in BOOLEAN
    /\ steps = << >>
    /\ next = 0
    /\ refused = FALSE

(* UpdateScreen reads a dump; rendering the page reads every value, and    *)
(* the inputs are filled with them.                                        *)
UpdateScreen(lines) ==
    /\ pc = "read"
    /\ pc' = "page"
    /\ LET decoded == Decode(lines)
       IN  fields' = [i \in DOMAIN decoded |-> Read(Buffer(cells), decoded[i])]
    /\ posted' = [i \in DOMAIN fields' |-> Normalize(fields'[i].value)]
    /\ UNCHANGED <<cells, shown, recording, steps, next, refused>>

(* The user types a line into an input, as far as its width allows. *)
Edit(i, j, text) ==
    /\ pc = "page"
    /\ fields[i].input
    /\ Len(text) <= InputWidth(fields[i], j)
    /\ posted' = [posted EXCEPT ![i][j] = Trim(text)]
    /\ UNCHANGED <<pc, cells, shown, fields, recording, steps, next, refused>>

(* fieldWithinBounds, on a screen that is no larger than the model: only   *)
(* a field after an attribute in the last cell can fail the test, since it *)
(* starts below the last row.                                              *)
WithinModel(f) == f.startY < ModelRows

(* updateFields: only what differs from what was shown. *)
UpdateField(f, lines) ==
    IF f.input /\ WithinModel(f) /\ lines # Normalize(f.value) THEN Set(f, lines) ELSE f

Submit ==
    /\ pc = "page"
    /\ pc' = "record"
    /\ fields' = [i \in DOMAIN fields |-> UpdateField(fields[i], posted[i])]
    /\ UNCHANGED <<cells, shown, posted, recording, steps, next, refused>>

(* Variant: the text on the screen is taken down. *)
FieldStepsShown(f) ==
    [i \in 1..(IF IsMultiline(f) THEN Len(f.value) ELSE 1) |->
        [row |-> f.startY + i, column |-> f.startX + 1,
         text |-> Trim(Substring(Buffer(cells), f)[i])]]

(* The steps of a changed field: a line each. *)
FieldSteps(f) ==
    [i \in 1..(IF IsMultiline(f) THEN Len(f.value) ELSE 1) |->
        [row |-> f.startY + i, column |-> f.startX + 1, text |-> Trim(f.value[i])]]

(* recordFieldUpdates: GetValue takes a cleared value for one that was     *)
(* never read.                                                             *)
RecordFieldUpdates ==
    /\ pc = "record"
    /\ pc' = "send"
    /\ next' = 1
    /\ IF ~recording THEN UNCHANGED <<fields, steps>>
       ELSE LET wanted(f) == f.input /\ f.changed
                read == [i \in DOMAIN fields |->
                            IF wanted(fields[i]) THEN Read(Buffer(cells), fields[i]) ELSE fields[i]]
                changed == Filter(read, {f \in ToSet(read) : wanted(f)})
            IN  /\ fields' = read
                /\ steps' = FlattenSeq([i \in DOMAIN changed |-> FieldSteps(changed[i])])
    /\ UNCHANGED <<cells, shown, posted, recording, refused>>

(* SubmitScreen, one field at a time.  A cursor beyond the screen is an     *)
(* error.                                                                  *)
SkipField ==
    /\ pc = "send"
    /\ next \in DOMAIN fields
    /\ ~(fields[next].input /\ fields[next].changed)
    /\ next' = next + 1
    /\ UNCHANGED <<pc, cells, shown, fields, posted, recording, steps, refused>>

SubmitField ==
    /\ pc = "send"
    /\ next \in DOMAIN fields
    /\ fields[next].input
    /\ fields[next].changed
    /\ fields[next].startY < Height
    /\ cells' = TypeField(fields[next]).image
    /\ refused' = (refused \/ TypeField(fields[next]).refused)
    /\ fields' = [fields EXCEPT ![next].changed = FALSE]
    /\ next' = next + 1
    /\ UNCHANGED <<pc, shown, posted, recording, steps>>

(* The emulator refuses the input with an error, or is gone. *)
SubmitFails ==
    /\ pc = "send"
    /\ next \in DOMAIN fields
    /\ fields[next].input
    /\ fields[next].changed
    /\ pc' = "failed"
    /\ UNCHANGED <<cells, shown, fields, posted, recording, steps, next, refused>>

Sent ==
    /\ pc = "send"
    /\ next = Len(fields) + 1
    /\ pc' = "sent"
    /\ UNCHANGED <<cells, shown, fields, posted, recording, steps, next, refused>>

Next ==
    \/ \E lines \in Dumps(cells) : UpdateScreen(lines)
    \/ \E i \in DOMAIN fields, text \in Texts : \E j \in DOMAIN posted[i] : Edit(i, j, text)
    \/ Submit
    \/ RecordFieldUpdates
    \/ SkipField \/ SubmitField \/ SubmitFails \/ Sent

Spec == Init /\ [][Next]_vars

-----------------------------------------------------------------------------
(* Properties                                                              *)

(* The type of every variable. *)
TypeOK ==
    /\ pc \in {"read", "page", "record", "send", "sent", "failed"}
    /\ cells \in Screens
    /\ shown \in Layouts
    /\ fields \in Seq(Fields)
    /\ posted \in Seq(Seq(Seq(Chars)))
    /\ DOMAIN posted = DOMAIN fields
    /\ recording \in BOOLEAN
    /\ steps \in Seq([row : 1..(Height + 1), column : 1..Width, text : Seq(Chars)])
    /\ next \in 0..(Len(fields) + 1)
    /\ refused \in BOOLEAN
    /\ \A p \in Positions : cells[p] \in Attributes <=> shown[p] \in Attributes

(* However the emulator lays out its dump (a line for every row, one line, *)
(* the screen repeated in it), the program finds the same fields.          *)
DecodeIgnoresShape ==
    \A lines \in Dumps(cells) : Decode(lines) = Decode([y \in 1..Height |-> CellRow(cells, y - 1)])

(* The cells before the first attribute, which belong to the last field.   *)
Wrapped(p) == \A q \in Positions : cells[q] \in Attributes => p < q

(* The cursor's field, which the page focuses: the program finds an input  *)
(* field at a cell exactly if the emulator takes input there, except that  *)
(* it knows nothing of a field that goes on at the screen's top, and that  *)
(* an input field without any cells is thought to hold some.               *)
CursorFieldFound ==
    pc # "read" =>
        \A p \in Positions :
            LET found == InputFieldAt(fields, Col(p), Row(p))
            IN  /\ found = 0 => ~IsInput(cells, p) \/ Wrapped(p)
                /\ found # 0 /\ ~IsEmpty(fields[found]) => IsInput(cells, p)

(* The length of a field, to which chaos mode cuts its values, is the      *)
(* number of cells its text is read from; so many fit into it.             *)
LengthsAgree ==
    \A i \in DOMAIN fields :
        ~IsEmpty(fields[i]) =>
            FieldLength(fields[i]) = Len(FlattenSeq(Substring(Buffer(cells), fields[i])))

Shown(f) == Normalize(Substring(Buffer(shown), f))

(* A line that fills its row leaves the cursor in the next row already. *)
FillsRow(f, lines) ==
    \E j \in 1..(Len(lines) - 1) : Len(lines[j]) = Width - (IF j = 1 THEN f.startX ELSE 0)

(* The submit has gone through, and every newline led to the next row. *)
SentInOrder ==
    /\ pc = "sent"
    /\ ~refused
    /\ \A i \in DOMAIN fields :
        fields[i].input /\ posted[i] # Shown(fields[i]) => ~FillsRow(fields[i], posted[i])

Cleared(f, lines) == ~IsMultiline(f) /\ lines = Unread

(* After a submit the emulator holds in every input field what the page    *)
(* sent for it, whether it was edited or not, and whichever other fields   *)
(* were edited, except that a field cleared while a recording is active    *)
(* has got its old text back.  A full row inside a field is left out: its  *)
(* newline skips a row.                                                    *)
TypedAsPosted ==
    SentInOrder =>
        \A i \in DOMAIN fields :
            fields[i].input /\ ~IsEmpty(fields[i]) =>
                Normalize(Substring(Buffer(cells), fields[i])) =
                    (IF recording /\ Cleared(fields[i], posted[i]) THEN Shown(fields[i])
                     ELSE posted[i])

(* applyWorkflowFill and WriteStringAt: the text goes over what is there,  *)
(* and an empty one does nothing.                                          *)
PlayFill(image, step) ==
    IF step.text = << >> THEN image
    ELSE TypeText(Emulator(image, (step.row - 1) * Width + step.column - 1), step.text).image

(* Played on the screen the user saw, a recording leaves in every edited   *)
(* one-line field the recorded text, and behind it what stood there: a     *)
(* submit erases the field first, playback does not, so that the two agree *)
(* on a text that is no shorter than the old one.  Nothing else is said of *)
(* a screen with an edited multi-line field, all of whose lines are        *)
(* recorded at the first one's column.                                     *)
ReplayOverwrites ==
    (SentInOrder /\ recording
        /\ \A i \in DOMAIN fields :
            fields[i].input /\ IsMultiline(fields[i]) => posted[i] = Shown(fields[i])) =>
        LET replayed == FoldLeft(PlayFill, shown, steps)
        IN  \A i \in DOMAIN fields :
                LET f == fields[i]
                    text == (IF Cleared(f, posted[i]) THEN Shown(f) ELSE posted[i])[1]
                    before == Substring(Buffer(shown), f)[1]
                    after == Substring(Buffer(replayed), f)[1]
                IN  f.input /\ ~IsEmpty(f) /\ ~IsMultiline(f) /\ posted[i] # Shown(f) =>
                        after = text \o SubSeq(before, Len(text) + 1, Len(before))

(* The recording says of every edited one-line field what was typed into   *)
(* it and where.                                                           *)
RecordedAsTyped ==
    (SentInOrder /\ recording) =>
        \A i \in DOMAIN fields :
            LET f == fields[i]
            IN  f.input /\ ~IsEmpty(f) /\ ~IsMultiline(f) /\ posted[i] # Shown(f) =>
                    [row |-> f.startY + 1, column |-> f.startX + 1,
                     text |-> Trim(Substring(Buffer(cells), f)[1])] \in ToSet(steps)
=============================================================================
