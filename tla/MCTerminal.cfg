\* Every screen of three rows and columns with at most two attributes.
CONSTANTS
    letter = letter
    blank = blank
    other = other
    Width = 3
    Height = 3
    ModelRows = 3
    MaxFields = 2
    Margin = 1
    Chars <- Characters
    Blank = blank
    Layouts <- FewFields
    Texts <- TypedTexts
SPECIFICATION Spec
INVARIANTS
    TypeOK
    DecodeIgnoresShape
    CursorFieldFound
    LengthsAgree
    TypedAsPosted
    RecordedAsTyped
    ReplayOverwrites
\* A submit that was sent or failed is the end.
CHECK_DEADLOCK FALSE
