-------------------------- MODULE Terminal_proofs ---------------------------
(***************************************************************************)
(* Theorems about Terminal, for screens of every size and content and for  *)
(* whatever is typed: which fields the program finds and what their text   *)
(* is, and what the emulator holds after a submit.                         *)
(*                                                                         *)
(* The argument goes from the screen to the emulator:                      *)
(*   1. The dump's rows are the screen's (Rows), the attributes in them    *)
(*      lie in order, and the fields are the stretches between them: Laid. *)
(*   2. The emulator's field at a place is the one whose attribute is the  *)
(*      last before it (Governs), so that it takes input in the cells of   *)
(*      the program's input fields, and nowhere else behind an attribute.  *)
(*   3. A field's rows follow each other (FieldRows), which gives the      *)
(*      length of its text.                                                *)
(*   4. Typing never touches an attribute (SameAttributes), so that the    *)
(*      fields stay Laid while they are sent: TypeInv.                     *)
(*   5. Lines that fit are typed into their rows (Filling), and nothing    *)
(*      changes behind another attribute (OnlyIn).                         *)
(*   6. A field is marked exactly if it was edited and not sent yet        *)
(*      (StageInv); the fields before the next one hold what was sent,     *)
(*      the others what was shown (SendInv); and every edited one-line     *)
(*      field has its step (StepInv).                                      *)
(***************************************************************************)
EXTENDS Terminal, DataTheorems, TLAPS

(* Division by a row's length, or a screen's.                              *)
LEMMA Division ==
    ASSUME NEW n \in Nat \ {0}
    PROVE  /\ \A q \in Nat : (n * q) \div n = q /\ (n * q) % n = 0
           /\ \A k \in 0..(n - 1) : k % n = k /\ (n + k) % n = k
OBVIOUS

(* The rows lie one after the other on the screen.                         *)
LEMMA Product ==
    /\ Width * Height \in Nat \ {0}
    /\ \A y \in 1..Height : 0 <= (y - 1) * Width /\ y * Width <= Width * Height
    /\ \A y \in 1..Height : y * Width = (y - 1) * Width + Width
<1> USE DimensionsAssumption
<1>1. Width * Height \in Nat \ {0}
  OBVIOUS
<1>2. ASSUME NEW y \in 1..Height
      PROVE  /\ 0 <= (y - 1) * Width
             /\ y * Width <= Width * Height
             /\ y * Width = (y - 1) * Width + Width
  <2>1. y \in Nat /\ 1 <= y /\ y <= Height
    BY <1>2
  <2>2. y * Width = (y - 1) * Width + Width
    BY <2>1
  <2>3. \A a, b \in Nat : 0 <= a * b
    OBVIOUS
  <2>4. 0 <= (y - 1) * Width
    BY <2>1, <2>3
  <2>5. 0 <= (Height - y) * Width
    BY <2>1, <2>3
  <2>6. (Height - y) * Width = Width * Height - y * Width
    BY <2>1
  <2>7. y * Width \in Int /\ Width * Height \in Int
    BY <2>1
  <2> QED BY <2>2, <2>4, <2>5, <2>6, <2>7
<1> QED BY <1>1, <1>2

(* The rows of an image, the form that all dumps are brought into. *)
Rows(image) == [y \in 1..Height |-> CellRow(image, y - 1)]

Values(image) == {image[p] : p \in Positions}

(* The screen in one line.                                                 *)
LEMMA AllCellsType ==
    ASSUME NEW image
    PROVE  /\ AllCells(image) \in Seq(Values(image))
           /\ Len(AllCells(image)) = Width * Height
           /\ \A i \in 1..(Width * Height) : AllCells(image)[i] = image[i - 1]
BY Product DEF AllCells, Values, Positions

(* A line for every row.                                                   *)
LEMMA RowsLength == ASSUME NEW image PROVE Len(Rows(image)) = Height
BY DimensionsAssumption DEF Rows

(* A row cut out of a sequence that begins with the image is the image's.  *)
LEMMA CutRow ==
    ASSUME NEW image, NEW S, NEW tokens \in Seq(S), NEW y \in 1..Height,
           Len(tokens) >= Width * Height,
           \A i \in 1..(Width * Height) : tokens[i] = image[i - 1]
    PROVE  SubSeq(tokens, (y - 1) * Width + 1, y * Width) = CellRow(image, y - 1)
<1> DEFINE first == (y - 1) * Width
<1>1. first \in Nat /\ y * Width = first + Width /\ first + Width <= Width * Height
  BY Product, DimensionsAssumption
<1>2. Width \in Nat \ {0} /\ Len(tokens) \in Nat
  BY DimensionsAssumption
<1> HIDE DEF first
<1>3. SubSeq(tokens, first + 1, first + Width) = [x \in 1..Width |-> tokens[first + x]]
  BY <1>1, <1>2
<1>4. ASSUME NEW x \in 1..Width
      PROVE  tokens[first + x] = image[first + x - 1]
  <2> DEFINE size == Width * Height
  <2>1. size \in Nat /\ first + Width <= size
    BY <1>1, Product
  <2>2. \A i \in 1..size : tokens[i] = image[i - 1]
    OBVIOUS
  <2> HIDE DEF size
  <2> DEFINE i == first + x
  <2>3. i \in 1..size /\ i - 1 = first + x - 1
    BY <1>1, <1>2, <2>1
  <2> HIDE DEF i
  <2>4. tokens[i] = image[i - 1]
    BY <2>2, <2>3
  <2> QED BY <2>3, <2>4 DEF i
<1>5. CellRow(image, y - 1) = [x \in 1..Width |-> image[first + x - 1]]
  BY DEF CellRow, first
<1>6. SubSeq(tokens, first + 1, first + Width) = CellRow(image, y - 1)
  BY <1>3, <1>4, <1>5
<1> QED BY <1>1, <1>6 DEF first

(* A dump in one line of one screen or of two is split into the rows. *)
LEMMA SplitsIntoRows ==
    ASSUME NEW image, NEW S, NEW tokens \in Seq(S), NEW n \in {1, 2},
           Len(tokens) = n * (Width * Height),
           RepeatsScreen(tokens),
           \A i \in 1..(Width * Height) : tokens[i] = image[i - 1]
    PROVE  NormalizeTokens(<<tokens>>) = Rows(image)
<1> DEFINE rows == n * Height
<1>1. Width \in Nat \ {0} /\ Height \in Nat \ {0} /\ Width * Height \in Nat \ {0}
  BY DimensionsAssumption, Product
<1>2. rows \in Nat /\ Len(tokens) = Width * rows
  BY <1>1
<1>3. rows = Height * n
  BY <1>1
<1>4. Len(tokens) \div Width = rows /\ Len(tokens) % Width = 0
  <2> HIDE DEF rows
  <2> QED BY <1>1, <1>2, Division
<1>5. rows % Height = 0
  <2>1. n \in Nat
    OBVIOUS
  <2> QED BY <1>1, <1>3, <2>1, Division
<1>6. rows >= Height
  BY <1>1
<1>7. Len(<<tokens>>) = 1 /\ <<tokens>>[1] = tokens
  OBVIOUS
<1>8. NormalizeTokens(<<tokens>>)
        = [y \in 1..Height |-> SubSeq(tokens, (y - 1) * Width + 1, y * Width)]
  <2> HIDE DEF rows
  <2> QED BY <1>4, <1>5, <1>6, <1>7 DEF NormalizeTokens
<1>9. Len(tokens) >= Width * Height
  BY <1>1
<1>10. \A y \in 1..Height :
        SubSeq(tokens, (y - 1) * Width + 1, y * Width) = CellRow(image, y - 1)
  BY <1>9, CutRow
<1> QED BY <1>8, <1>10 DEF Rows

(* A dump in one line is split into the rows.                              *)
LEMMA OneScreen ==
    ASSUME NEW image PROVE NormalizeTokens(<<AllCells(image)>>) = Rows(image)
<1> DEFINE tokens == AllCells(image)
<1>1. /\ tokens \in Seq(Values(image))
      /\ Len(tokens) = Width * Height
      /\ \A i \in 1..(Width * Height) : tokens[i] = image[i - 1]
  BY AllCellsType
<1> HIDE DEF tokens
<1>2. Width * Height \in Nat \ {0}
  BY Product
<1>3. RepeatsScreen(tokens)
  <2>1. ASSUME NEW i \in 1..(Width * Height)
        PROVE  1 + ((i - 1) % (Width * Height)) = i
    <3> DEFINE size == Width * Height
    <3> HIDE DEF size
    <3>1. size \in Nat \ {0} /\ i \in 1..size
      BY <1>2, <2>1 DEF size
    <3>2. (i - 1) % size = i - 1
      BY <3>1, Division
    <3> QED BY <3>1, <3>2 DEF size
  <2>2. DOMAIN tokens = 1..(Width * Height)
    BY <1>1
  <2> QED BY <2>1, <2>2 DEF RepeatsScreen
<1>4. Len(tokens) = 1 * (Width * Height)
  BY <1>1, <1>2
<1>5. NormalizeTokens(<<tokens>>) = Rows(image)
  BY <1>1, <1>3, <1>4, SplitsIntoRows
<1> QED BY <1>5 DEF tokens

(* So is one in which the screen is repeated: it is taken once.            *)
LEMMA RepeatedScreen ==
    ASSUME NEW image
    PROVE  NormalizeTokens(<<AllCells(image) \o AllCells(image)>>) = Rows(image)
<1> DEFINE once == AllCells(image)
           tokens == once \o once
           size == Width * Height
<1>1. size \in Nat \ {0}
  BY Product
<1>2. /\ once \in Seq(Values(image))
      /\ Len(once) = size
      /\ \A i \in 1..size : once[i] = image[i - 1]
  BY AllCellsType
<1> HIDE DEF once, size
<1>3. /\ tokens \in Seq(Values(image))
      /\ Len(tokens) = size + size
      /\ \A i \in 1..size : tokens[i] = once[i]
      /\ \A i \in (size + 1)..(size + size) : tokens[i] = once[i - size]
  BY <1>1, <1>2
<1> HIDE DEF tokens
<1>4. \A i \in DOMAIN tokens : tokens[i] = tokens[1 + ((i - 1) % size)]
  <2> SUFFICES ASSUME NEW i \in 1..(size + size)
               PROVE  tokens[i] = tokens[1 + ((i - 1) % size)]
    BY <1>1, <1>3
  <2>1. CASE i \in 1..size
    <3>1. (i - 1) % size = i - 1
      BY <1>1, <2>1, Division
    <3> QED BY <1>1, <2>1, <3>1
  <2>2. CASE i \in (size + 1)..(size + size)
    <3> DEFINE k == i - size - 1
    <3>1. k \in 0..(size - 1) /\ i - 1 = size + k /\ 1 + k \in 1..size /\ i - size = 1 + k
      BY <1>1, <2>2
    <3> HIDE DEF k
    <3>2. (i - 1) % size = k
      BY <1>1, <3>1, Division
    <3> QED BY <1>3, <2>2, <3>1, <3>2
  <2> QED BY <1>1, <2>1, <2>2
<1>5. RepeatsScreen(tokens)
  BY <1>4 DEF RepeatsScreen, size
<1>6. Len(tokens) = 2 * (Width * Height)
  BY <1>1, <1>3 DEF size
<1>7. \A i \in 1..(Width * Height) : tokens[i] = image[i - 1]
  BY <1>2, <1>3 DEF size
<1>8. NormalizeTokens(<<tokens>>) = Rows(image)
  BY <1>3, <1>5, <1>6, <1>7, SplitsIntoRows
<1> QED BY <1>8 DEF tokens, once

(* A line for every row is left as it is, also on a screen of one row. *)
LEMMA LinePerRow ==
    ASSUME NEW image PROVE NormalizeTokens(Rows(image)) = Rows(image)
<1>1. CASE Height = 1
  <2>1. Rows(image) = <<AllCells(image)>>
    <3>1. CellRow(image, 0) = AllCells(image)
      BY <1>1, DimensionsAssumption DEF CellRow, AllCells
    <3> QED BY <1>1, <3>1 DEF Rows
  <2> QED BY <2>1, OneScreen
<1>2. CASE Height # 1
  BY <1>2, RowsLength DEF NormalizeTokens
<1> QED BY <1>1, <1>2

(* Products by a row's length keep the order of the rows.                  *)
LEMMA Products ==
    /\ \A a, b \in Nat : a * b \in Nat
    /\ \A a, b, c \in Int : (a + b) * c = a * c + b * c /\ (a - b) * c = a * c - b * c
    /\ \A a, b \in Int, c \in Nat : a <= b => a * c <= b * c
<1>1. \A a, b \in Nat : a * b \in Nat
  OBVIOUS
<1>2. \A a, b, c \in Int : (a + b) * c = a * c + b * c /\ (a - b) * c = a * c - b * c
  OBVIOUS
<1>3. ASSUME NEW a \in Int, NEW b \in Int, NEW c \in Nat, a <= b PROVE a * c <= b * c
  <2>1. b - a \in Nat
    BY <1>3
  <2>2. (b - a) * c \in Nat
    BY <1>1, <2>1
  <2>3. (b - a) * c = b * c - a * c /\ b * c \in Int /\ a * c \in Int
    BY <1>2
  <2> QED BY <2>2, <2>3
<1> QED BY <1>1, <1>2, <1>3

(* Quotient and remainder. *)
LEMMA Remainder ==
    ASSUME NEW n \in Nat \ {0}, NEW p \in Nat
    PROVE  /\ p \div n \in Nat /\ p % n \in 0..(n - 1)
           /\ p = (p \div n) * n + (p % n)
<1>1. p \div n \in Nat /\ p % n \in 0..(n - 1)
  OBVIOUS
<1>2. p = n * (p \div n) + (p % n)
  OBVIOUS
<1>3. n * (p \div n) = (p \div n) * n
  BY <1>1
<1> QED BY <1>1, <1>2, <1>3

(* The row and the column of a place are its only ones.                    *)
LEMMA Quotient ==
    ASSUME NEW n \in Nat \ {0}, NEW y \in Int, NEW x \in 0..(n - 1)
    PROVE  (y * n + x) \div n = y /\ (y * n + x) % n = x
<1>1. (n * y + x) \div n = y /\ (n * y + x) % n = x
  OBVIOUS
<1>2. n * y = y * n
  OBVIOUS
<1> QED BY <1>1, <1>2

(* The order of the places of a screen. *)
LEMMA Order ==
    ASSUME NEW n \in Nat \ {0}, NEW y \in Int, NEW x \in 0..(n - 1),
           NEW z \in Int, NEW w \in 0..(n - 1)
    PROVE  y * n + x <= z * n + w <=> y < z \/ (y = z /\ x <= w)
<1>1. y * n \in Int /\ z * n \in Int
  OBVIOUS
<1>2. ASSUME y < z PROVE y * n + n <= z * n
  <2>1. (y + 1) * n <= z * n
    BY <1>2, Products
  <2>2. (y + 1) * n = y * n + n
    OBVIOUS
  <2> QED BY <2>1, <2>2
<1>3. ASSUME z < y PROVE z * n + n <= y * n
  <2>1. (z + 1) * n <= y * n
    BY <1>3, Products
  <2>2. (z + 1) * n = z * n + n
    OBVIOUS
  <2> QED BY <2>1, <2>2
<1>4. CASE y < z
  BY <1>1, <1>2, <1>4
<1>5. CASE z < y
  BY <1>1, <1>3, <1>5
<1>6. CASE z = y
  BY <1>1, <1>6
<1> QED BY <1>4, <1>5, <1>6

-----------------------------------------------------------------------------
(* Places                                                                  *)

(* The screen's places.                                                    *)
LEMMA SizeType == Size \in Nat \ {0} /\ Positions = 0..(Size - 1) /\ Size = Height * Width
<1>1. Width * Height \in Nat \ {0} /\ Width * Height = Height * Width
  BY DimensionsAssumption
<1> QED BY <1>1 DEF Size, Positions

(* A place lies in a row and a column of the screen.                       *)
LEMMA PlaceOf ==
    ASSUME NEW p \in Positions
    PROVE  /\ Row(p) \in 0..(Height - 1) /\ Col(p) \in 0..(Width - 1)
           /\ p = Row(p) * Width + Col(p) /\ p \in Nat
<1>1. p \in Nat /\ p < Height * Width /\ Height * Width \in Nat
  BY SizeType
<1>2. Row(p) \in Nat /\ Col(p) \in 0..(Width - 1) /\ p = Row(p) * Width + Col(p)
  BY <1>1, Remainder, DimensionsAssumption DEF Row, Col
<1>3. Row(p) < Height
  <2>1. ASSUME Height <= Row(p) PROVE FALSE
    <3>1. Height * Width <= Row(p) * Width
      BY <1>2, <2>1, Products, DimensionsAssumption
    <3>2. Row(p) * Width \in Int
      BY <1>2, DimensionsAssumption
    <3> QED BY <1>1, <1>2, <3>1, <3>2
  <2> QED BY <1>2, <2>1, DimensionsAssumption
<1> QED BY <1>1, <1>2, <1>3, DimensionsAssumption

(* A row and a column have a place.                                        *)
LEMMA PlaceAt ==
    ASSUME NEW y \in 0..(Height - 1), NEW x \in 0..(Width - 1)
    PROVE  /\ y * Width + x \in Positions
           /\ Row(y * Width + x) = y /\ Col(y * Width + x) = x
           /\ y * Width \in Nat
<1>1. y * Width \in Nat /\ Height * Width \in Nat
  BY DimensionsAssumption, Products
<1>2. (y + 1) * Width <= Height * Width
  BY DimensionsAssumption, Products
<1>3. (y + 1) * Width = y * Width + Width
  BY DimensionsAssumption, Products
<1>4. y * Width + x < Height * Width
  BY <1>1, <1>2, <1>3, DimensionsAssumption
<1>5. y * Width + x \in Positions
  BY <1>1, <1>4, SizeType
<1>6. Row(y * Width + x) = y /\ Col(y * Width + x) = x
  BY Quotient, DimensionsAssumption DEF Row, Col
<1> QED BY <1>1, <1>5, <1>6

-----------------------------------------------------------------------------
(* Where a field lies                                                      *)

StartOf(f) == f.startY * Width + f.startX

EndOf(f) == f.endY * Width + f.endX

(* The field starts in a row, which may be the one below the screen, and   *)
(* ends in one of the screen's.                                            *)
Shaped(f) ==
    /\ f.startX \in 0..(Width - 1) /\ f.startY \in 0..Height
    /\ f.endX \in 0..(Width - 1) /\ f.endY \in 0..(Height - 1)
    /\ f.input \in BOOLEAN

(* A field's first place may be behind the screen, its last one is not.    *)
LEMMA FieldPlaces ==
    ASSUME NEW f, Shaped(f)
    PROVE  /\ StartOf(f) \in Nat /\ EndOf(f) \in Positions
           /\ IsEmpty(f) <=> EndOf(f) < StartOf(f)
           /\ f.startY = Height => IsEmpty(f)
<1>1. f.startY \in Nat /\ f.endY \in Nat /\ f.startX \in 0..(Width - 1) /\ f.endX \in 0..(Width - 1)
  BY DimensionsAssumption DEF Shaped
<1>2. StartOf(f) \in Nat
  <2>1. f.startY * Width \in Nat
    BY <1>1, DimensionsAssumption, Products
  <2> QED BY <1>1, <2>1, DimensionsAssumption DEF StartOf
<1>3. EndOf(f) \in Positions
  BY PlaceAt DEF Shaped, EndOf
<1>4. StartOf(f) <= EndOf(f) <=> f.startY < f.endY \/ (f.startY = f.endY /\ f.startX <= f.endX)
  BY <1>1, Order, DimensionsAssumption DEF StartOf, EndOf
<1>5. EndOf(f) \in Int
  BY <1>3, SizeType
<1>6. IsEmpty(f) <=> EndOf(f) < StartOf(f)
  <2>1. IsEmpty(f) <=> ~(f.startY < f.endY \/ (f.startY = f.endY /\ f.startX <= f.endX))
    BY <1>1, DimensionsAssumption DEF IsEmpty
  <2> QED BY <1>2, <1>4, <1>5, <2>1
<1>7. f.startY = Height => IsEmpty(f)
  BY <1>1, DimensionsAssumption DEF Shaped, IsEmpty
<1> QED BY <1>2, <1>3, <1>6, <1>7

(* A place is in a field exactly if it lies between its ends. *)
LEMMA ContainsPlace ==
    ASSUME NEW f, Shaped(f), ~IsEmpty(f), NEW p \in Positions
    PROVE  FieldContains(f, Col(p), Row(p)) <=> StartOf(f) <= p /\ p <= EndOf(f)
<1> DEFINE x == Col(p)
           y == Row(p)
<1>1. y \in 0..(Height - 1) /\ x \in 0..(Width - 1) /\ p = y * Width + x
  BY PlaceOf
<1>2. f.startY \in Nat /\ f.endY \in Nat /\ f.startX \in 0..(Width - 1) /\ f.endX \in 0..(Width - 1)
  BY DimensionsAssumption DEF Shaped
<1> HIDE DEF x, y
<1>3. y \in Int /\ x \in Int /\ f.startX \in Int /\ f.endX \in Int
  BY <1>1, <1>2, DimensionsAssumption
<1>4. StartOf(f) <= p <=> f.startY < y \/ (f.startY = y /\ f.startX <= x)
  BY <1>1, <1>2, <1>3, Order, DimensionsAssumption DEF StartOf
<1>5. p <= EndOf(f) <=> y < f.endY \/ (y = f.endY /\ x <= f.endX)
  BY <1>1, <1>2, <1>3, Order, DimensionsAssumption DEF EndOf
<1>6. f.startY < f.endY \/ (f.startY = f.endY /\ f.startX <= f.endX)
  BY <1>2, <1>3 DEF IsEmpty
<1>7. FieldContains(f, x, y) <=>
        /\ f.startY < y \/ (f.startY = y /\ f.startX <= x)
        /\ y < f.endY \/ (y = f.endY /\ x <= f.endX)
  <2>1. CASE f.startY = f.endY
    BY <1>2, <1>3, <2>1 DEF FieldContains
  <2>2. CASE f.startY < f.endY
    BY <1>2, <1>3, <2>2 DEF FieldContains
  <2> QED BY <1>6, <2>1, <2>2
<1> QED BY <1>4, <1>5, <1>7 DEF x, y

(* Behind an attribute, and before one. *)
LEMMA StartPlace ==
    ASSUME NEW p \in Positions
    PROVE  LET s == StartAfter(p % Width, p \div Width, Width)
           IN  s[1] \in 0..(Width - 1) /\ s[2] \in 0..Height /\ s[2] * Width + s[1] = p + 1
<1> DEFINE x == Col(p)
           y == Row(p)
           s == StartAfter(x, y, Width)
<1>1. y \in 0..(Height - 1) /\ x \in 0..(Width - 1) /\ p = y * Width + x
  BY PlaceOf
<1>2. x = p % Width /\ y = p \div Width
  BY DEF Col, Row
<1> HIDE DEF x, y
<1>3. CASE x + 1 = Width
  <2>1. s[1] = 0 /\ s[2] = y + 1
    BY <1>3 DEF StartAfter
  <2>2. (y + 1) * Width = y * Width + Width /\ y * Width \in Int
    BY <1>1, Products, DimensionsAssumption
  <2> HIDE DEF s
  <2>3. s[2] * Width + s[1] = p + 1
    <3>1. (y + 1) * Width + 0 = p + 1
      BY <1>1, <1>3, <2>2, DimensionsAssumption
    <3> QED BY <2>1, <3>1
  <2>4. s[1] \in 0..(Width - 1) /\ s[2] \in 0..Height
    BY <1>1, <2>1, DimensionsAssumption
  <2> QED BY <1>2, <2>3, <2>4 DEF s
<1>4. CASE x + 1 # Width
  <2>1. s[1] = x + 1 /\ s[2] = y
    BY <1>4 DEF StartAfter
  <2>2. y * Width \in Int
    BY <1>1, DimensionsAssumption
  <2> HIDE DEF s
  <2>3. s[2] * Width + s[1] = p + 1
    BY <1>1, <2>1, <2>2, DimensionsAssumption
  <2>4. s[1] \in 0..(Width - 1) /\ s[2] \in 0..Height
    BY <1>1, <1>4, <2>1, DimensionsAssumption
  <2> QED BY <1>2, <2>3, <2>4 DEF s
<1> QED BY <1>3, <1>4

(* What ends before an attribute ends at the place before it.              *)
LEMMA EndPlace ==
    ASSUME NEW p \in Positions, p > 0
    PROVE  LET e == EndBefore(p % Width, p \div Width, Width)
           IN  e[1] \in 0..(Width - 1) /\ e[2] \in 0..(Height - 1) /\ e[2] * Width + e[1] = p - 1
<1> DEFINE x == Col(p)
           y == Row(p)
           e == EndBefore(x, y, Width)
<1>1. y \in 0..(Height - 1) /\ x \in 0..(Width - 1) /\ p = y * Width + x
  BY PlaceOf
<1>2. x = p % Width /\ y = p \div Width
  BY DEF Col, Row
<1> HIDE DEF x, y
<1>3. CASE x = 0
  <2>1. e[1] = Width - 1 /\ e[2] = y - 1
    BY <1>3 DEF EndBefore
  <2>2. (y - 1) * Width = y * Width - Width /\ y * Width \in Int
    BY <1>1, Products, DimensionsAssumption
  <2> HIDE DEF e
  <2>3. e[2] * Width + e[1] = p - 1
    <3>1. (y - 1) * Width + (Width - 1) = p - 1
      BY <1>1, <1>3, <2>2, DimensionsAssumption
    <3> QED BY <2>1, <3>1
  <2>4. y # 0
    <3>1. 0 * Width = 0
      BY DimensionsAssumption
    <3> QED BY <1>1, <1>3, <3>1
  <2>5. e[1] \in 0..(Width - 1) /\ e[2] \in 0..(Height - 1)
    BY <1>1, <2>1, <2>4, DimensionsAssumption
  <2> QED BY <1>2, <2>3, <2>5 DEF e
<1>4. CASE x # 0
  <2>1. e[1] = x - 1 /\ e[2] = y
    BY <1>4 DEF EndBefore
  <2>2. y * Width \in Int
    BY <1>1, DimensionsAssumption
  <2> HIDE DEF e
  <2>3. e[2] * Width + e[1] = p - 1
    BY <1>1, <2>1, <2>2, DimensionsAssumption
  <2>4. e[1] \in 0..(Width - 1) /\ e[2] \in 0..(Height - 1)
    BY <1>1, <1>4, <2>1, DimensionsAssumption
  <2> QED BY <1>2, <2>3, <2>4 DEF e
<1> QED BY <1>3, <1>4

(* The corner of the screen is its last place.                             *)
LEMMA LastPlace == (Height - 1) * Width + (Width - 1) = Size - 1
<1>1. (Height - 1) * Width = Height * Width - Width /\ Height * Width \in Int
  BY DimensionsAssumption
<1> QED BY <1>1, SizeType, DimensionsAssumption

-----------------------------------------------------------------------------
(* The fields of a screen                                                  *)

(* From an attribute, or the screen's top, to the next one, or its end.    *)
Formed(image, f) ==
    /\ Shaped(f)
    /\ StartOf(f) <= EndOf(f) + 1
    /\ EndOf(f) + 1 = Size \/ image[EndOf(f) + 1] \in Attributes
    /\ \A p \in Positions : StartOf(f) <= p /\ p <= EndOf(f) => image[p] \notin Attributes
    /\ f.input => StartOf(f) > 0 /\ image[StartOf(f) - 1] = "input"

(* Every field is, no two start at one place, and each that takes input is *)
(* there.                                                                  *)
Laid(image, fs) ==
    /\ \A k \in DOMAIN fs : Formed(image, fs[k])
    /\ \A j, k \in DOMAIN fs : StartOf(fs[j]) = StartOf(fs[k]) => j = k
    /\ \A p \in Positions :
        image[p] = "input" => \E k \in DOMAIN fs : fs[k].input /\ StartOf(fs[k]) = p + 1

(* The places of the attributes, in order. *)
AttributePlaces(image) ==
    Filter([i \in 1..(Width * Height) |-> i - 1], {p \in Positions : image[p] \in Attributes})

(* The places are those of all attributes, in order.                       *)
LEMMA PlacesInOrder ==
    ASSUME NEW image \in Screens
    PROVE  LET at == AttributePlaces(image)
           IN  /\ at \in Seq(Positions)
               /\ \A i \in 1..Len(at) : image[at[i]] \in Attributes
               /\ \A i, j \in 1..Len(at) : i < j => at[i] < at[j]
               /\ \A p \in Positions : image[p] \in Attributes => \E i \in 1..Len(at) : at[i] = p
<1> DEFINE places == [i \in 1..(Width * Height) |-> i - 1]
           S == {p \in Positions : image[p] \in Attributes}
           at == Filter(places, S)
<1>1. /\ places \in Seq(Positions) /\ Len(places) = Size /\ Size \in Nat
      /\ \A i \in 1..Size : places[i] = i - 1
  <2>1. Width * Height = Size /\ Size \in Nat
    BY SizeType DEF Size
  <2>2. places = [i \in 1..Size |-> i - 1]
    BY <2>1
  <2> HIDE DEF places
  <2>3. \A i \in 1..Size : i - 1 \in Positions
    BY SizeType
  <2> QED BY <2>1, <2>2, <2>3
<1> HIDE DEF places
<1>2. at \in Seq(Positions)
  BY <1>1, FilterType
<1>3. PICK idx \in [1..Len(at) -> 1..Len(places)] :
        /\ \A i \in DOMAIN idx : at[i] = places[idx[i]] /\ places[idx[i]] \in S
        /\ \A i, j \in DOMAIN idx : i < j => idx[i] < idx[j]
  BY <1>1, FilterIndices
<1>4. \A p \in Positions : p \in S => \E i \in 1..Len(at) : at[i] = p
  <2> SUFFICES ASSUME NEW p \in Positions, p \in S PROVE \E i \in 1..Len(at) : at[i] = p
    OBVIOUS
  <2>1. p + 1 \in 1..Len(places) /\ places[p + 1] = p
    BY <1>1, SizeType
  <2> HIDE DEF S
  <2>2. \E j \in 1..Len(at) : at[j] = places[p + 1]
    BY <1>1, <2>1, FilterComplete
  <2> QED BY <2>1, <2>2
<1> HIDE DEF at
<1>5. ASSUME NEW i \in 1..Len(at), NEW j \in 1..Len(at), i < j PROVE at[i] < at[j]
  <2>1. idx[i] < idx[j] /\ idx[i] \in 1..Size /\ idx[j] \in 1..Size
    BY <1>1, <1>3, <1>5
  <2>2. at[i] = idx[i] - 1 /\ at[j] = idx[j] - 1
    BY <1>1, <1>3, <2>1
  <2> QED BY <1>1, <2>1, <2>2
<1>6. \A i \in 1..Len(at) : image[at[i]] \in Attributes
  BY <1>3
<1>7. AttributePlaces(image) = at
  BY DEF AttributePlaces, at, places
<1> QED BY <1>2, <1>4, <1>5, <1>6, <1>7

(* The fields between such places. *)
FieldAfter(image, at, i) ==
    NewField(image[at[i]] = "input",
             StartAfter(at[i] % Width, at[i] \div Width, Width),
             IF i = Len(at) THEN <<Width - 1, Height - 1>>
             ELSE EndBefore(at[i + 1] % Width, at[i + 1] \div Width, Width))

FieldBefore(at) ==
    NewField(FALSE, <<0, 0>>,
             IF at = << >> THEN <<Width - 1, Height - 1>>
             ELSE EndBefore(at[1] % Width, at[1] \div Width, Width))

FieldsOf(image, at) ==
    (IF at # << >> /\ at[1] = 0 THEN << >> ELSE <<FieldBefore(at)>>)
        \o [i \in 1..Len(at) |-> FieldAfter(image, at, i)]

(* A cell is found in its row.                                             *)
LEMMA CellOfRows ==
    ASSUME NEW image, NEW p \in Positions
    PROVE  Rows(image)[1 + (p \div Width)][1 + (p % Width)] = image[p]
<1> DEFINE x == Col(p)
           y == Row(p)
<1>1. y \in 0..(Height - 1) /\ x \in 0..(Width - 1) /\ p = y * Width + x
  BY PlaceOf
<1>2. x = p % Width /\ y = p \div Width
  BY DEF Col, Row
<1> HIDE DEF x, y
<1>3. 1 + y \in 1..Height /\ (1 + y) - 1 = y /\ 1 + x \in 1..Width /\ y * Width \in Int
  BY <1>1, DimensionsAssumption
<1>4. Rows(image)[1 + y] = CellRow(image, y)
  BY <1>3 DEF Rows
<1>5. CellRow(image, y)[1 + x] = image[y * Width + (1 + x) - 1]
  BY <1>3 DEF CellRow
<1>6. y * Width + (1 + x) - 1 = p
  BY <1>1, <1>3, DimensionsAssumption
<1> QED BY <1>2, <1>4, <1>5, <1>6

(* decodeLineTokens finds the fields between the attributes' places.       *)
LEMMA DecodedFields ==
    ASSUME NEW image \in Screens
    PROVE  DecodeFields(Rows(image)) = FieldsOf(image, AttributePlaces(image))
<1> DEFINE rows == Rows(image)
           cell(p) == rows[1 + (p \div Width)][1 + (p % Width)]
           at == AttributePlaces(image)
<1>1. Len(rows) = Height /\ Len(rows[1]) = Width
  <2>1. rows[1] = CellRow(image, 0)
    BY DimensionsAssumption DEF Rows
  <2>2. Len(rows[1]) = Width
    BY <2>1, DimensionsAssumption DEF CellRow
  <2> QED BY <2>2, RowsLength
<1>2. \A p \in Positions : cell(p) = image[p]
  BY CellOfRows
<1>3. {p \in 0..(Width * Height - 1) : cell(p) \in Attributes} = {p \in Positions : image[p] \in Attributes}
  BY <1>2 DEF Positions
<1>4. at = Filter([i \in 1..(Width * Height) |-> i - 1],
                  {p \in 0..(Width * Height - 1) : cell(p) \in Attributes})
  BY <1>3 DEF AttributePlaces
<1>5. \A i \in 1..Len(at) : cell(at[i]) = image[at[i]]
  BY <1>2, PlacesInOrder
<1> DEFINE start(i) == StartAfter(at[i] % Width, at[i] \div Width, Width)
           end(i) == IF i = Len(at) THEN <<Width - 1, Height - 1>>
                     ELSE EndBefore(at[i + 1] % Width, at[i + 1] \div Width, Width)
           first == CASE at = << >> -> <<NewField(FALSE, <<0, 0>>, <<Width - 1, Height - 1>>)>>
                      [] at # << >> /\ at[1] = 0 -> << >>
                      [] OTHER -> <<NewField(FALSE, <<0, 0>>, EndBefore(at[1] % Width, at[1] \div Width, Width))>>
<1>6. DecodeFields(rows) = first \o [i \in 1..Len(at) |-> NewField(cell(at[i]) = "input", start(i), end(i))]
  <2> HIDE DEF rows
  <2> QED BY <1>1, <1>4 DEF DecodeFields
<1>7. [i \in 1..Len(at) |-> NewField(cell(at[i]) = "input", start(i), end(i))]
        = [i \in 1..Len(at) |-> FieldAfter(image, at, i)]
  <2> HIDE DEF at, rows
  <2> QED BY <1>5 DEF FieldAfter
<1>8. first = IF at # << >> /\ at[1] = 0 THEN << >> ELSE <<FieldBefore(at)>>
  <2> HIDE DEF at
  <2> QED BY DEF FieldBefore
<1> QED BY <1>6, <1>7, <1>8 DEF FieldsOf

InOrder(image, at) ==
    /\ at \in Seq(Positions)
    /\ \A i \in 1..Len(at) : image[at[i]] \in Attributes
    /\ \A i, j \in 1..Len(at) : i < j => at[i] < at[j]
    /\ \A p \in Positions : image[p] \in Attributes => \E i \in 1..Len(at) : at[i] = p

Fresh(f) == f \in Fields /\ Shaped(f) /\ f.value = Unread /\ f.changed = FALSE

(* A field that is made from a start and an end is at their places.        *)
LEMMA NewFieldShape ==
    ASSUME NEW input \in BOOLEAN, NEW start, NEW end,
           start[1] \in 0..(Width - 1), start[2] \in 0..Height,
           end[1] \in 0..(Width - 1), end[2] \in 0..(Height - 1)
    PROVE  LET f == NewField(input, start, end)
           IN  /\ Fresh(f) /\ f.input = input
               /\ StartOf(f) = start[2] * Width + start[1]
               /\ EndOf(f) = end[2] * Width + end[1]
<1> DEFINE f == NewField(input, start, end)
<1>1. Unread \in Seq(Seq(Chars))
  BY DEF Unread
<1>2. start[1] \in 0..Width
  BY DimensionsAssumption
<1>3. f \in Fields
  BY <1>1, <1>2 DEF NewField, Fields
<1> QED BY <1>3 DEF NewField, Fresh, Shaped, StartOf, EndOf

(* The field behind an attribute goes on to the next one. *)
LEMMA FormedAfter ==
    ASSUME NEW image \in Screens, NEW at, InOrder(image, at), NEW i \in 1..Len(at)
    PROVE  LET f == FieldAfter(image, at, i)
           IN  /\ Fresh(f) /\ Formed(image, f)
               /\ StartOf(f) = at[i] + 1
               /\ f.input <=> image[at[i]] = "input"
<1> DEFINE n == Len(at)
           next_ == IF i = n THEN Size ELSE at[i + 1]
           f == FieldAfter(image, at, i)
           s == StartAfter(at[i] % Width, at[i] \div Width, Width)
           e == IF i = n THEN <<Width - 1, Height - 1>>
                ELSE EndBefore(at[i + 1] % Width, at[i + 1] \div Width, Width)
<1>1. n \in Nat /\ i \in 1..n /\ \A k \in 1..n : at[k] \in Positions
  BY DEF InOrder
<1>2. i # n => i + 1 \in 1..n
  BY <1>1
<1>3. at[i] \in Nat /\ at[i] < Size /\ Size \in Nat
  BY <1>1, SizeType
<1>4. next_ \in Nat /\ at[i] < next_ /\ next_ <= Size
  <2>1. CASE i = n
    BY <1>3, <2>1
  <2>2. CASE i # n
    <3>1. at[i] < at[i + 1] /\ at[i + 1] \in Positions
      BY <1>1, <1>2, <2>2 DEF InOrder
    <3> QED BY <1>3, <2>2, <3>1, SizeType
  <2> QED BY <2>1, <2>2
<1>5. s[1] \in 0..(Width - 1) /\ s[2] \in 0..Height /\ s[2] * Width + s[1] = at[i] + 1
  BY <1>1, StartPlace
<1>6. e[1] \in 0..(Width - 1) /\ e[2] \in 0..(Height - 1) /\ e[2] * Width + e[1] = next_ - 1
  <2>1. CASE i = n
    <3>1. e[1] = Width - 1 /\ e[2] = Height - 1 /\ next_ = Size
      BY <2>1
    <3> HIDE DEF e, next_
    <3> QED BY <3>1, LastPlace, DimensionsAssumption
  <2>2. CASE i # n
    <3>1. at[i + 1] \in Positions /\ at[i + 1] > 0
      BY <1>1, <1>2, <1>3, <1>4, <2>2
    <3>2. e = EndBefore(at[i + 1] % Width, at[i + 1] \div Width, Width) /\ next_ = at[i + 1]
      BY <2>2
    <3> HIDE DEF e, next_
    <3> QED BY <3>1, <3>2, EndPlace
  <2> QED BY <2>1, <2>2
<1>7. f = NewField(image[at[i]] = "input", s, e)
  BY DEF FieldAfter
<1> HIDE DEF s, e, f
<1> DEFINE takes == image[at[i]] = "input"
<1>8. takes \in BOOLEAN /\ f = NewField(takes, s, e)
  BY <1>7
<1> HIDE DEF takes
<1>9. Fresh(f) /\ f.input = takes /\ StartOf(f) = at[i] + 1 /\ EndOf(f) = next_ - 1
  <2>1. /\ Fresh(NewField(takes, s, e)) /\ NewField(takes, s, e).input = takes
        /\ StartOf(NewField(takes, s, e)) = s[2] * Width + s[1]
        /\ EndOf(NewField(takes, s, e)) = e[2] * Width + e[1]
    BY <1>5, <1>6, <1>8, NewFieldShape
  <2> QED BY <1>5, <1>6, <1>8, <2>1
<1>10. EndOf(f) + 1 = next_ /\ StartOf(f) - 1 = at[i]
  BY <1>3, <1>4, <1>9
<1>11. next_ = Size \/ image[next_] \in Attributes
  BY <1>2 DEF InOrder
<1>12. ASSUME NEW p \in Positions, StartOf(f) <= p, p <= EndOf(f), image[p] \in Attributes PROVE FALSE
  <2>1. p \in Nat /\ at[i] < p /\ p < next_ /\ p < Size
    BY <1>3, <1>4, <1>9, <1>12, SizeType
  <2>2. PICK k \in 1..n : at[k] = p
    BY <1>12 DEF InOrder
  <2>3. k <= i \/ k >= i + 1
    BY <1>1, <2>2
  <2>4. CASE k <= i
    <3>1. k = i \/ k < i
      BY <1>1, <2>2, <2>4
    <3>2. at[k] <= at[i]
      BY <1>1, <1>3, <2>2, <3>1, SizeType DEF InOrder
    <3> QED BY <1>3, <2>1, <2>2, <3>2
  <2>5. CASE k >= i + 1
    <3>1. i + 1 \in 1..n /\ i # n /\ (k = i + 1 \/ i + 1 < k)
      BY <1>1, <2>2, <2>5
    <3>2. next_ = at[i + 1] /\ at[i + 1] \in Positions
      BY <1>1, <3>1
    <3>3. at[i + 1] <= at[k]
      BY <1>1, <2>2, <3>1, <3>2, SizeType DEF InOrder
    <3> HIDE DEF next_
    <3> QED BY <1>4, <2>1, <2>2, <3>2, <3>3
  <2> QED BY <2>3, <2>4, <2>5
<1> HIDE DEF next_
<1>13. Formed(image, f)
  <2>1. StartOf(f) <= EndOf(f) + 1
    BY <1>3, <1>4, <1>9, <1>10
  <2>2. StartOf(f) > 0
    BY <1>3, <1>9
  <2> QED BY <1>9, <1>10, <1>11, <1>12, <2>1, <2>2 DEF Formed, Fresh, takes
<1> QED BY <1>9, <1>13 DEF f, takes

(* The cells before the first attribute are one more. *)
LEMMA FormedBefore ==
    ASSUME NEW image \in Screens, NEW at, InOrder(image, at), at = << >> \/ at[1] # 0
    PROVE  LET f == FieldBefore(at)
           IN  /\ Fresh(f) /\ Formed(image, f)
               /\ StartOf(f) = 0 /\ f.input = FALSE
<1> DEFINE n == Len(at)
           next_ == IF at = << >> THEN Size ELSE at[1]
           f == FieldBefore(at)
           s == <<0, 0>>
           e == IF at = << >> THEN <<Width - 1, Height - 1>>
                ELSE EndBefore(at[1] % Width, at[1] \div Width, Width)
<1>1. n \in Nat /\ (\A k \in 1..n : at[k] \in Positions) /\ Size \in Nat \ {0}
  BY SizeType DEF InOrder
<1>2. at # << >> => 1 \in 1..n
  BY DEF InOrder
<1>3. next_ \in Nat /\ 0 < next_ /\ next_ <= Size
  <2>1. CASE at = << >>
    BY <1>1, <2>1
  <2>2. CASE at # << >>
    <3>1. at[1] \in Positions /\ at[1] # 0
      BY <1>1, <1>2, <2>2
    <3> QED BY <1>1, <2>2, <3>1, SizeType
  <2> QED BY <2>1, <2>2
<1>4. s[1] \in 0..(Width - 1) /\ s[2] \in 0..Height /\ s[2] * Width + s[1] = 0
  BY DimensionsAssumption
<1>5. e[1] \in 0..(Width - 1) /\ e[2] \in 0..(Height - 1) /\ e[2] * Width + e[1] = next_ - 1
  <2>1. CASE at = << >>
    <3>1. e[1] = Width - 1 /\ e[2] = Height - 1 /\ next_ = Size
      BY <2>1
    <3> HIDE DEF e, next_
    <3> QED BY <3>1, LastPlace, DimensionsAssumption
  <2>2. CASE at # << >>
    <3>1. at[1] \in Positions /\ at[1] > 0
      BY <1>1, <1>2, <1>3, <2>2
    <3>2. e = EndBefore(at[1] % Width, at[1] \div Width, Width) /\ next_ = at[1]
      BY <2>2
    <3> HIDE DEF e, next_
    <3> QED BY <3>1, <3>2, EndPlace
  <2> QED BY <2>1, <2>2
<1>6. f = NewField(FALSE, s, e)
  BY DEF FieldBefore
<1> HIDE DEF s, e, f
<1>7. Fresh(f) /\ f.input = FALSE /\ StartOf(f) = 0 /\ EndOf(f) = next_ - 1
  BY <1>4, <1>5, <1>6, NewFieldShape
<1>8. EndOf(f) + 1 = next_
  BY <1>3, <1>7
<1>9. next_ = Size \/ image[next_] \in Attributes
  BY <1>2 DEF InOrder
<1>10. ASSUME NEW p \in Positions, StartOf(f) <= p, p <= EndOf(f), image[p] \in Attributes PROVE FALSE
  <2>1. p \in Nat /\ p < next_ /\ p < Size
    BY <1>3, <1>7, <1>10, SizeType
  <2>2. PICK k \in 1..n : at[k] = p
    BY <1>10 DEF InOrder
  <2>3. at # << >> /\ 1 \in 1..n /\ (k = 1 \/ 1 < k)
    BY <1>1, <1>2, <2>2
  <2>4. next_ = at[1] /\ at[1] \in Positions
    BY <1>1, <2>3
  <2>5. at[1] <= at[k]
    BY <1>1, <2>2, <2>3, <2>4, SizeType DEF InOrder
  <2> HIDE DEF next_
  <2> QED BY <1>3, <2>1, <2>2, <2>4, <2>5
<1> HIDE DEF next_
<1>11. Formed(image, f)
  <2>1. StartOf(f) <= EndOf(f) + 1
    BY <1>3, <1>7, <1>8
  <2> QED BY <1>7, <1>8, <1>9, <1>10, <2>1 DEF Formed, Fresh
<1> QED BY <1>7, <1>11 DEF f

(* The fields of a screen lie as they should. *)
LEMMA FieldsLaid ==
    ASSUME NEW image \in Screens, NEW at, InOrder(image, at)
    PROVE  LET fs == FieldsOf(image, at)
           IN  /\ fs \in Seq(Fields)
               /\ Laid(image, fs)
               /\ \A k \in DOMAIN fs : Fresh(fs[k])
<1> DEFINE n == Len(at)
           head == IF at # << >> /\ at[1] = 0 THEN << >> ELSE <<FieldBefore(at)>>
           tail == [i \in 1..n |-> FieldAfter(image, at, i)]
           fs == head \o tail
           m == Len(head)
<1>1. n \in Nat /\ \A i \in 1..n : at[i] \in Nat
  BY SizeType DEF InOrder
<1>2. \A i \in 1..n : /\ Fresh(tail[i]) /\ Formed(image, tail[i])
                      /\ StartOf(tail[i]) = at[i] + 1
                      /\ tail[i].input <=> image[at[i]] = "input"
  BY FormedAfter
<1>3. /\ head \in Seq(Fields) /\ m \in {0, 1}
      /\ m = 1 => /\ Fresh(head[1]) /\ Formed(image, head[1])
                  /\ StartOf(head[1]) = 0 /\ head[1].input = FALSE
  <2>1. CASE at # << >> /\ at[1] = 0
    BY <2>1
  <2>2. CASE at = << >> \/ at[1] # 0
    <3> DEFINE b == FieldBefore(at)
    <3>1. Fresh(b) /\ Formed(image, b) /\ StartOf(b) = 0 /\ b.input = FALSE
      BY <2>2, FormedBefore
    <3> HIDE DEF b
    <3>2. head = <<b>>
      BY <2>2 DEF b
    <3>3. b \in Fields
      BY <3>1 DEF Fresh
    <3> QED BY <3>1, <3>2, <3>3
  <2> QED BY <2>1, <2>2
<1>4. tail \in Seq(Fields) /\ Len(tail) = n
  <2>1. \A i \in 1..n : tail[i] \in Fields
    BY <1>2 DEF Fresh
  <2>2. tail = [i \in 1..n |-> tail[i]]
    OBVIOUS
  <2> HIDE DEF tail
  <2> QED BY <1>1, <2>1, <2>2
<1> HIDE DEF head, tail
<1>5. fs \in Seq(Fields) /\ Len(fs) = m + n /\ m \in Nat
  BY <1>1, <1>3, <1>4
<1>6. \A k \in 1..m : fs[k] = head[k]
  BY <1>3, <1>4
<1>7. \A i \in 1..n : fs[m + i] = tail[i] /\ m + i \in 1..(m + n)
  BY <1>1, <1>3, <1>4
<1>8. DOMAIN fs = 1..(m + n)
  BY <1>5
<1> HIDE DEF fs, m, n
<1>9. \A k \in 1..(m + n) : (m = 1 /\ k = 1) \/ \E i \in 1..n : k = m + i
  <2> SUFFICES ASSUME NEW k \in 1..(m + n), ~(m = 1 /\ k = 1) PROVE \E i \in 1..n : k = m + i
    OBVIOUS
  <2>1. k - m \in 1..n /\ k = m + (k - m)
    BY <1>1, <1>3
  <2> QED BY <2>1
<1>10. \A k \in 1..(m + n) : Fresh(fs[k]) /\ Formed(image, fs[k])
  <2> SUFFICES ASSUME NEW k \in 1..(m + n) PROVE Fresh(fs[k]) /\ Formed(image, fs[k])
    OBVIOUS
  <2>1. CASE m = 1 /\ k = 1
    <3>1. fs[k] = head[1]
      BY <1>6, <2>1
    <3> QED BY <1>3, <2>1, <3>1
  <2>2. CASE \E i \in 1..n : k = m + i
    BY <1>2, <1>7, <2>2
  <2> QED BY <1>9, <2>1, <2>2
<1>11. ASSUME NEW j \in 1..(m + n), NEW k \in 1..(m + n), StartOf(fs[j]) = StartOf(fs[k]) PROVE j = k
  <2>1. \A i \in 1..n : StartOf(fs[m + i]) = at[i] + 1 /\ at[i] + 1 > 0
    BY <1>1, <1>2, <1>7
  <2>2. m = 1 => StartOf(fs[1]) = 0
    BY <1>3, <1>6
  <2>3. CASE m = 1 /\ (j = 1 \/ k = 1)
    BY <1>1, <1>9, <1>11, <2>1, <2>2, <2>3
  <2>4. CASE ~(m = 1 /\ (j = 1 \/ k = 1))
    <3>1. PICK a \in 1..n : j = m + a
      BY <1>9, <2>4
    <3>2. PICK b \in 1..n : k = m + b
      BY <1>9, <2>4
    <3>3. at[a] + 1 = at[b] + 1
      BY <1>11, <2>1, <3>1, <3>2
    <3>4. at[a] = at[b] /\ a \in Nat /\ b \in Nat
      BY <1>1, <3>3
    <3>5. a = b
      <4>1. a < b \/ a = b \/ b < a
        BY <3>4
      <4>2. ~(a < b) /\ ~(b < a)
        BY <1>1, <3>4 DEF InOrder, n
      <4> QED BY <4>1, <4>2
    <3> QED BY <3>1, <3>2, <3>5
  <2> QED BY <2>3, <2>4
<1>12. ASSUME NEW p \in Positions, image[p] = "input"
       PROVE  \E k \in 1..(m + n) : fs[k].input /\ StartOf(fs[k]) = p + 1
  <2>1. PICK i \in 1..n : at[i] = p
    BY <1>12 DEF InOrder, n, Attributes
  <2> QED BY <1>2, <1>7, <1>12, <2>1
<1>13. Laid(image, fs)
  BY <1>8, <1>10, <1>11, <1>12 DEF Laid
<1>14. fs = FieldsOf(image, at)
  BY DEF fs, head, tail, n, FieldsOf
<1> QED BY <1>5, <1>8, <1>10, <1>13, <1>14

-----------------------------------------------------------------------------
(* Where the emulator takes input                                          *)

(* The attribute at a is the last one before p. *)
Governs(image, a, p) ==
    /\ a \in Positions /\ image[a] \in Attributes /\ a < p
    /\ \A q \in Positions : a < q /\ q <= p => image[q] \notin Attributes

Distance(p, q) == (p + Size - q) % Size

(* How far it is back from p to q, around the screen.                      *)
LEMMA DistanceIs ==
    ASSUME NEW p \in Positions, NEW q \in Positions
    PROVE  Distance(p, q) = IF q <= p THEN p - q ELSE p + Size - q
<1>1. p \in 0..(Size - 1) /\ q \in 0..(Size - 1) /\ Size \in Nat \ {0}
  BY SizeType
<1>2. CASE q <= p
  <2> DEFINE k == p - q
  <2>1. k \in 0..(Size - 1) /\ p + Size - q = Size + k
    BY <1>1, <1>2
  <2> HIDE DEF k
  <2>2. (Size + k) % Size = k
    BY <1>1, <2>1, Division
  <2> QED BY <1>2, <2>1, <2>2 DEF Distance, k
<1>3. CASE p < q
  <2>1. p + Size - q \in 0..(Size - 1)
    BY <1>1, <1>3
  <2>2. (p + Size - q) % Size = p + Size - q
    BY <1>1, <2>1, Division
  <2> QED BY <1>1, <1>3, <2>2 DEF Distance
<1> QED BY <1>1, <1>2, <1>3

(* The last attribute before a place is the one of its field.              *)
LEMMA AttributeBefore ==
    ASSUME NEW image, NEW p \in Positions, NEW a, Governs(image, a, p)
    PROVE  Attribute(image, p) = a
<1> DEFINE S == {q \in Positions : image[q] \in Attributes}
           nearest == CHOOSE q \in S : \A r \in S : Distance(p, q) <= Distance(p, r)
<1>1. a \in S /\ a < p
  BY DEF Governs
<1>2. p \in 0..(Size - 1) /\ Size \in Nat \ {0} /\ a \in 0..(Size - 1)
  BY <1>1, SizeType
<1>3. ASSUME NEW r \in S PROVE p - a <= Distance(p, r) /\ (Distance(p, r) <= p - a => r = a)
  <2>1. r \in 0..(Size - 1) /\ r \in Positions
    BY <1>3, SizeType
  <2>2. Distance(p, r) = IF r <= p THEN p - r ELSE p + Size - r
    BY <2>1, DistanceIs
  <2>3. r <= a \/ p < r
    BY <1>2, <1>3, <2>1 DEF Governs
  <2> QED BY <1>1, <1>2, <2>1, <2>2, <2>3
<1>4. Distance(p, a) = p - a
  BY <1>1, <1>2, DistanceIs, SizeType
<1>5. Attribute(image, p) = nearest
  BY DEF Attribute, Distance
<1> HIDE DEF S, nearest
<1>6. nearest \in S /\ \A r \in S : Distance(p, nearest) <= Distance(p, r)
  <2>1. \A r \in S : Distance(p, a) <= Distance(p, r)
    BY <1>3, <1>4
  <2> QED BY <1>1, <2>1 DEF nearest
<1>7. Distance(p, nearest) <= p - a
  BY <1>1, <1>4, <1>6
<1>8. nearest = a
  BY <1>3, <1>6, <1>7
<1> QED BY <1>5, <1>8

(* A place behind an attribute has a last one before it.                   *)
LEMMA GovernedPlace ==
    ASSUME NEW image, NEW p \in Positions, NEW q \in Positions,
           q < p, image[q] \in Attributes, image[p] \notin Attributes
    PROVE  \E a \in Positions : Governs(image, a, p)
<1> DEFINE S == {r \in 0..p : image[r] \in Attributes}
<1>1. p \in Nat /\ p < Size /\ Size \in Nat /\ Positions = 0..(Size - 1)
  BY SizeType
<1>2. q \in S
  BY <1>1
<1>3. PICK a \in S : \A r \in S : r <= a
  <2>1. S \in SUBSET (0..p) /\ S # {}
    BY <1>2
  <2> HIDE DEF S
  <2> QED BY <1>1, <2>1, Greatest
<1>4. a \in Positions /\ a < p /\ a \in Nat
  BY <1>1, <1>3
<1>5. ASSUME NEW r \in Positions, a < r, r <= p PROVE image[r] \notin Attributes
  <2>1. r \in 0..p
    BY <1>1, <1>5
  <2>2. ~(r <= a)
    BY <1>4, <1>5, <2>1
  <2> QED BY <1>3, <2>1, <2>2
<1> QED BY <1>3, <1>4, <1>5 DEF Governs

(* The emulator takes input there exactly if that one is an input's.       *)
LEMMA GovernedInput ==
    ASSUME NEW image, NEW p \in Positions, NEW a, Governs(image, a, p)
    PROVE  IsInput(image, p) <=> image[a] = "input"
<1>1. Attribute(image, p) = a
  BY AttributeBefore
<1>2. image[p] \notin Attributes
  BY SizeType DEF Governs
<1> QED BY <1>1, <1>2 DEF IsInput, Governs

-----------------------------------------------------------------------------
(* The cursor's field                                                      *)

(* In an input field the emulator takes input. *)
LEMMA FieldTakesInput ==
    ASSUME NEW image, NEW f, Formed(image, f), f.input,
           NEW p \in Positions, StartOf(f) <= p, p <= EndOf(f)
    PROVE  Governs(image, StartOf(f) - 1, p) /\ IsInput(image, p)
<1>1. StartOf(f) \in Nat /\ EndOf(f) \in Positions /\ p \in Nat
  BY FieldPlaces, SizeType DEF Formed
<1>2. StartOf(f) > 0 /\ image[StartOf(f) - 1] = "input"
  BY DEF Formed
<1>3. StartOf(f) - 1 \in Positions /\ StartOf(f) - 1 < p
  BY <1>1, <1>2, SizeType
<1>4. ASSUME NEW q \in Positions, StartOf(f) - 1 < q, q <= p PROVE image[q] \notin Attributes
  <2>1. StartOf(f) <= q /\ q <= EndOf(f)
    BY <1>1, <1>4, SizeType
  <2> QED BY <2>1 DEF Formed
<1>5. Governs(image, StartOf(f) - 1, p)
  BY <1>2, <1>3, <1>4 DEF Governs, Attributes
<1> QED BY <1>2, <1>5, GovernedInput

(* The input field behind an attribute has the places it governs. *)
LEMMA GovernedByField ==
    ASSUME NEW image, NEW f, Formed(image, f), NEW p \in Positions, NEW a,
           Governs(image, a, p), StartOf(f) = a + 1
    PROVE  StartOf(f) <= p /\ p <= EndOf(f)
<1>1. a \in Nat /\ p \in Nat /\ a < p /\ EndOf(f) \in Nat /\ EndOf(f) < Size /\ p < Size /\ Size \in Nat
  BY FieldPlaces, SizeType DEF Formed, Governs
<1>2. ASSUME EndOf(f) < p PROVE FALSE
  <2>1. EndOf(f) + 1 \in Positions /\ EndOf(f) + 1 <= p
    BY <1>1, <1>2, SizeType
  <2>2. a < EndOf(f) + 1
    BY <1>1 DEF Formed
  <2>3. image[EndOf(f) + 1] \notin Attributes
    BY <2>1, <2>2 DEF Governs
  <2> QED BY <1>1, <1>2, <2>3 DEF Formed
<1> QED BY <1>1, <1>2

(* GetInputFieldAt finds a field exactly if there is one.                  *)
LEMMA FoundField ==
    ASSUME NEW fs \in Seq(Fields), NEW x, NEW y
    PROVE  LET there == {i \in DOMAIN fs : fs[i].input /\ FieldContains(fs[i], x, y)}
               found == InputFieldAt(fs, x, y)
           IN  /\ found = 0 => there = {}
               /\ found # 0 => found \in there
<1> DEFINE there == {i \in DOMAIN fs : fs[i].input /\ FieldContains(fs[i], x, y)}
           found == InputFieldAt(fs, x, y)
<1>1. there \in SUBSET Nat /\ 0 \notin there
  OBVIOUS
<1>2. found = IF there = {} THEN 0 ELSE CHOOSE i \in there : \A j \in there : i <= j
  BY DEF InputFieldAt
<1> HIDE DEF there, found
<1>3. CASE there # {}
  <2>1. \E i \in there : \A j \in there : i <= j
    BY <1>1, <1>3, Least
  <2>2. found \in there
    BY <1>2, <1>3, <2>1
  <2> QED BY <1>1, <1>3, <2>2 DEF there, found
<1> QED BY <1>2, <1>3 DEF there, found

(* Program and emulator agree on the cursor's field, if the fields lie as  *)
(* they should.                                                            *)
LEMMA LaidFieldFound ==
    ASSUME NEW image, NEW fs \in Seq(Fields), Laid(image, fs), NEW p \in Positions
    PROVE  LET found == InputFieldAt(fs, Col(p), Row(p))
           IN  /\ found = 0 /\ IsInput(image, p)
                    => \A q \in Positions : image[q] \in Attributes => p < q
               /\ found # 0 /\ ~IsEmpty(fs[found]) => IsInput(image, p)
<1> DEFINE found == InputFieldAt(fs, Col(p), Row(p))
           there == {i \in DOMAIN fs : fs[i].input /\ FieldContains(fs[i], Col(p), Row(p))}
<1>1. (found = 0 => there = {}) /\ (found # 0 => found \in there)
  BY FoundField
<1>2. ASSUME found = 0, IsInput(image, p), NEW q \in Positions, image[q] \in Attributes, ~(p < q)
      PROVE  FALSE
  <2>1. image[p] \notin Attributes
    BY <1>2 DEF IsInput
  <2>2. q < p
    BY <1>2, <2>1, SizeType
  <2>3. PICK a \in Positions : Governs(image, a, p)
    BY <1>2, <2>1, <2>2, GovernedPlace
  <2>4. image[a] = "input"
    BY <1>2, <2>3, GovernedInput
  <2>5. PICK k \in DOMAIN fs : fs[k].input /\ StartOf(fs[k]) = a + 1
    BY <2>3, <2>4 DEF Laid
  <2>6. Formed(image, fs[k])
    BY <2>5 DEF Laid
  <2> HIDE DEF found
  <2>7. StartOf(fs[k]) <= p /\ p <= EndOf(fs[k])
    BY <2>3, <2>5, <2>6, GovernedByField
  <2>8. Shaped(fs[k]) /\ ~IsEmpty(fs[k])
    BY <2>6, <2>7, FieldPlaces, SizeType DEF Formed
  <2>9. FieldContains(fs[k], Col(p), Row(p))
    BY <2>7, <2>8, ContainsPlace
  <2>10. k \in there
    BY <2>5, <2>9
  <2> QED BY <1>1, <1>2, <2>10
<1>3. ASSUME found # 0, ~IsEmpty(fs[found]) PROVE IsInput(image, p)
  <2> HIDE DEF found
  <2>1. found \in DOMAIN fs /\ fs[found].input /\ FieldContains(fs[found], Col(p), Row(p))
    BY <1>1, <1>3
  <2>2. Formed(image, fs[found])
    BY <2>1 DEF Laid
  <2>3. StartOf(fs[found]) <= p /\ p <= EndOf(fs[found])
    BY <1>3, <2>1, <2>2, ContainsPlace DEF Formed
  <2> QED BY <2>1, <2>2, <2>3, FieldTakesInput
<1> QED BY <1>2, <1>3

-----------------------------------------------------------------------------
(* Texts                                                                   *)

(* What is trimmed is between the first character and the last one. *)
Trims(line, lo, hi) ==
    /\ lo \in 1..Len(line) /\ hi \in 1..Len(line) /\ lo <= hi
    /\ line[lo] # Blank /\ line[hi] # Blank
    /\ \A i \in 1..Len(line) : line[i] # Blank => lo <= i /\ i <= hi

(* Either nothing is left of a line, or the part between its outer         *)
(* characters.                                                             *)
LEMMA TrimIs ==
    ASSUME NEW line \in Seq(Chars)
    PROVE  \/ (\A i \in 1..Len(line) : line[i] = Blank) /\ Trim(line) = << >>
           \/ \E lo, hi \in 1..Len(line) : Trims(line, lo, hi) /\ Trim(line) = SubSeq(line, lo, hi)
<1> DEFINE dark == {i \in DOMAIN line : line[i] # Blank}
           lo == CHOOSE i \in dark : \A j \in dark : i <= j
           hi == CHOOSE i \in dark : \A j \in dark : i >= j
<1>1. dark \in SUBSET (1..Len(line)) /\ Len(line) \in Nat /\ DOMAIN line = 1..Len(line)
  OBVIOUS
<1>2. Trim(line) = IF dark = {} THEN << >> ELSE SubSeq(line, lo, hi)
  BY DEF Trim
<1>3. CASE dark = {}
  BY <1>1, <1>2, <1>3
<1>4. CASE dark # {}
  <2> HIDE DEF dark
  <2>1. lo \in dark /\ \A j \in dark : lo <= j
    <3>1. \E i \in dark : \A j \in dark : i <= j
      BY <1>1, <1>4, Least
    <3> QED BY <3>1
  <2>2. hi \in dark /\ \A j \in dark : hi >= j
    <3>1. dark \in SUBSET (0..Len(line))
      BY <1>1
    <3>2. \E i \in dark : \A j \in dark : j <= i
      BY <1>1, <1>4, <3>1, Greatest
    <3>3. \E i \in dark : \A j \in dark : i >= j
      BY <3>2, <1>1
    <3> QED BY <3>3
  <2> HIDE DEF lo, hi
  <2>3. lo \in 1..Len(line) /\ hi \in 1..Len(line) /\ lo <= hi
    BY <1>1, <2>1, <2>2
  <2>4. line[lo] # Blank /\ line[hi] # Blank
    BY <2>1, <2>2 DEF dark
  <2>5. \A i \in 1..Len(line) : line[i] # Blank => lo <= i /\ i <= hi
    <3> TAKE i \in 1..Len(line)
    <3>1. line[i] # Blank => i \in dark
      BY <1>1 DEF dark
    <3> QED BY <1>1, <2>1, <2>2, <2>3, <3>1
  <2> QED BY <1>2, <1>4, <2>3, <2>4, <2>5 DEF Trims
<1> QED BY <1>3, <1>4

(* A trimmed line is not longer.                                           *)
LEMMA TrimType ==
    ASSUME NEW line \in Seq(Chars)
    PROVE  Trim(line) \in Seq(Chars) /\ Len(Trim(line)) <= Len(line)
<1>1. Len(line) \in Nat
  OBVIOUS
<1>2. CASE \E lo, hi \in 1..Len(line) : Trims(line, lo, hi) /\ Trim(line) = SubSeq(line, lo, hi)
  <2>1. PICK lo \in 1..Len(line), hi \in 1..Len(line) : Trims(line, lo, hi) /\ Trim(line) = SubSeq(line, lo, hi)
    BY <1>2
  <2>2. lo <= hi
    BY <2>1 DEF Trims
  <2>3. SubSeq(line, lo, hi) \in Seq(Chars) /\ Len(SubSeq(line, lo, hi)) = hi - lo + 1
    BY <1>1, <2>2
  <2> QED BY <1>1, <2>1, <2>2, <2>3
<1>3. CASE Trim(line) = << >>
  BY <1>1, <1>3
<1> QED BY <1>2, <1>3, TrimIs

(* Blanks at the end make no difference. *)
LEMMA TrimPadded ==
    ASSUME NEW line \in Seq(Chars), NEW row \in Seq(Chars), Len(line) <= Len(row),
           \A i \in 1..Len(row) : row[i] = IF i <= Len(line) THEN line[i] ELSE Blank
    PROVE  Trim(row) = Trim(line)
<1> DEFINE dark(l) == {i \in DOMAIN l : l[i] # Blank}
<1>1. Len(line) \in Nat /\ Len(row) \in Nat
  OBVIOUS
<1>2. dark(row) = dark(line)
  <2>1. \A i \in 1..Len(row) : row[i] # Blank <=> i \in 1..Len(line) /\ line[i] # Blank
    BY <1>1
  <2>2. 1..Len(line) \subseteq 1..Len(row)
    BY <1>1
  <2> QED BY <1>1, <2>1, <2>2
<1>3. CASE \E lo, hi \in 1..Len(line) : Trims(line, lo, hi) /\ Trim(line) = SubSeq(line, lo, hi)
  <2>1. PICK lo \in 1..Len(line), hi \in 1..Len(line) : Trims(line, lo, hi) /\ Trim(line) = SubSeq(line, lo, hi)
    BY <1>3
  <2>2. lo \in dark(line)
    BY <2>1 DEF Trims
  <2> DEFINE S == dark(line)
             m == CHOOSE i \in S : \A j \in S : i <= j
             n == CHOOSE i \in S : \A j \in S : i >= j
  <2>3. Trim(line) = SubSeq(line, m, n) /\ Trim(row) = SubSeq(row, m, n)
    BY <1>2, <2>2 DEF Trim
  <2>4. m = lo /\ n = hi
    <3>1. lo \in S /\ hi \in S /\ (\A j \in S : lo <= j /\ j <= hi) /\ S \subseteq Nat
      BY <2>1 DEF Trims
    <3> HIDE DEF S
    <3>2. m \in S /\ \A j \in S : m <= j
      BY <3>1
    <3>3. n \in S /\ \A j \in S : n >= j
      <4>1. \A j \in S : hi >= j
        BY <3>1
      <4> QED BY <3>1, <4>1
    <3> HIDE DEF m, n
    <3>4. m \in Nat /\ n \in Nat /\ m <= lo /\ lo <= m /\ n >= hi /\ n <= hi
      BY <3>1, <3>2, <3>3
    <3> QED BY <3>4
  <2> HIDE DEF m, n, S
  <2>5. SubSeq(row, lo, hi) = SubSeq(line, lo, hi)
    <3>1. lo \in 1..Len(row) /\ hi \in 1..Len(row) /\ lo <= hi
      BY <1>1, <2>1 DEF Trims
    <3>2. SubSeq(row, lo, hi) = [i \in 1..(hi - lo + 1) |-> row[lo + i - 1]]
      BY <1>1, <3>1
    <3>3. SubSeq(line, lo, hi) = [i \in 1..(hi - lo + 1) |-> line[lo + i - 1]]
      BY <1>1, <3>1
    <3>4. \A i \in 1..(hi - lo + 1) : row[lo + i - 1] = line[lo + i - 1]
      <4> TAKE i \in 1..(hi - lo + 1)
      <4>1. lo + i - 1 \in 1..Len(line) /\ lo + i - 1 \in 1..Len(row)
        BY <1>1, <3>1
      <4> QED BY <1>1, <4>1
    <3> QED BY <3>2, <3>3, <3>4
  <2> QED BY <2>3, <2>4, <2>5
<1>4. CASE (\A i \in 1..Len(line) : line[i] = Blank) /\ Trim(line) = << >>
  <2>1. dark(line) = {}
    BY <1>4
  <2>2. Trim(row) = << >>
    BY <1>2, <2>1 DEF Trim
  <2> QED BY <1>4, <2>2
<1> QED BY <1>3, <1>4, TrimIs

(* What is trimmed stays. *)
LEMMA TrimTwice ==
    ASSUME NEW line \in Seq(Chars)
    PROVE  Trim(Trim(line)) = Trim(line)
<1> DEFINE t == Trim(line)
<1>1. t \in Seq(Chars) /\ Len(line) \in Nat
  BY TrimType
<1>2. CASE \E lo, hi \in 1..Len(line) : Trims(line, lo, hi) /\ t = SubSeq(line, lo, hi)
  <2>1. PICK lo \in 1..Len(line), hi \in 1..Len(line) : Trims(line, lo, hi) /\ t = SubSeq(line, lo, hi)
    BY <1>2
  <2> HIDE DEF t
  <2>2. lo <= hi /\ line[lo] # Blank /\ line[hi] # Blank
    BY <2>1 DEF Trims
  <2>3. Len(t) = hi - lo + 1 /\ \A i \in 1..(hi - lo + 1) : t[i] = line[lo + i - 1]
    BY <1>1, <2>1, <2>2
  <2>4. Len(t) \in Nat \ {0} /\ t[1] # Blank /\ t[Len(t)] # Blank
    <3>1. 1 \in 1..(hi - lo + 1) /\ hi - lo + 1 \in 1..(hi - lo + 1)
      BY <2>2
    <3>2. lo + 1 - 1 = lo /\ lo + (hi - lo + 1) - 1 = hi
      OBVIOUS
    <3> QED BY <2>2, <2>3, <3>1, <3>2
  <2>5. PICK a \in 1..Len(t), b \in 1..Len(t) : Trims(t, a, b) /\ Trim(t) = SubSeq(t, a, b)
    BY <1>1, <2>4, TrimIs
  <2>6. a = 1 /\ b = Len(t)
    BY <2>4, <2>5 DEF Trims
  <2>7. SubSeq(t, 1, Len(t)) = t
    BY <1>1
  <2> QED BY <2>5, <2>6, <2>7 DEF t
<1>3. CASE t = << >>
  <2>1. Trim(<< >>) = << >>
    BY DEF Trim
  <2> QED BY <1>3, <2>1
<1> QED BY <1>2, <1>3, TrimIs

(* Every line is trimmed.                                                  *)
LEMMA NormalizeType ==
    ASSUME NEW lines \in Seq(Seq(Chars))
    PROVE  Normalize(lines) \in Seq(Seq(Chars)) /\ Len(Normalize(lines)) = Len(lines)
<1>1. \A i \in 1..Len(lines) : Trim(lines[i]) \in Seq(Chars)
  BY TrimType
<1>2. Normalize(lines) = [i \in 1..Len(lines) |-> Trim(lines[i])]
  BY DEF Normalize
<1> QED BY <1>1, <1>2

Buffers == [Positions -> Chars]

(* A buffer has characters only.                                           *)
LEMMA BufferType == ASSUME NEW image \in Screens PROVE Buffer(image) \in Buffers
BY BlankAssumption DEF Buffer, Buffers, Screens

(* A part of the buffer is a line of its length.                           *)
LEMMA BetweenType ==
    ASSUME NEW buffer \in Buffers, NEW p \in Nat, NEW q \in Int, p <= q + 1, q < Size
    PROVE  Between(buffer, p, q) \in Seq(Chars) /\ Len(Between(buffer, p, q)) = q - p + 1
<1>1. q - p + 1 \in Nat /\ Size \in Nat
  BY SizeType
<1>2. \A i \in 1..(q - p + 1) : p + i - 1 \in Positions
  BY SizeType
<1>3. \A i \in 1..(q - p + 1) : buffer[p + i - 1] \in Chars
  BY <1>2 DEF Buffers
<1> DEFINE n == q - p + 1
<1>4. Between(buffer, p, q) = [i \in 1..n |-> buffer[p + i - 1]]
  BY DEF Between
<1>5. n \in Nat /\ \A i \in 1..n : buffer[p + i - 1] \in Chars
  BY <1>1, <1>3
<1> HIDE DEF n
<1>6. Between(buffer, p, q) \in Seq(Chars) /\ Len(Between(buffer, p, q)) = n
  BY <1>4, <1>5
<1> QED BY <1>6 DEF n

(* The row y of a field. *)
RowStart(f, y) == IF y = f.startY THEN StartOf(f) ELSE y * Width

RowEnd(f, y) == IF y = f.endY THEN EndOf(f) ELSE y * Width + Width - 1

(* Each row of a field is a stretch of its places, one after the other.    *)
LEMMA FieldRows ==
    ASSUME NEW f, Shaped(f), ~IsEmpty(f), NEW y \in (f.startY)..(f.endY)
    PROVE  /\ y \in 0..(Height - 1)
           /\ RowStart(f, y) \in Positions /\ RowEnd(f, y) \in Positions
           /\ StartOf(f) <= RowStart(f, y) /\ RowStart(f, y) <= RowEnd(f, y) /\ RowEnd(f, y) <= EndOf(f)
           /\ y * Width <= RowStart(f, y) /\ RowEnd(f, y) < y * Width + Width
           /\ y < f.endY => RowStart(f, y + 1) = RowEnd(f, y) + 1
<1>1. f.startY \in Nat /\ f.endY \in 0..(Height - 1)
  BY DimensionsAssumption DEF Shaped
<1>2. f.startX \in 0..(Width - 1) /\ f.endX \in 0..(Width - 1)
  BY DEF Shaped
<1>3. y \in 0..(Height - 1)
  BY <1>1, DimensionsAssumption
<1>4. Width \in Nat \ {0} /\ y * Width \in Nat /\ f.startY * Width \in Nat /\ f.endY * Width \in Nat
  BY <1>1, <1>3, DimensionsAssumption, Products
<1>5. StartOf(f) <= EndOf(f)
  BY FieldPlaces, SizeType
<1>6. StartOf(f) \in Nat /\ EndOf(f) \in Positions /\ EndOf(f) \in Nat /\ EndOf(f) < Size /\ Size \in Nat
  BY FieldPlaces, SizeType
<1>7. CASE y = f.startY /\ y = f.endY
  <2>1. RowStart(f, y) = StartOf(f) /\ RowEnd(f, y) = EndOf(f)
    BY <1>7 DEF RowStart, RowEnd
  <2>2. y * Width <= StartOf(f) /\ EndOf(f) < y * Width + Width
    BY <1>2, <1>4, <1>7 DEF StartOf, EndOf
  <2>3. StartOf(f) \in Positions
    BY <1>5, <1>6, SizeType
  <2> QED BY <1>3, <1>5, <1>6, <1>7, <2>1, <2>2, <2>3
<1>8. CASE y = f.startY /\ y # f.endY
  <2>1. RowStart(f, y) = StartOf(f) /\ RowEnd(f, y) = y * Width + Width - 1
    BY <1>8 DEF RowStart, RowEnd
  <2>2. y + 1 <= f.endY /\ (y + 1) * Width = y * Width + Width
    BY <1>1, <1>3, <1>4, <1>8
  <2>3. (y + 1) * Width <= f.endY * Width
    BY <1>1, <1>3, <1>4, <2>2, Products
  <2>4. y * Width <= StartOf(f) /\ StartOf(f) <= y * Width + Width - 1 /\ f.endY * Width <= EndOf(f)
    BY <1>2, <1>4, <1>8 DEF StartOf, EndOf
  <2>5. y * Width + Width - 1 < EndOf(f)
    BY <1>4, <1>6, <2>2, <2>3, <2>4
  <2>6. RowEnd(f, y) + 1 = (y + 1) * Width
    BY <1>4, <2>1, <2>2
  <2>7. RowStart(f, y + 1) = (IF y + 1 = f.startY THEN StartOf(f) ELSE (y + 1) * Width)
    BY DEF RowStart
  <2>8. RowStart(f, y + 1) = RowEnd(f, y) + 1
    BY <1>3, <1>8, <2>6, <2>7
  <2>9. StartOf(f) \in Positions /\ y * Width + Width - 1 \in Positions
    BY <1>4, <1>5, <1>6, <2>5, SizeType
  <2> QED BY <1>3, <1>4, <1>6, <2>1, <2>4, <2>5, <2>8, <2>9
<1>9. CASE y # f.startY /\ y = f.endY
  <2>1. RowStart(f, y) = y * Width /\ RowEnd(f, y) = EndOf(f)
    BY <1>9 DEF RowStart, RowEnd
  <2>2. f.startY + 1 <= y /\ (f.startY + 1) * Width = f.startY * Width + Width
    BY <1>1, <1>3, <1>4, <1>9
  <2>3. (f.startY + 1) * Width <= y * Width
    BY <1>1, <1>3, <1>4, <2>2, Products
  <2>4. StartOf(f) < y * Width
    BY <1>2, <1>4, <2>2, <2>3 DEF StartOf
  <2>5. y * Width <= EndOf(f) /\ EndOf(f) < y * Width + Width
    BY <1>2, <1>4, <1>9 DEF EndOf
  <2>6. y * Width \in Positions
    BY <1>4, <1>6, <2>5, SizeType
  <2> QED BY <1>3, <1>4, <1>6, <1>9, <2>1, <2>4, <2>5, <2>6
<1>10. CASE y # f.startY /\ y # f.endY
  <2>1. RowStart(f, y) = y * Width /\ RowEnd(f, y) = y * Width + Width - 1
    BY <1>10 DEF RowStart, RowEnd
  <2>2. f.startY + 1 <= y /\ (f.startY + 1) * Width = f.startY * Width + Width
    BY <1>1, <1>3, <1>4, <1>10
  <2>3. (f.startY + 1) * Width <= y * Width
    BY <1>1, <1>3, <1>4, <2>2, Products
  <2>4. StartOf(f) < y * Width
    BY <1>2, <1>4, <2>2, <2>3 DEF StartOf
  <2>5. y + 1 <= f.endY /\ (y + 1) * Width = y * Width + Width
    <3>1. y \in Int /\ f.endY \in Int /\ y <= f.endY
      BY <1>1, <1>3, DimensionsAssumption
    <3>2. y + 1 <= f.endY
      BY <1>10, <3>1
    <3>3. (y + 1) * Width = y * Width + Width
      BY <1>4, <3>1
    <3> QED BY <3>2, <3>3
  <2>6. (y + 1) * Width <= f.endY * Width
    BY <1>1, <1>3, <1>4, <2>5, Products
  <2>7. y * Width + Width - 1 < EndOf(f)
    BY <1>2, <1>4, <2>5, <2>6 DEF EndOf
  <2>8. y * Width \in Positions /\ y * Width + Width - 1 \in Positions
    BY <1>4, <1>6, <2>7, SizeType
  <2>9. RowEnd(f, y) + 1 = (y + 1) * Width
    BY <1>4, <2>1, <2>5
  <2>10. RowStart(f, y + 1) = (IF y + 1 = f.startY THEN StartOf(f) ELSE (y + 1) * Width)
    BY DEF RowStart
  <2>11. y + 1 # f.startY
    BY <1>1, <1>3
  <2>12. RowStart(f, y + 1) = RowEnd(f, y) + 1
    BY <2>9, <2>10, <2>11
  <2> QED BY <1>3, <1>4, <1>6, <2>1, <2>4, <2>7, <2>8, <2>12
<1> QED BY <1>7, <1>8, <1>9, <1>10

(* A line of text for every row. *)
Lines(f) == IF IsMultiline(f) THEN FieldHeight(f) ELSE 1

(* A field has a line of text at least, and one for each row that it has.  *)
LEMMA LinesType ==
    ASSUME NEW f, Shaped(f)
    PROVE  /\ Lines(f) \in Nat \ {0}
           /\ ~IsEmpty(f) => Lines(f) = FieldHeight(f)
           /\ IsEmpty(f) => ~IsMultiline(f)
           /\ \A i \in 1..Lines(f) : f.startY + i \in 1..(Height + 1)
           /\ ~IsEmpty(f) => \A i \in 1..Lines(f) : f.startY + i - 1 \in (f.startY)..(f.endY)
<1>1. f.startY \in 0..Height /\ f.endY \in 0..(Height - 1) /\ Height \in Nat \ {0}
  BY DimensionsAssumption DEF Shaped
<1>2. CASE IsMultiline(f)
  <2>1. f.startY < f.endY /\ Lines(f) = f.endY - f.startY + 1 /\ FieldHeight(f) = f.endY - f.startY + 1
    BY <1>1, <1>2 DEF IsMultiline, Lines, FieldHeight
  <2>2. ~IsEmpty(f)
    BY <1>1, <2>1 DEF IsEmpty
  <2> QED BY <1>1, <2>1, <2>2
<1>3. CASE ~IsMultiline(f)
  <2>1. Lines(f) = 1 /\ f.endY <= f.startY
    BY <1>1, <1>3 DEF Lines, IsMultiline
  <2>2. ~IsEmpty(f) => f.endY = f.startY /\ FieldHeight(f) = 1
    BY <1>1, <2>1 DEF IsEmpty, FieldHeight
  <2> QED BY <1>1, <1>3, <2>1, <2>2
<1> QED BY <1>2, <1>3

(* Its text is read row by row.                                            *)
LEMMA SubstringRows ==
    ASSUME NEW buffer, NEW f, Shaped(f)
    PROVE  Substring(buffer, f) =
              IF IsEmpty(f) THEN <<Between(buffer, StartOf(f), Size - 1)>>
              ELSE [i \in 1..Lines(f) |-> Between(buffer, RowStart(f, f.startY + i - 1),
                                                          RowEnd(f, f.startY + i - 1))]
<1>1. ~IsEmpty(f) => Lines(f) = FieldHeight(f)
  BY LinesType
<1> QED BY <1>1 DEF Substring, StartOf, EndOf, RowStart, RowEnd, Size

(* Its text is as many lines.                                              *)
LEMMA SubstringType ==
    ASSUME NEW buffer \in Buffers, NEW image, NEW f, Formed(image, f)
    PROVE  /\ Substring(buffer, f) \in Seq(Seq(Chars))
           /\ Len(Substring(buffer, f)) = Lines(f)
<1>1. Shaped(f)
  BY DEF Formed
<1>2. CASE IsEmpty(f)
  <2>1. Substring(buffer, f) = <<Between(buffer, StartOf(f), Size - 1)>>
    BY <1>1, <1>2, SubstringRows
  <2>2. StartOf(f) \in Nat /\ StartOf(f) <= (Size - 1) + 1 /\ Size - 1 < Size /\ Size - 1 \in Int
    BY <1>1, FieldPlaces, SizeType DEF Formed
  <2>3. Between(buffer, StartOf(f), Size - 1) \in Seq(Chars)
    BY <2>2, BetweenType
  <2>4. Lines(f) = 1
    BY <1>1, <1>2, LinesType DEF Lines
  <2> DEFINE b == Between(buffer, StartOf(f), Size - 1)
  <2> HIDE DEF b
  <2>5. Substring(buffer, f) = <<b>> /\ b \in Seq(Chars)
    BY <2>1, <2>3 DEF b
  <2> QED BY <2>4, <2>5
<1>3. CASE ~IsEmpty(f)
  <2> DEFINE line(i) == Between(buffer, RowStart(f, f.startY + i - 1), RowEnd(f, f.startY + i - 1))
  <2>1. Substring(buffer, f) = [i \in 1..Lines(f) |-> line(i)]
    BY <1>1, <1>3, SubstringRows
  <2>2. ASSUME NEW i \in 1..Lines(f) PROVE line(i) \in Seq(Chars)
    <3> DEFINE p == RowStart(f, f.startY + i - 1)
               q == RowEnd(f, f.startY + i - 1)
    <3>1. f.startY + i - 1 \in (f.startY)..(f.endY)
      BY <1>1, <1>3, LinesType
    <3>2. p \in Positions /\ q \in Positions /\ p <= q
      BY <1>1, <1>3, <3>1, FieldRows
    <3> HIDE DEF p, q
    <3>3. p \in Nat /\ q \in Int /\ p <= q + 1 /\ q < Size
      BY <3>2, SizeType
    <3>4. Between(buffer, p, q) \in Seq(Chars)
      BY <3>3, BetweenType
    <3> QED BY <3>4 DEF p, q
  <2> HIDE DEF line
  <2>3. Lines(f) \in Nat
    BY <1>1, LinesType
  <2> QED BY <2>1, <2>2, <2>3
<1> QED BY <1>2, <1>3

(* The rows of a field follow each other: its text is as long as the       *)
(* stretch from its first place to its last.                               *)
LEMMA TextLength ==
    ASSUME NEW buffer \in Buffers, NEW image, NEW f, Formed(image, f), ~IsEmpty(f)
    PROVE  Len(FlattenSeq(Substring(buffer, f))) = EndOf(f) - StartOf(f) + 1
<1> DEFINE N == Lines(f)
           text == Substring(buffer, f)
           row(i) == f.startY + i - 1
<1>1. Shaped(f) /\ f.startY \in Nat /\ f.endY \in Int /\ StartOf(f) \in Nat /\ EndOf(f) \in Nat
  BY FieldPlaces, SizeType, DimensionsAssumption DEF Formed, Shaped
<1>2. N \in Nat \ {0} /\ N = FieldHeight(f) /\ N = f.endY - f.startY + 1
  BY <1>1, LinesType DEF FieldHeight
<1>3. text \in Seq(Seq(Chars)) /\ Len(text) = N
  BY SubstringType
<1> HIDE DEF N
<1>4. ASSUME NEW i \in 1..N
      PROVE  /\ row(i) \in (f.startY)..(f.endY)
             /\ RowStart(f, row(i)) \in Nat /\ RowEnd(f, row(i)) \in Nat
             /\ RowStart(f, row(i)) <= RowEnd(f, row(i))
             /\ row(i) < f.endY => RowStart(f, row(i) + 1) = RowEnd(f, row(i)) + 1
             /\ Len(text[i]) = RowEnd(f, row(i)) - RowStart(f, row(i)) + 1
  <2> DEFINE y == row(i)
             p == RowStart(f, y)
             q == RowEnd(f, y)
  <2>1. y \in (f.startY)..(f.endY)
    BY <1>1, <1>2
  <2>2. text[i] = Between(buffer, p, q)
    <3>1. text = [j \in 1..N |-> Between(buffer, RowStart(f, row(j)), RowEnd(f, row(j)))]
      BY <1>1, SubstringRows DEF N
    <3> HIDE DEF text
    <3> QED BY <3>1
  <2> HIDE DEF y, p, q, text
  <2>3. p \in Positions /\ q \in Positions /\ p <= q /\ (y < f.endY => RowStart(f, y + 1) = q + 1)
    BY <1>1, <2>1, FieldRows DEF p, q
  <2>4. p \in Nat /\ q \in Int /\ q \in Nat /\ p <= q + 1 /\ q < Size
    BY <2>3, SizeType
  <2>5. Len(text[i]) = q - p + 1
    BY <2>2, <2>4, BetweenType
  <2> QED BY <2>1, <2>3, <2>4, <2>5 DEF y, p, q
<1>5. N > 0
  BY <1>2
<1> HIDE DEF text
<1>6. PICK g \in [0..Len(text) -> Seq(Chars)] :
        /\ g[0] = << >>
        /\ \A i \in 1..Len(text) : g[i] = g[i - 1] \o text[i]
        /\ FlattenSeq(text) = g[Len(text)]
  BY <1>3, <1>5, FlattenRecursion
<1> DEFINE Grown == {n \in 0..N : n > 0 => Len(g[n]) = RowEnd(f, row(n)) - StartOf(f) + 1}
<1>7. 0 \in Grown
  BY <1>2
<1>8. ASSUME NEW n \in 1..N, n - 1 \in Grown PROVE n \in Grown
  <2>1. n - 1 \in 0..N /\ n \in 0..N /\ text[n] \in Seq(Chars) /\ g[n - 1] \in Seq(Chars)
    <3>1. n - 1 \in 0..N /\ n \in 0..N
      BY <1>2
    <3>2. text[n] \in Seq(Chars)
      BY <1>3
    <3> QED BY <1>3, <1>6, <3>1, <3>2
  <2>2. g[n] = g[n - 1] \o text[n]
    BY <1>3, <1>6
  <2>3. Len(g[n]) = Len(g[n - 1]) + Len(text[n]) /\ Len(g[n - 1]) \in Nat
    BY <2>1, <2>2
  <2>4. CASE n = 1
    <3>1. row(1) = f.startY /\ RowStart(f, f.startY) = StartOf(f)
      BY <1>1 DEF RowStart
    <3>2. Len(g[0]) = 0
      BY <1>6
    <3>3. Len(text[1]) = RowEnd(f, row(1)) - StartOf(f) + 1
      BY <1>4, <2>4, <3>1
    <3>4. Len(g[1]) = 0 + Len(text[1])
      <4>1. n - 1 = 0
        BY <2>4
      <4>2. Len(g[n]) = Len(g[0]) + Len(text[n])
        BY <2>3, <4>1
      <4> QED BY <2>4, <3>2, <4>2
    <3>5. Len(text[1]) \in Nat
      BY <2>1, <2>4
    <3>6. Len(g[1]) = RowEnd(f, row(1)) - StartOf(f) + 1
      BY <3>3, <3>4, <3>5
    <3> QED BY <2>1, <2>4, <3>6
  <2>5. CASE n > 1
    <3>1. n - 1 \in 1..N
      BY <1>2, <2>5
    <3>2. row(n - 1) + 1 = row(n) /\ row(n - 1) < f.endY
      BY <1>1, <1>2, <2>5
    <3>3. RowStart(f, row(n)) = RowEnd(f, row(n - 1)) + 1
      BY <1>4, <3>1, <3>2
    <3>4. Len(g[n - 1]) = RowEnd(f, row(n - 1)) - StartOf(f) + 1
      BY <1>8, <3>1
    <3>5. RowEnd(f, row(n - 1)) \in Nat /\ RowEnd(f, row(n)) \in Nat
      BY <1>4, <3>1
    <3>6. Len(text[n]) = RowEnd(f, row(n)) - RowStart(f, row(n)) + 1
      BY <1>4
    <3> DEFINE a == RowEnd(f, row(n - 1))
               b == RowEnd(f, row(n))
    <3>7. /\ Len(text[n]) = b - (a + 1) + 1 /\ Len(g[n - 1]) = a - StartOf(f) + 1
          /\ a \in Nat /\ b \in Nat
      BY <3>3, <3>4, <3>5, <3>6
    <3> HIDE DEF a, b
    <3>8. Len(g[n]) = b - StartOf(f) + 1
      BY <1>1, <2>3, <3>7
    <3> QED BY <2>1, <3>8 DEF b
  <2> QED BY <1>2, <2>4, <2>5
<1>9. \A n \in 0..N : n \in Grown
  <2> HIDE DEF Grown
  <2> QED BY <1>2, <1>7, <1>8, UpToInduction
<1>10. Len(g[N]) = RowEnd(f, row(N)) - StartOf(f) + 1
  BY <1>2, <1>9
<1>11. row(N) = f.endY /\ RowEnd(f, f.endY) = EndOf(f)
  BY <1>1, <1>2 DEF RowEnd
<1> QED BY <1>3, <1>6, <1>10, <1>11 DEF text

(* fieldLength counts the places.                                          *)
LEMMA LengthIs ==
    ASSUME NEW f, Shaped(f), ~IsEmpty(f)
    PROVE  FieldLength(f) = EndOf(f) - StartOf(f) + 1
<1>1. /\ f.startY \in Nat /\ f.endY \in Nat /\ f.startX \in Nat /\ f.endX \in Nat
      /\ Width \in Nat
  BY DimensionsAssumption DEF Shaped
<1>2. f.startY <= f.endY
  BY <1>1 DEF IsEmpty
<1> DEFINE a == f.startY
           b == f.endY
           s == a * Width
           t == b * Width
<1>3. s \in Nat /\ t \in Nat
  BY <1>1, Products
<1>4. EndOf(f) - StartOf(f) + 1 = (t + f.endX) - (s + f.startX) + 1
  BY DEF EndOf, StartOf
<1>5. CASE a = b
  <2>1. FieldLength(f) = f.endX - f.startX + 1 /\ s = t
    BY <1>5 DEF FieldLength
  <2> HIDE DEF s, t
  <2> QED BY <1>1, <1>3, <1>4, <2>1
<1>6. CASE a < b
  <2>1. (b - a - 1) * Width = (t - s) - Width
    <3>1. \A x, y, w \in Int : (x - y - 1) * w = (x * w - y * w) - w
      OBVIOUS
    <3> QED BY <1>1, <3>1
  <2>2. b - a > 1 \/ b - a - 1 = 0
    BY <1>1, <1>6
  <2>3. b - a - 1 = 0 => (b - a - 1) * Width = 0
    BY <1>1
  <2>4. FieldLength(f) = (Width - f.startX) + (f.endX + 1)
                            + (IF b - a > 1 THEN (b - a - 1) * Width ELSE 0)
    BY <1>1, <1>6 DEF FieldLength
  <2>5. ~(b - a > 1) => t - s = Width
    <3> DEFINE z == (b - a - 1) * Width
    <3>1. z = (t - s) - Width /\ (~(b - a > 1) => z = 0)
      BY <2>1, <2>2, <2>3
    <3> HIDE DEF z, s, t
    <3> QED BY <1>1, <1>3, <3>1
  <2>6. FieldLength(f) = (Width - f.startX) + (f.endX + 1) + ((t - s) - Width)
    <3>1. CASE b - a > 1
      BY <2>1, <2>4, <3>1
    <3>2. CASE ~(b - a > 1)
      <4>1. (t - s) - Width = 0
        BY <1>1, <2>5, <3>2
      <4> QED BY <2>4, <3>2, <4>1
    <3> QED BY <3>1, <3>2
  <2> HIDE DEF s, t
  <2> QED BY <1>1, <1>3, <1>4, <2>6
<1> QED BY <1>1, <1>2, <1>5, <1>6

-----------------------------------------------------------------------------
(* The emulator while it is typed at                                       *)

SameAttributes(one, image) ==
    \A p \in Positions : one[p] \in Attributes \/ image[p] \in Attributes => one[p] = image[p]

EmulatorType == [image : Screens, cursor : Positions, refused : BOOLEAN]

(* Typing never touches an attribute. *)
Emulators(image) == {e \in EmulatorType : SameAttributes(e.image, image)}

(* While the attributes stay, input is taken at the same places.           *)
LEMMA InputSame ==
    ASSUME NEW image, NEW one, SameAttributes(one, image)
    PROVE  /\ \A p \in Positions : one[p] \in Attributes <=> image[p] \in Attributes
           /\ \A p \in Positions : one[p] = "input" <=> image[p] = "input"
           /\ \A p : IsInput(one, p) <=> IsInput(image, p)
<1>1. \A p \in Positions : one[p] \in Attributes <=> image[p] \in Attributes
  BY DEF SameAttributes
<1>2. \A p \in Positions : one[p] = "input" <=> image[p] = "input"
  BY DEF SameAttributes, Attributes
<1>3. ASSUME NEW p PROVE IsInput(one, p) <=> IsInput(image, p)
  <2>1. {q \in Positions : one[q] \in Attributes} = {q \in Positions : image[q] \in Attributes}
    BY <1>1
  <2> DEFINE S == {q \in Positions : image[q] \in Attributes}
             d(q) == Distance(p, q)
             nearest == CHOOSE q \in S : \A r \in S : Distance(p, q) <= Distance(p, r)
  <2>2. Attribute(image, p) = nearest
    BY DEF Attribute, Distance
  <2>3. Attribute(one, p) = nearest
    BY <2>1 DEF Attribute, Distance
  <2>4. ASSUME p \in Positions, NEW q \in Positions, image[q] \in Attributes
        PROVE  nearest \in Positions
    <3> DEFINE D == {Distance(p, r) : r \in S}
    <3>1. D \in SUBSET Nat /\ D # {}
      <4>1. \A r \in Positions : Distance(p, r) \in Nat
        BY <2>4, DistanceIs, SizeType
      <4>2. q \in S
        BY <2>4
      <4> QED BY <4>1, <4>2
    <3>2. PICK m \in D : \A n \in D : m <= n
      <4> HIDE DEF D
      <4> QED BY <3>1, Least
    <3>3. PICK r \in S : Distance(p, r) = m
      BY <3>2
    <3>4. \A t \in S : Distance(p, r) <= Distance(p, t)
      BY <3>2, <3>3
    <3> HIDE DEF D
    <3>5. nearest \in S
      <4> HIDE DEF S
      <4> QED BY <3>3, <3>4
    <3> QED BY <3>5
  <2> HIDE DEF nearest
  <2>5. (\E q \in Positions : one[q] \in Attributes) <=> (\E q \in Positions : image[q] \in Attributes)
    BY <1>1
  <2> QED BY <1>1, <1>2, <2>2, <2>3, <2>4, <2>5 DEF IsInput
<1> QED BY <1>1, <1>2, <1>3

(* movecursor to a place of the screen is not refused.                     *)
LEMMA EmulatorStarts ==
    ASSUME NEW image \in Screens, NEW p \in Positions
    PROVE  Emulator(image, p) \in Emulators(image) /\ ~Emulator(image, p).refused
BY DEF Emulator, Emulators, EmulatorType, SameAttributes

(* eraseeof leaves the attributes.                                         *)
LEMMA Erased ==
    ASSUME NEW image \in Screens, NEW e \in Emulators(image)
    PROVE  EraseEOF(e) \in Emulators(image)
<1>1. e \in EmulatorType /\ e.image \in Screens /\ SameAttributes(e.image, image)
  BY DEF Emulators, EmulatorType
<1>2. CASE ~IsInput(e.image, e.cursor)
  <2>1. EraseEOF(e) = [e EXCEPT !.refused = TRUE]
    BY <1>2 DEF EraseEOF
  <2>2. EraseEOF(e) \in EmulatorType /\ EraseEOF(e).image = e.image
    BY <1>1, <2>1 DEF EmulatorType
  <2> QED BY <1>1, <2>2 DEF Emulators
<1>3. CASE IsInput(e.image, e.cursor)
  <2> DEFINE distance(q) == (q + Size - e.cursor) % Size
             rest == {q \in Positions :
                        \A r \in Positions : distance(r) <= distance(q) => e.image[r] \notin Attributes}
             erased == [q \in Positions |-> IF q \in rest THEN Blank ELSE e.image[q]]
  <2>1. EraseEOF(e) = [e EXCEPT !.image = erased]
    BY <1>3 DEF EraseEOF
  <2>2. ASSUME NEW q \in Positions PROVE distance(q) <= distance(q)
    <3>1. e.cursor \in 0..(Size - 1) /\ q \in 0..(Size - 1) /\ Size \in Nat \ {0}
      BY <1>1, SizeType DEF EmulatorType
    <3>2. q + Size - e.cursor \in Nat
      BY <3>1
    <3>3. distance(q) \in Nat
      <4> DEFINE v == q + Size - e.cursor
      <4>1. v \in Nat
        BY <3>2
      <4> HIDE DEF v
      <4>2. v % Size \in 0..(Size - 1)
        BY <3>1, <4>1, Remainder
      <4>3. v % Size \in Nat
        BY <3>1, <4>2
      <4> QED BY <4>3 DEF v
    <3> HIDE DEF distance
    <3> QED BY <3>3
  <2>3. \A q \in rest : e.image[q] \notin Attributes
    BY <2>2
  <2> HIDE DEF rest
  <2>4. erased \in Screens
    BY <1>1, BlankAssumption DEF Screens
  <2>5. SameAttributes(erased, image)
    <3> SUFFICES ASSUME NEW q \in Positions, erased[q] \in Attributes \/ image[q] \in Attributes
                 PROVE  erased[q] = image[q]
      BY DEF SameAttributes
    <3>1. q \notin rest
      <4>1. q \in rest => erased[q] = Blank /\ e.image[q] \notin Attributes
        BY <2>3
      <4>2. Blank \notin Attributes
        BY BlankAssumption, CharsAssumption
      <4>3. image[q] \in Attributes => e.image[q] \in Attributes
        BY <1>1 DEF SameAttributes
      <4> QED BY <4>1, <4>2, <4>3
    <3>2. erased[q] = e.image[q]
      BY <3>1
    <3> QED BY <1>1, <3>2 DEF SameAttributes
  <2> HIDE DEF erased
  <2>6. EraseEOF(e) \in EmulatorType /\ EraseEOF(e).image = erased
    BY <1>1, <2>1, <2>4 DEF EmulatorType
  <2> QED BY <2>5, <2>6 DEF Emulators
<1> QED BY <1>2, <1>3

(* A key leaves the attributes.                                            *)
LEMMA KeyTyped ==
    ASSUME NEW image \in Screens, NEW e \in Emulators(image), NEW c \in Chars
    PROVE  TypeKey(e, c) \in Emulators(image)
<1>1. e \in EmulatorType /\ e.image \in Screens /\ SameAttributes(e.image, image)
  BY DEF Emulators, EmulatorType
<1>2. CASE ~IsInput(e.image, e.cursor)
  <2>1. TypeKey(e, c) = [e EXCEPT !.refused = TRUE]
    BY <1>2 DEF TypeKey
  <2>2. TypeKey(e, c) \in EmulatorType /\ TypeKey(e, c).image = e.image
    BY <1>1, <2>1 DEF EmulatorType
  <2> QED BY <1>1, <2>2 DEF Emulators
<1>3. CASE IsInput(e.image, e.cursor)
  <2> DEFINE typed == [e.image EXCEPT ![e.cursor] = c]
             cursor == (e.cursor + 1) % Size
  <2>1. TypeKey(e, c) = [e EXCEPT !.image = typed, !.cursor = cursor]
    BY <1>1, <1>3 DEF TypeKey, EmulatorType
  <2>2. typed \in Screens
    BY <1>1 DEF Screens
  <2>3. cursor \in Positions
    <3>1. e.cursor \in Nat /\ Size \in Nat \ {0}
      BY <1>1, SizeType DEF EmulatorType
    <3>2. e.cursor + 1 \in Nat
      BY <3>1
    <3> QED BY <3>1, <3>2, Remainder, SizeType
  <2>4. SameAttributes(typed, image)
    <3>1. e.image[e.cursor] \notin Attributes /\ e.cursor \in Positions
      BY <1>3 DEF IsInput
    <3>2. c \notin Attributes
      BY CharsAssumption
    <3>3. image[e.cursor] \notin Attributes
      BY <1>1, <3>1 DEF SameAttributes
    <3> SUFFICES ASSUME NEW q \in Positions, typed[q] \in Attributes \/ image[q] \in Attributes
                 PROVE  typed[q] = image[q]
      BY DEF SameAttributes
    <3>4. typed[q] = IF q = e.cursor THEN c ELSE e.image[q]
      BY <1>1 DEF Screens
    <3>5. q # e.cursor
      BY <3>2, <3>3, <3>4
    <3> QED BY <1>1, <3>4, <3>5 DEF SameAttributes
  <2> HIDE DEF typed, cursor
  <2>5. TypeKey(e, c) \in EmulatorType /\ TypeKey(e, c).image = typed
    BY <1>1, <2>1, <2>2, <2>3 DEF EmulatorType
  <2> QED BY <2>4, <2>5 DEF Emulators
<1> QED BY <1>2, <1>3

(* newline moves the cursor only.                                          *)
LEMMA NewLineMoves ==
    ASSUME NEW image \in Screens, NEW e \in Emulators(image)
    PROVE  /\ NewLine(e) \in Emulators(image)
           /\ NewLine(e).image = e.image
           /\ e.refused => NewLine(e).refused
<1>1. e \in EmulatorType /\ e.image \in Screens /\ SameAttributes(e.image, image)
  BY DEF Emulators, EmulatorType
<1> DEFINE below == (Row(e.cursor) + 1) * Width
           distance(q) == (q + 2 * Size - below) % Size
           inputs == {q \in Positions : IsInput(e.image, q)}
           first == CHOOSE q \in inputs : \A r \in inputs : distance(q) <= distance(r)
<1>2. CASE inputs = {}
  <2>1. NewLine(e) = [e EXCEPT !.refused = TRUE]
    BY <1>2 DEF NewLine
  <2>2. NewLine(e) \in EmulatorType /\ NewLine(e).image = e.image /\ NewLine(e).refused
    BY <1>1, <2>1 DEF EmulatorType
  <2> QED BY <1>1, <2>2 DEF Emulators
<1>3. CASE inputs # {}
  <2>1. NewLine(e) = [e EXCEPT !.cursor = first]
    BY <1>3 DEF NewLine
  <2>2. \A q \in inputs : distance(q) \in Nat
    <3>1. Row(e.cursor) \in 0..(Height - 1) /\ Size \in Nat \ {0} /\ Size = Height * Width
      BY <1>1, PlaceOf, SizeType DEF EmulatorType
    <3>2. below <= Height * Width /\ below \in Int
      BY <3>1, Products, DimensionsAssumption
    <3> HIDE DEF below
    <3>3. \A q \in Positions : q + 2 * Size - below \in Nat
      BY <3>1, <3>2, SizeType
    <3> QED BY <3>1, <3>3, Remainder
  <2> DEFINE D == {distance(q) : q \in inputs}
  <2>3. D \in SUBSET Nat /\ D # {}
    BY <1>3, <2>2
  <2>4. PICK m \in D : \A n \in D : m <= n
    <3> HIDE DEF D
    <3> QED BY <2>3, Least
  <2>5. \E q \in inputs : \A r \in inputs : distance(q) <= distance(r)
    BY <2>4
  <2>6. first \in inputs
    <3> HIDE DEF inputs, distance, D
    <3> QED BY <2>5
  <2>7. first \in Positions
    BY <2>6
  <2> HIDE DEF first
  <2>8. NewLine(e) \in EmulatorType /\ NewLine(e).image = e.image /\ NewLine(e).refused = e.refused
    BY <1>1, <2>1, <2>7 DEF EmulatorType
  <2> QED BY <1>1, <2>8 DEF Emulators
<1> QED BY <1>2, <1>3

-----------------------------------------------------------------------------
(* Typing                                                                  *)

(* The emulator after each of a line's characters. *)
TypesOn(g, e, line) == g[0] = e /\ \A i \in 1..Len(line) : g[i] = TypeKey(g[i - 1], line[i])

(* TypeText's fold as a recursion over the line.                           *)
LEMMA TypedText ==
    ASSUME NEW image \in Screens, NEW e \in Emulators(image), NEW line \in Seq(Chars)
    PROVE  \E g \in [0..Len(line) -> Emulators(image)] :
              TypesOn(g, e, line) /\ TypeText(e, line) = g[Len(line)]
<1> DEFINE N == Len(line)
           X == Emulators(image)
           step == [i \in 1..N |-> [d \in X |-> TypeKey(d, line[i])]]
           Fix(k) == k = [s \in SUBSET (1..N) |->
                            IF s = {} THEN e ELSE TypeKey(k[s \ {Max(s)}], line[Max(s)])]
           chosen == CHOOSE k : Fix(k)
<1>1. N \in Nat /\ DOMAIN line = 1..N /\ \A i \in 1..N : line[i] \in Chars
  OBVIOUS
<1> HIDE DEF N
<1>2. \A s \in SUBSET (1..N) : s # {} => Max(s) \in s
  BY <1>1, MaxInSet
<1>3. \A i \in 1..N, d \in X : TypeKey(d, line[i]) \in X
  BY <1>1, KeyTyped
<1> HIDE DEF X
<1>4. step \in [1..N -> [X -> X]] /\ e \in X
  BY <1>3 DEF X
<1>5. \A i \in 1..N, d \in X : step[i][d] = TypeKey(d, line[i])
  OBVIOUS
<1> HIDE DEF step
<1>6. PICK k \in [SUBSET (1..N) -> X] : FoldsSets(k, N, X, e, step)
  BY <1>1, <1>4, FoldExists
<1>7. Fix(k)
  <2>1. ASSUME NEW s \in SUBSET (1..N), s # {} PROVE k[s] = TypeKey(k[s \ {Max(s)}], line[Max(s)])
    <3>1. Max(s) \in 1..N /\ k[s \ {Max(s)}] \in X
      BY <1>2, <1>6, <2>1
    <3>2. k[s] = step[Max(s)][k[s \ {Max(s)}]]
      BY <1>6, <2>1, <3>1 DEF FoldsSets
    <3> QED BY <1>5, <3>1, <3>2
  <2>2. k[{}] = e
    BY <1>6 DEF FoldsSets
  <2> QED BY <1>6, <2>1, <2>2
<1>8. Fix(chosen)
  <2> HIDE DEF Fix
  <2> QED BY <1>7
<1>9. TypeText(e, line) = chosen[1..N]
  BY <1>1 DEF TypeText, FoldLeft, MapThenFoldSet
<1> HIDE DEF chosen
<1>10. FoldsSets(chosen, N, X, e, step)
  <2>1. ASSUME NEW s \in SUBSET (1..N), s # {}, chosen[s \ {Max(s)}] \in X
        PROVE  chosen[s] = step[Max(s)][chosen[s \ {Max(s)}]]
    <3>1. chosen[s] = TypeKey(chosen[s \ {Max(s)}], line[Max(s)]) /\ Max(s) \in 1..N
      BY <1>2, <1>8, <2>1
    <3> QED BY <1>5, <2>1, <3>1
  <2>2. chosen[{}] = e
    <3>1. {} \in SUBSET (1..N)
      OBVIOUS
    <3> QED BY <1>8, <3>1
  <2> HIDE DEF Fix
  <2> QED BY <2>1, <2>2 DEF FoldsSets
<1> HIDE DEF Fix
<1>11. PICK g \in [0..N -> X] : Recurs(g, N, e, step) /\ \A n \in 0..N : g[n] = chosen[1..n]
  BY <1>1, <1>4, <1>10, FoldPrefixes
<1>12. TypesOn(g, e, line)
  <2>1. ASSUME NEW i \in 1..N PROVE g[i] = TypeKey(g[i - 1], line[i])
    <3>1. i - 1 \in 0..N
      BY <1>1
    <3>2. g[i - 1] \in X /\ g[i] = step[i][g[i - 1]]
      BY <1>11, <3>1 DEF Recurs
    <3> QED BY <1>5, <3>2
  <2> QED BY <1>11, <2>1 DEF TypesOn, Recurs, N
<1>13. TypeText(e, line) = g[N]
  BY <1>1, <1>9, <1>11
<1> QED BY <1>11, <1>12, <1>13 DEF N, X

(* The emulator after each line. *)
TypesLines(g, e, lines) ==
    /\ g[0] = e
    /\ \A i \in 1..Len(lines) :
        g[i] = TypeText(IF i = 1 THEN g[i - 1] ELSE NewLine(g[i - 1]), lines[i])

(* TypeLines' fold as a recursion over the lines.                          *)
LEMMA TypedLines ==
    ASSUME NEW image \in Screens, NEW e \in Emulators(image), NEW lines \in Seq(Seq(Chars))
    PROVE  \E g \in [0..Len(lines) -> Emulators(image)] :
              TypesLines(g, e, lines) /\ TypeLines(e, lines) = g[Len(lines)]
<1> DEFINE N == Len(lines)
           X == Emulators(image)
           Op(d, i) == TypeText(IF i = 1 THEN d ELSE NewLine(d), lines[i])
           step == [i \in 1..N |-> [d \in X |-> Op(d, i)]]
           Fix(k) == k = [s \in SUBSET (1..N) |->
                            IF s = {} THEN e
                            ELSE Op(k[s \ {Max(s)}], [j \in DOMAIN lines |-> j][Max(s)])]
           chosen == CHOOSE k : Fix(k)
<1>1. N \in Nat /\ DOMAIN lines = 1..N /\ \A i \in 1..N : lines[i] \in Seq(Chars)
  OBVIOUS
<1> HIDE DEF N
<1>2. \A s \in SUBSET (1..N) : s # {} => Max(s) \in s
  BY <1>1, MaxInSet
<1>3. ASSUME NEW i \in 1..N, NEW d \in X PROVE Op(d, i) \in X
  <2> DEFINE b == IF i = 1 THEN d ELSE NewLine(d)
  <2>1. b \in Emulators(image)
    BY NewLineMoves
  <2> HIDE DEF b
  <2>2. TypeText(b, lines[i]) \in Emulators(image)
    <3>1. lines[i] \in Seq(Chars)
      BY <1>1
    <3>2. PICK g \in [0..Len(lines[i]) -> Emulators(image)] : TypeText(b, lines[i]) = g[Len(lines[i])]
      BY <2>1, <3>1, TypedText
    <3>3. Len(lines[i]) \in 0..Len(lines[i])
      BY <3>1
    <3> QED BY <3>2, <3>3
  <2> QED BY <2>2 DEF b
<1>4. \A s \in SUBSET (1..N) : s # {} => [j \in DOMAIN lines |-> j][Max(s)] = Max(s)
  BY <1>1, <1>2
<1> HIDE DEF X, Op
<1>5. step \in [1..N -> [X -> X]] /\ e \in X
  BY <1>3 DEF X
<1>6. \A i \in 1..N, d \in X : step[i][d] = Op(d, i)
  OBVIOUS
<1> HIDE DEF step
<1>7. PICK k \in [SUBSET (1..N) -> X] : FoldsSets(k, N, X, e, step)
  BY <1>1, <1>5, FoldExists
<1>8. Fix(k)
  <2>1. ASSUME NEW s \in SUBSET (1..N), s # {}
        PROVE  k[s] = Op(k[s \ {Max(s)}], [j \in DOMAIN lines |-> j][Max(s)])
    <3>1. Max(s) \in 1..N /\ k[s \ {Max(s)}] \in X
      BY <1>2, <1>7, <2>1
    <3>2. k[s] = step[Max(s)][k[s \ {Max(s)}]]
      BY <1>7, <2>1, <3>1 DEF FoldsSets
    <3>3. k[s] = Op(k[s \ {Max(s)}], Max(s))
      BY <1>6, <3>1, <3>2
    <3> QED BY <1>4, <2>1, <3>3
  <2>2. k[{}] = e
    BY <1>7 DEF FoldsSets
  <2> QED BY <1>7, <2>1, <2>2
<1>9. Fix(chosen)
  <2> HIDE DEF Fix
  <2> QED BY <1>8
<1>10. TypeLines(e, lines) = chosen[1..N]
  <2>1. DOMAIN [j \in DOMAIN lines |-> j] = 1..N
    BY <1>1
  <2> QED BY <2>1 DEF TypeLines, FoldLeftDomain, FoldLeft, MapThenFoldSet, Op
<1> HIDE DEF chosen
<1>11. FoldsSets(chosen, N, X, e, step)
  <2>1. ASSUME NEW s \in SUBSET (1..N), s # {}, chosen[s \ {Max(s)}] \in X
        PROVE  chosen[s] = step[Max(s)][chosen[s \ {Max(s)}]]
    <3>1. chosen[s] = Op(chosen[s \ {Max(s)}], [j \in DOMAIN lines |-> j][Max(s)])
      BY <1>9, <2>1
    <3>2. chosen[s] = Op(chosen[s \ {Max(s)}], Max(s)) /\ Max(s) \in 1..N
      BY <1>2, <1>4, <2>1, <3>1
    <3> QED BY <1>6, <2>1, <3>2
  <2>2. chosen[{}] = e
    <3>1. {} \in SUBSET (1..N)
      OBVIOUS
    <3> QED BY <1>9, <3>1
  <2> HIDE DEF Fix
  <2> QED BY <2>1, <2>2 DEF FoldsSets
<1> HIDE DEF Fix
<1>12. PICK g \in [0..N -> X] : Recurs(g, N, e, step) /\ \A n \in 0..N : g[n] = chosen[1..n]
  BY <1>1, <1>5, <1>11, FoldPrefixes
<1>13. TypesLines(g, e, lines)
  <2>1. ASSUME NEW i \in 1..N PROVE g[i] = Op(g[i - 1], i)
    <3>1. i - 1 \in 0..N
      BY <1>1
    <3>2. g[i - 1] \in X /\ g[i] = step[i][g[i - 1]]
      BY <1>12, <3>1 DEF Recurs
    <3> QED BY <1>6, <3>2
  <2> QED BY <1>12, <2>1 DEF TypesLines, Recurs, N, Op
<1>14. TypeLines(e, lines) = g[N]
  BY <1>1, <1>10, <1>12
<1> QED BY <1>12, <1>13, <1>14 DEF N, X

-----------------------------------------------------------------------------
(* Fields that change                                                      *)

(* A field is read, set and sent where it is. *)
SamePlace(f, g) ==
    /\ f.startX = g.startX /\ f.startY = g.startY
    /\ f.endX = g.endX /\ f.endY = g.endY
    /\ f.input = g.input

(* Fields at one place have the same rows and the same text there.         *)
LEMMA SamePlaces ==
    ASSUME NEW f, NEW g, SamePlace(f, g)
    PROVE  /\ StartOf(f) = StartOf(g) /\ EndOf(f) = EndOf(g)
           /\ Shaped(f) <=> Shaped(g)
           /\ IsEmpty(f) <=> IsEmpty(g)
           /\ IsMultiline(f) <=> IsMultiline(g)
           /\ Lines(f) = Lines(g)
           /\ \A buffer : Substring(buffer, f) = Substring(buffer, g)
<1>1. StartOf(f) = StartOf(g) /\ EndOf(f) = EndOf(g) /\ (Shaped(f) <=> Shaped(g))
  BY DEF SamePlace, StartOf, EndOf, Shaped
<1>2. (IsEmpty(f) <=> IsEmpty(g)) /\ (IsMultiline(f) <=> IsMultiline(g)) /\ FieldHeight(f) = FieldHeight(g)
  BY DEF SamePlace, IsEmpty, IsMultiline, FieldHeight
<1>3. Lines(f) = Lines(g)
  BY <1>2 DEF Lines
<1>4. ASSUME NEW buffer PROVE Substring(buffer, f) = Substring(buffer, g)
  BY <1>2 DEF SamePlace, Substring
<1> QED BY <1>1, <1>2, <1>3, <1>4

(* A field stays formed while the attributes stay.                         *)
LEMMA FormedSame ==
    ASSUME NEW f, NEW g, SamePlace(g, f), NEW image, NEW one, SameAttributes(one, image),
           Formed(image, f)
    PROVE  Formed(one, g)
<1>1. StartOf(g) = StartOf(f) /\ EndOf(g) = EndOf(f) /\ Shaped(g) /\ g.input = f.input
  BY SamePlaces DEF Formed, SamePlace
<1>2. /\ \A p \in Positions : one[p] \in Attributes <=> image[p] \in Attributes
      /\ \A p \in Positions : one[p] = "input" <=> image[p] = "input"
  BY InputSame
<1>3. EndOf(g) + 1 = Size \/ one[EndOf(g) + 1] \in Attributes
  <2>1. EndOf(f) \in 0..(Size - 1) /\ Size \in Nat
    BY FieldPlaces, SizeType DEF Formed
  <2>2. EndOf(f) + 1 # Size => EndOf(f) + 1 \in Positions
    BY <2>1, SizeType
  <2> QED BY <1>1, <1>2, <2>2 DEF Formed
<1>4. g.input => StartOf(g) > 0 /\ one[StartOf(g) - 1] = "input"
  <2>1. f.input => StartOf(f) > 0 /\ image[StartOf(f) - 1] = "input" /\ StartOf(f) - 1 \in Positions
    <3>1. StartOf(f) \in Nat /\ EndOf(f) \in 0..(Size - 1) /\ Size \in Nat
      BY FieldPlaces, SizeType DEF Formed
    <3>2. StartOf(f) > 0 => StartOf(f) - 1 \in Positions
      BY <3>1, SizeType DEF Formed
    <3> QED BY <3>2 DEF Formed
  <2> QED BY <1>1, <1>2, <2>1
<1> QED BY <1>1, <1>2, <1>3, <1>4 DEF Formed

(* So do all of them.                                                      *)
LEMMA LaidSame ==
    ASSUME NEW fs, NEW gs, DOMAIN gs = DOMAIN fs, \A i \in DOMAIN fs : SamePlace(gs[i], fs[i]),
           NEW image, NEW one, SameAttributes(one, image), Laid(image, fs)
    PROVE  Laid(one, gs)
<1>1. \A k \in DOMAIN gs : Formed(one, gs[k])
  BY FormedSame DEF Laid
<1>2. \A k \in DOMAIN gs : StartOf(gs[k]) = StartOf(fs[k]) /\ gs[k].input = fs[k].input
  BY SamePlaces DEF SamePlace
<1>3. \A j, k \in DOMAIN gs : StartOf(gs[j]) = StartOf(gs[k]) => j = k
  BY <1>2 DEF Laid
<1>4. \A p \in Positions : one[p] = "input" <=> image[p] = "input"
  BY InputSame
<1>5. \A p \in Positions : one[p] = "input" => \E k \in DOMAIN gs : gs[k].input /\ StartOf(gs[k]) = p + 1
  BY <1>2, <1>4 DEF Laid
<1> QED BY <1>1, <1>3, <1>5 DEF Laid

(* A field with a line for every row. *)
Filled(f) == f \in Fields /\ Len(f.value) = Lines(f)

(* GetValue fills in the text and nothing else.                            *)
LEMMA ReadField ==
    ASSUME NEW image \in Screens, NEW f, Formed(image, f), f \in Fields,
           f.value = Unread \/ Filled(f)
    PROVE  LET g == Read(Buffer(image), f)
           IN  /\ Filled(g) /\ SamePlace(g, f) /\ g.changed = f.changed
               /\ g.value = IF f.value = Unread THEN Substring(Buffer(image), f) ELSE f.value
<1> DEFINE g == Read(Buffer(image), f)
           text == Substring(Buffer(image), f)
<1>1. text \in Seq(Seq(Chars)) /\ Len(text) = Lines(f)
  BY BufferType, SubstringType
<1> HIDE DEF text
<1>2. CASE f.value = Unread
  <2>1. g = [f EXCEPT !.value = text]
    BY <1>2 DEF Read, text
  <2> HIDE DEF g
  <2>2. g \in Fields /\ g.value = text /\ g.changed = f.changed
    BY <1>1, <2>1 DEF Fields
  <2>3. SamePlace(g, f)
    BY <2>1 DEF Fields, SamePlace
  <2>4. Lines(g) = Lines(f)
    BY <2>3, SamePlaces
  <2> QED BY <1>1, <1>2, <2>2, <2>3, <2>4 DEF Filled, g, text
<1>3. CASE f.value # Unread
  <2>1. g = f
    BY <1>3 DEF Read
  <2> QED BY <1>3, <2>1 DEF SamePlace, Filled
<1> QED BY <1>2, <1>3

(* updateFields sets a value that differs, and marks it.                   *)
LEMMA SetField ==
    ASSUME NEW f, Filled(f), NEW lines \in Seq(Seq(Chars)), Len(lines) = Lines(f)
    PROVE  LET g == UpdateField(f, lines)
           IN  /\ Filled(g) /\ SamePlace(g, f)
               /\ g.value = IF f.input /\ WithinModel(f) /\ lines # Normalize(f.value) THEN lines
                            ELSE f.value
               /\ f.changed = FALSE =>
                    (g.changed <=>
                        f.input /\ WithinModel(f) /\ lines # Normalize(f.value) /\ lines # f.value)
<1> DEFINE g == UpdateField(f, lines)
<1>1. f \in Fields /\ f.changed \in BOOLEAN /\ f.input \in BOOLEAN
  BY DEF Filled, Fields
<1>2. CASE f.input /\ WithinModel(f) /\ lines # Normalize(f.value) /\ f.value # lines
  <2>1. g = [f EXCEPT !.value = lines, !.changed = TRUE]
    BY <1>2 DEF UpdateField, Set
  <2> HIDE DEF g
  <2>2. g \in Fields /\ g.value = lines /\ g.changed
    BY <1>1, <2>1 DEF Fields
  <2>3. SamePlace(g, f)
    BY <1>1, <2>1 DEF Fields, SamePlace
  <2>4. Lines(g) = Lines(f)
    BY <2>3, SamePlaces
  <2> QED BY <1>2, <2>2, <2>3, <2>4 DEF Filled, g
<1>3. CASE ~(f.input /\ WithinModel(f) /\ lines # Normalize(f.value) /\ f.value # lines)
  <2>1. g = f
    BY <1>3 DEF UpdateField, Set
  <2> QED BY <1>1, <1>3, <2>1 DEF SamePlace, Filled
<1> QED BY <1>2, <1>3

-----------------------------------------------------------------------------
(* Types                                                                   *)

(* Every field lies where its attribute puts it and has a line of text,    *)
(* and of what was posted, for each of its rows.                           *)
TypeInv ==
    /\ TypeOK
    /\ SameAttributes(cells, shown)
    /\ pc = "read" => fields = << >> /\ posted = << >>
    /\ pc \in {"read", "page", "record"} => next = 0
    /\ pc # "read" => Laid(cells, fields)
    /\ \A i \in DOMAIN fields : Filled(fields[i]) /\ Len(posted[i]) = Lines(fields[i])

(* The first state.                                                        *)
LEMMA TypeInit == Init => TypeInv
<1> SUFFICES ASSUME Init PROVE TypeInv
  OBVIOUS
<1>1. cells \in Screens /\ shown \in Layouts
  BY LayoutsAssumption DEF Init
<1>2. TypeOK
  <2>1. << >> \in Seq(Fields) /\ << >> \in Seq(Seq(Seq(Chars)))
        /\ << >> \in Seq([row : 1..(Height + 1), column : 1..Width, text : Seq(Chars)])
    OBVIOUS
  <2>2. Len(<< >>) = 0 /\ 0 \in 0..1
    OBVIOUS
  <2>3. fields \in Seq(Fields) /\ posted \in Seq(Seq(Seq(Chars))) /\ DOMAIN posted = DOMAIN fields
    BY <2>1 DEF Init
  <2>4. steps \in Seq([row : 1..(Height + 1), column : 1..Width, text : Seq(Chars)])
    BY <2>1 DEF Init
  <2>5. next \in 0..(Len(fields) + 1)
    BY <2>2 DEF Init
  <2> QED BY <1>1, <2>3, <2>4, <2>5 DEF Init, TypeOK
<1> QED BY <1>2 DEF Init, TypeInv, SameAttributes

(* UpdateScreen reads the text of every field of the screen. *)
LEMMA ReadScreen ==
    ASSUME TypeInv, NEW lines \in Dumps(cells), UpdateScreen(lines)
    PROVE  /\ fields' \in Seq(Fields) /\ Laid(cells, fields')
           /\ \A i \in DOMAIN fields' :
                /\ Filled(fields'[i]) /\ fields'[i].changed = FALSE
                /\ fields'[i].value = Substring(Buffer(cells), fields'[i])
<1> DEFINE fs == Decode(lines)
           buffer == Buffer(cells)
<1>1. cells \in Screens
  BY DEF TypeInv, TypeOK
<1>2. fs = FieldsOf(cells, AttributePlaces(cells))
  <2>1. NormalizeTokens(lines) = Rows(cells)
    BY OneScreen, RepeatedScreen, LinePerRow DEF Dumps, Rows
  <2> QED BY <1>1, <2>1, DecodedFields DEF Decode
<1>3. fs \in Seq(Fields) /\ Laid(cells, fs) /\ \A k \in DOMAIN fs : Fresh(fs[k])
  <2>1. InOrder(cells, AttributePlaces(cells))
    BY <1>1, PlacesInOrder DEF InOrder
  <2> QED BY <1>1, <1>2, <2>1, FieldsLaid
<1> HIDE DEF fs
<1>4. ASSUME NEW k \in DOMAIN fs
      PROVE  LET f == Read(buffer, fs[k])
             IN  /\ Filled(f) /\ SamePlace(f, fs[k]) /\ f.changed = FALSE
                 /\ f.value = Substring(buffer, f)
  <2> DEFINE f == Read(buffer, fs[k])
  <2>1. Formed(cells, fs[k]) /\ fs[k] \in Fields /\ fs[k].value = Unread /\ fs[k].changed = FALSE
    BY <1>3 DEF Fresh, Laid
  <2>2. Filled(f) /\ SamePlace(f, fs[k]) /\ f.changed = FALSE /\ f.value = Substring(buffer, fs[k])
    BY <1>1, <2>1, ReadField
  <2> HIDE DEF f, buffer
  <2>3. Substring(buffer, f) = Substring(buffer, fs[k])
    BY <2>2, SamePlaces
  <2> QED BY <2>2, <2>3 DEF f
<1>5. fields' = [i \in DOMAIN fs |-> Read(buffer, fs[i])]
  BY DEF UpdateScreen, fs
<1> HIDE DEF buffer
<1>6. /\ DOMAIN fields' = DOMAIN fs /\ fields' \in Seq(Fields)
      /\ \A i \in DOMAIN fields' :
            /\ Filled(fields'[i]) /\ SamePlace(fields'[i], fs[i])
            /\ fields'[i].changed = FALSE /\ fields'[i].value = Substring(buffer, fields'[i])
  <2> DEFINE n == Len(fs)
  <2>1. n \in Nat /\ DOMAIN fs = 1..n
    BY <1>3
  <2> HIDE DEF n
  <2>2. \A i \in 1..n : Read(buffer, fs[i]) \in Fields
    BY <1>4, <2>1 DEF Filled
  <2>3. fields' = [i \in 1..n |-> Read(buffer, fs[i])]
    BY <1>5, <2>1
  <2>4. fields' \in Seq(Fields) /\ DOMAIN fields' = 1..n
    BY <2>1, <2>2, <2>3
  <2>5. \A i \in 1..n : fields'[i] = Read(buffer, fs[i])
    BY <2>3
  <2>6. \A i \in 1..n : /\ Filled(fields'[i]) /\ SamePlace(fields'[i], fs[i])
                         /\ fields'[i].changed = FALSE /\ fields'[i].value = Substring(buffer, fields'[i])
    BY <1>4, <2>1, <2>5
  <2> QED BY <2>1, <2>4, <2>6
<1>7. Laid(cells, fields')
  <2>1. SameAttributes(cells, cells)
    BY DEF SameAttributes
  <2> QED BY <1>3, <1>6, <2>1, LaidSame
<1> QED BY <1>6, <1>7 DEF buffer

(* UpdateScreen keeps the invariant.                                       *)
LEMMA UpdateTyped ==
    ASSUME TypeInv, NEW lines \in Dumps(cells), UpdateScreen(lines)
    PROVE  TypeInv'
<1>6. fields' \in Seq(Fields) /\ \A i \in DOMAIN fields' : Filled(fields'[i])
  BY ReadScreen
<1>7. Laid(cells, fields')
  BY ReadScreen
<1>8. posted' = [i \in DOMAIN fields' |-> Normalize(fields'[i].value)]
  BY DEF UpdateScreen
<1>9. \A i \in DOMAIN fields' : /\ Normalize(fields'[i].value) \in Seq(Seq(Chars))
                                /\ Len(Normalize(fields'[i].value)) = Lines(fields'[i])
  BY <1>6, NormalizeType DEF Filled, Fields
<1>10. /\ posted' \in Seq(Seq(Seq(Chars))) /\ DOMAIN posted' = DOMAIN fields'
       /\ \A i \in DOMAIN fields' : Len(posted'[i]) = Lines(fields'[i])
  <2> DEFINE n == Len(fields')
  <2>1. DOMAIN fields' = 1..n /\ n \in Nat
    BY <1>6
  <2> HIDE DEF n
  <2> QED BY <1>8, <1>9, <2>1
<1>11. UNCHANGED <<cells, shown, recording, steps, next, refused>> /\ pc' = "page" /\ pc = "read"
  BY DEF UpdateScreen
<1>12. next' \in 0..(Len(fields') + 1)
  <2>1. next = 0
    BY <1>11 DEF TypeInv
  <2> QED BY <1>6, <1>11, <2>1
<1>13. TypeOK'
  BY <1>6, <1>10, <1>11, <1>12 DEF TypeInv, TypeOK
<1> QED BY <1>6, <1>7, <1>10, <1>11, <1>13 DEF TypeInv

(* An edit keeps it.                                                       *)
LEMMA EditTyped ==
    ASSUME TypeInv, NEW i \in DOMAIN fields, NEW text \in Texts, NEW j \in DOMAIN posted[i],
           Edit(i, j, text)
    PROVE  TypeInv'
<1>1. Trim(text) \in Seq(Chars)
  BY TextsAssumption, TrimType
<1>2. posted \in Seq(Seq(Seq(Chars))) /\ DOMAIN posted = DOMAIN fields
  BY DEF TypeInv, TypeOK
<1>3. posted' = [posted EXCEPT ![i] = [posted[i] EXCEPT ![j] = Trim(text)]]
  BY DEF Edit
<1> DEFINE lines == [posted[i] EXCEPT ![j] = Trim(text)]
<1>4. lines \in Seq(Seq(Chars)) /\ Len(lines) = Len(posted[i])
  <2>1. posted[i] \in Seq(Seq(Chars))
    BY <1>2
  <2> QED BY <1>1, <2>1
<1> HIDE DEF lines
<1>5. posted' = [posted EXCEPT ![i] = lines]
  BY <1>3 DEF lines
<1>6. posted' \in Seq(Seq(Seq(Chars))) /\ DOMAIN posted' = DOMAIN posted
  BY <1>2, <1>4, <1>5
<1>7. \A k \in DOMAIN fields : Len(posted'[k]) = Len(posted[k])
  BY <1>2, <1>4, <1>5
<1>8. UNCHANGED <<pc, cells, shown, fields, recording, steps, next, refused>>
  BY DEF Edit
<1> QED BY <1>2, <1>6, <1>7, <1>8 DEF TypeInv, TypeOK

(* The fields of the next state, each at its place. *)
LEMMA FieldsKept ==
    ASSUME TypeInv, DOMAIN fields' = DOMAIN fields,
           fields' = [i \in DOMAIN fields |-> fields'[i]],
           \A i \in DOMAIN fields : Filled(fields'[i]) /\ SamePlace(fields'[i], fields[i])
    PROVE  /\ fields' \in Seq(Fields) /\ Len(fields') = Len(fields)
           /\ \A i \in DOMAIN fields : Lines(fields'[i]) = Lines(fields[i])
           /\ \A one : pc # "read" /\ SameAttributes(one, cells) => Laid(one, fields')
<1>1. fields \in Seq(Fields)
  BY DEF TypeInv, TypeOK
<1> DEFINE n == Len(fields)
<1>2. DOMAIN fields = 1..n /\ n \in Nat
  BY <1>1
<1> HIDE DEF n
<1>3. \A i \in 1..n : fields'[i] \in Fields
  BY <1>2 DEF Filled
<1>4. fields' \in Seq(Fields) /\ Len(fields') = n
  BY <1>2, <1>3
<1>5. \A i \in DOMAIN fields : Lines(fields'[i]) = Lines(fields[i])
  BY SamePlaces
<1>6. ASSUME NEW one, pc # "read", SameAttributes(one, cells) PROVE Laid(one, fields')
  BY <1>6, LaidSame DEF TypeInv
<1> QED BY <1>4, <1>5, <1>6 DEF n

(* updateFields keeps it.                                                  *)
LEMMA SubmitTyped == ASSUME TypeInv, Submit PROVE TypeInv'
<1>1. fields' = [i \in DOMAIN fields |-> UpdateField(fields[i], posted[i])]
  BY DEF Submit
<1>2. \A i \in DOMAIN fields : posted[i] \in Seq(Seq(Chars))
  BY DEF TypeInv, TypeOK
<1>3. \A i \in DOMAIN fields : Filled(fields'[i]) /\ SamePlace(fields'[i], fields[i])
  BY <1>1, <1>2, SetField DEF TypeInv
<1>4. /\ fields' \in Seq(Fields) /\ Len(fields') = Len(fields)
      /\ \A i \in DOMAIN fields : Lines(fields'[i]) = Lines(fields[i])
      /\ Laid(cells, fields')
  <2>1. SameAttributes(cells, cells) /\ pc # "read"
    BY DEF SameAttributes, Submit
  <2> QED BY <1>1, <1>3, <2>1, FieldsKept
<1>5. UNCHANGED <<cells, shown, posted, recording, steps, next, refused>> /\ pc' = "record" /\ pc = "page"
  BY DEF Submit
<1>6. DOMAIN fields' = DOMAIN fields
  BY <1>1
<1>7. TypeOK'
  BY <1>4, <1>5, <1>6 DEF TypeInv, TypeOK
<1> QED BY <1>3, <1>4, <1>5, <1>6, <1>7 DEF TypeInv

StepType == [row : 1..(Height + 1), column : 1..Width, text : Seq(Chars)]

Sound(f) == Filled(f) /\ Shaped(f)

(* A changed field's steps, a line each.                                   *)
LEMMA StepsOfField ==
    ASSUME NEW f, Sound(f)
    PROVE  /\ FieldSteps(f) \in Seq(StepType) /\ Len(FieldSteps(f)) = Lines(f)
           /\ \A i \in 1..Lines(f) :
                FieldSteps(f)[i] = [row |-> f.startY + i, column |-> f.startX + 1, text |-> Trim(f.value[i])]
<1>1. f.value \in Seq(Seq(Chars)) /\ Len(f.value) = Lines(f)
  BY DEF Sound, Filled, Fields
<1>2. (IF IsMultiline(f) THEN Len(f.value) ELSE 1) = Lines(f)
  BY <1>1 DEF Lines
<1> DEFINE step(i) == [row |-> f.startY + i, column |-> f.startX + 1, text |-> Trim(f.value[i])]
           n == Lines(f)
<1>3. FieldSteps(f) = [i \in 1..n |-> step(i)]
  BY <1>2 DEF FieldSteps
<1>4. n \in Nat
  BY LinesType DEF Sound
<1>5. ASSUME NEW i \in 1..n PROVE step(i) \in StepType
  <2>1. f.startY + i \in 1..(Height + 1)
    BY LinesType DEF Sound
  <2>2. f.startX + 1 \in 1..Width
    BY DimensionsAssumption DEF Sound, Shaped
  <2>3. Trim(f.value[i]) \in Seq(Chars)
    BY <1>1, TrimType
  <2> QED BY <2>1, <2>2, <2>3 DEF StepType
<1> HIDE DEF step, n
<1>6. FieldSteps(f) \in Seq(StepType) /\ Len(FieldSteps(f)) = n /\ \A i \in 1..n : FieldSteps(f)[i] = step(i)
  BY <1>3, <1>4, <1>5
<1> QED BY <1>6 DEF step, n

(* What recordFieldUpdates reads and takes down. *)
Wanted(f) == f.input /\ f.changed

ReadFields(image, fs) ==
    [i \in DOMAIN fs |-> IF Wanted(fs[i]) THEN Read(Buffer(image), fs[i]) ELSE fs[i]]

ChangedFields(fs) == Filter(fs, {f \in ToSet(fs) : Wanted(f)})

StepsOf(fs) == FlattenSeq([i \in DOMAIN ChangedFields(fs) |-> FieldSteps(ChangedFields(fs)[i])])

(* recordFieldUpdates by its parts.                                        *)
LEMMA RecordIs ==
    ASSUME RecordFieldUpdates
    PROVE  /\ pc = "record" /\ pc' = "send" /\ next' = 1
           /\ UNCHANGED <<cells, shown, posted, recording, refused>>
           /\ ~recording => UNCHANGED <<fields, steps>>
           /\ recording => fields' = ReadFields(cells, fields) /\ steps' = StepsOf(fields')
<1>1. /\ pc = "record" /\ pc' = "send" /\ next' = 1
      /\ UNCHANGED <<cells, shown, posted, recording, refused>>
      /\ ~recording => UNCHANGED <<fields, steps>>
  BY DEF RecordFieldUpdates
<1>2. ASSUME recording PROVE fields' = ReadFields(cells, fields) /\ steps' = StepsOf(fields')
  <2>1. fields' = ReadFields(cells, fields)
    BY <1>2 DEF RecordFieldUpdates, ReadFields, Wanted
  <2>2. steps' = StepsOf(ReadFields(cells, fields))
    BY <1>2 DEF RecordFieldUpdates, ReadFields, Wanted, StepsOf, ChangedFields
  <2> QED BY <2>1, <2>2
<1> QED BY <1>1, <1>2

(* All steps are of their type.                                            *)
LEMMA StepsTyped ==
    ASSUME NEW fs, fs \in Seq({f \in Fields : Sound(f)})
    PROVE  /\ ChangedFields(fs) \in Seq({f \in Fields : Sound(f)})
           /\ [i \in DOMAIN ChangedFields(fs) |-> FieldSteps(ChangedFields(fs)[i])] \in Seq(Seq(StepType))
           /\ StepsOf(fs) \in Seq(StepType)
<1> DEFINE T == {f \in Fields : Sound(f)}
           chosen == ChangedFields(fs)
<1>1. chosen \in Seq(T)
  <2> HIDE DEF T
  <2> QED BY FilterType DEF ChangedFields, T
<1> HIDE DEF chosen
<1> DEFINE seqs == [i \in DOMAIN chosen |-> FieldSteps(chosen[i])]
<1>2. seqs \in Seq(Seq(StepType))
  <2>1. \A i \in 1..Len(chosen) : FieldSteps(chosen[i]) \in Seq(StepType)
    BY <1>1, StepsOfField
  <2>2. DOMAIN chosen = 1..Len(chosen) /\ Len(chosen) \in Nat
    BY <1>1
  <2> QED BY <2>1, <2>2
<1> HIDE DEF seqs
<1>3. FlattenSeq(seqs) \in Seq(StepType)
  BY <1>2, FlattenType
<1> QED BY <1>1, <1>2, <1>3 DEF StepsOf, chosen, seqs

(* recordFieldUpdates keeps the invariant.                                 *)
LEMMA RecordTyped == ASSUME TypeInv, RecordFieldUpdates PROVE TypeInv'
<1>1. /\ pc = "record" /\ pc' = "send" /\ next' = 1
      /\ UNCHANGED <<cells, shown, posted, recording, refused>>
      /\ ~recording => UNCHANGED <<fields, steps>>
      /\ recording => fields' = ReadFields(cells, fields) /\ steps' = StepsOf(fields')
  BY RecordIs
<1>2. fields \in Seq(Fields) /\ Laid(cells, fields) /\ cells \in Screens
  BY <1>1 DEF TypeInv, TypeOK
<1>3. CASE recording
  <2>1. fields' = [i \in DOMAIN fields |-> IF Wanted(fields[i]) THEN Read(Buffer(cells), fields[i]) ELSE fields[i]]
    BY <1>1, <1>3 DEF ReadFields
  <2>2. \A i \in DOMAIN fields : Filled(fields'[i]) /\ SamePlace(fields'[i], fields[i])
    <3> TAKE i \in DOMAIN fields
    <3>1. Filled(fields[i]) /\ Formed(cells, fields[i]) /\ fields[i] \in Fields
      BY <1>2 DEF TypeInv, Laid
    <3>2. Filled(Read(Buffer(cells), fields[i])) /\ SamePlace(Read(Buffer(cells), fields[i]), fields[i])
      BY <1>2, <3>1, ReadField
    <3>3. SamePlace(fields[i], fields[i])
      BY DEF SamePlace
    <3> QED BY <2>1, <3>1, <3>2, <3>3
  <2>3. /\ fields' \in Seq(Fields) /\ Len(fields') = Len(fields)
        /\ \A i \in DOMAIN fields : Lines(fields'[i]) = Lines(fields[i])
        /\ Laid(cells, fields')
    <3>1. SameAttributes(cells, cells) /\ pc # "read"
      BY <1>1 DEF SameAttributes
    <3> QED BY <2>1, <2>2, <3>1, FieldsKept
  <2>4. DOMAIN fields' = DOMAIN fields
    BY <2>1
  <2>5. \A i \in 1..Len(fields') : Sound(fields'[i]) /\ fields'[i] \in Fields
    BY <1>2, <2>2, <2>3, <2>4 DEF Sound, Laid, Formed, Filled
  <2>6. fields' \in Seq({f \in Fields : Sound(f)})
    BY <2>3, <2>5
  <2>7. steps' \in Seq(StepType)
    BY <1>1, <1>3, <2>6, StepsTyped
  <2>8. next' \in 0..(Len(fields') + 1)
    BY <1>1, <2>3
  <2>9. TypeOK'
    BY <1>1, <2>3, <2>4, <2>7, <2>8 DEF TypeInv, TypeOK, StepType
  <2> QED BY <1>1, <2>2, <2>3, <2>4, <2>9 DEF TypeInv
<1>4. CASE ~recording
  <2>1. next' \in 0..(Len(fields) + 1)
    BY <1>1, <1>2
  <2> QED BY <1>1, <1>4, <2>1 DEF TypeInv, TypeOK
<1> QED BY <1>3, <1>4

-----------------------------------------------------------------------------
(* A field is typed                                                        *)

(* Typing a field is typing: attributes stay.                              *)
LEMMA FieldTyped ==
    ASSUME NEW image \in Screens, NEW f, Filled(f), Shaped(f), f.startY < Height
    PROVE  TypeLines(EraseEOF(Emulator(image, f.startY * Width + f.startX)), f.value)
                \in Emulators(image)
<1> DEFINE p == f.startY * Width + f.startX
<1>1. f.startY \in 0..(Height - 1) /\ f.startX \in 0..(Width - 1)
  BY DimensionsAssumption DEF Shaped
<1>2. p \in Positions
  BY <1>1, PlaceAt
<1> HIDE DEF p
<1> DEFINE e == EraseEOF(Emulator(image, p))
<1>3. e \in Emulators(image)
  BY <1>2, EmulatorStarts, Erased
<1> HIDE DEF e
<1>4. f.value \in Seq(Seq(Chars))
  BY DEF Filled, Fields
<1>5. PICK g \in [0..Len(f.value) -> Emulators(image)] : TypeLines(e, f.value) = g[Len(f.value)]
  BY <1>3, <1>4, TypedLines
<1>6. Len(f.value) \in 0..Len(f.value)
  BY <1>4
<1> QED BY <1>5, <1>6 DEF e, p

(* SubmitScreen keeps the invariant at each field.                         *)
LEMMA SubmitFieldTyped == ASSUME TypeInv, SubmitField PROVE TypeInv'
<1> DEFINE f == fields[next]
           e == TypeField(f)
<1>1. /\ pc = "send" /\ next \in DOMAIN fields /\ f.startY < Height
      /\ cells' = e.image /\ refused' = (refused \/ e.refused)
      /\ fields' = [fields EXCEPT ![next].changed = FALSE]
      /\ next' = next + 1
      /\ UNCHANGED <<pc, shown, posted, recording, steps>>
  BY DEF SubmitField
<1>2. fields \in Seq(Fields) /\ Laid(cells, fields) /\ cells \in Screens /\ refused \in BOOLEAN
  BY <1>1 DEF TypeInv, TypeOK
<1>3. Filled(f) /\ Shaped(f) /\ f \in Fields
  BY <1>1, <1>2 DEF TypeInv, Laid, Formed
<1>4. e \in Emulators(cells)
  BY <1>1, <1>2, <1>3, FieldTyped DEF TypeField
<1> HIDE DEF e
<1>5. cells' \in Screens /\ SameAttributes(cells', cells) /\ refused' \in BOOLEAN
  BY <1>1, <1>2, <1>4 DEF Emulators, EmulatorType
<1> HIDE DEF f
<1> DEFINE g == [f EXCEPT !.changed = FALSE]
<1>6. Filled(g) /\ SamePlace(g, f)
  <2>1. g \in Fields /\ g.value = f.value /\ SamePlace(g, f)
    BY <1>3 DEF Fields, SamePlace
  <2>2. Lines(g) = Lines(f)
    BY <2>1, SamePlaces
  <2> QED BY <1>3, <2>1, <2>2 DEF Filled
<1>7. fields' = [fields EXCEPT ![next] = g]
  BY <1>1 DEF f
<1> HIDE DEF g
<1>8. \A i \in DOMAIN fields : Filled(fields'[i]) /\ SamePlace(fields'[i], fields[i])
  <2> TAKE i \in DOMAIN fields
  <2>1. SamePlace(fields[i], fields[i]) /\ Filled(fields[i])
    BY DEF SamePlace, TypeInv
  <2> QED BY <1>6, <1>7, <2>1 DEF f
<1>9. DOMAIN fields' = DOMAIN fields /\ fields' = [i \in DOMAIN fields |-> fields'[i]]
  BY <1>2, <1>7
<1>10. /\ fields' \in Seq(Fields) /\ Len(fields') = Len(fields)
       /\ \A i \in DOMAIN fields : Lines(fields'[i]) = Lines(fields[i])
       /\ Laid(cells', fields')
  BY <1>1, <1>5, <1>8, <1>9, FieldsKept
<1>11. SameAttributes(cells', shown)
  BY <1>5 DEF TypeInv, SameAttributes
<1>12. next' \in 0..(Len(fields') + 1)
  BY <1>1, <1>2, <1>10
<1>13. \A p \in Positions : cells'[p] \in Attributes <=> shown[p] \in Attributes
  BY <1>11, InputSame
<1>14. TypeOK'
  BY <1>1, <1>5, <1>9, <1>10, <1>12, <1>13 DEF TypeInv, TypeOK
<1> QED BY <1>1, <1>8, <1>9, <1>10, <1>11, <1>14 DEF TypeInv

(* The invariant is inductive.                                             *)
LEMMA TypeNext == TypeInv /\ [Next]_vars => TypeInv'
<1> SUFFICES ASSUME TypeInv, [Next]_vars PROVE TypeInv'
  OBVIOUS
<1>1. CASE \E lines \in Dumps(cells) : UpdateScreen(lines)
  BY <1>1, UpdateTyped
<1>2. CASE \E i \in DOMAIN fields, text \in Texts : \E j \in DOMAIN posted[i] : Edit(i, j, text)
  BY <1>2, EditTyped
<1>3. CASE Submit
  BY <1>3, SubmitTyped
<1>4. CASE RecordFieldUpdates
  BY <1>4, RecordTyped
<1>5. CASE SkipField
  <2>1. next' \in 0..(Len(fields) + 1)
    BY <1>5 DEF SkipField, TypeInv, TypeOK
  <2> QED BY <1>5, <2>1 DEF SkipField, TypeInv, TypeOK
<1>6. CASE SubmitField
  BY <1>6, SubmitFieldTyped
<1>7. CASE SubmitFails
  BY <1>7 DEF SubmitFails, TypeInv, TypeOK
<1>8. CASE Sent
  BY <1>8 DEF Sent, TypeInv, TypeOK
<1>9. CASE UNCHANGED vars
  BY <1>9 DEF vars, TypeInv, TypeOK
<1> QED BY <1>1, <1>2, <1>3, <1>4, <1>5, <1>6, <1>7, <1>8, <1>9 DEF Next

(* Every variable keeps its type, however the emulator answers: the fields *)
(* lie within the screen, in as many lines as they have rows, and no       *)
(* typing changes an attribute.                                            *)
THEOREM TerminalTyped == Spec => []TypeOK
<1>1. TypeInv => TypeOK
  BY DEF TypeInv
<1> QED BY <1>1, TypeInit, TypeNext, PTL DEF Spec

(* The field that GetInputFieldAt finds at the cursor is one that the      *)
(* emulator takes input in, and it finds one wherever there is one, for    *)
(* every screen.                                                           *)
THEOREM CursorFieldIsFound == Spec => []CursorFieldFound
<1>1. TypeInv => CursorFieldFound
  <2> SUFFICES ASSUME TypeInv, pc # "read", NEW p \in Positions
               PROVE  LET found == InputFieldAt(fields, Col(p), Row(p))
                      IN  /\ found = 0 => ~IsInput(cells, p) \/ Wrapped(p)
                          /\ found # 0 /\ ~IsEmpty(fields[found]) => IsInput(cells, p)
    BY DEF CursorFieldFound
  <2>1. fields \in Seq(Fields) /\ Laid(cells, fields)
    BY DEF TypeInv, TypeOK
  <2> QED BY <2>1, LaidFieldFound DEF Wrapped
<1> QED BY <1>1, TypeInit, TypeNext, PTL DEF Spec

(* fieldLength is the number of characters that GetValue reads, for every  *)
(* field of every screen.                                                  *)
THEOREM LengthsMatch == Spec => []LengthsAgree
<1>1. TypeInv => LengthsAgree
  <2> SUFFICES ASSUME TypeInv, NEW i \in DOMAIN fields, ~IsEmpty(fields[i])
               PROVE  FieldLength(fields[i]) = Len(FlattenSeq(Substring(Buffer(cells), fields[i])))
    BY DEF LengthsAgree
  <2>1. pc # "read"
    BY DEF TypeInv
  <2>2. Formed(cells, fields[i]) /\ Buffer(cells) \in Buffers
    BY <2>1, BufferType DEF TypeInv, TypeOK, Laid
  <2> QED BY <2>2, TextLength, LengthIs DEF Formed
<1> QED BY <1>1, TypeInit, TypeNext, PTL DEF Spec

-----------------------------------------------------------------------------
(* Typing into a field                                                     *)

(* The screen differs from the image only behind the field's attribute. *)
OnlyIn(one, image, f) ==
    \A q \in Positions, a \in Positions :
        Governs(image, a, q) /\ a # StartOf(f) - 1 => one[q] = image[q]

(* An input field that has places. *)
InputField(image, f) == Formed(image, f) /\ f.input /\ ~IsEmpty(f)

(* An input field with places lies on the screen, behind its attribute.    *)
LEMMA InputFieldPlaces ==
    ASSUME NEW image, NEW f, InputField(image, f)
    PROVE  /\ StartOf(f) \in Positions /\ StartOf(f) \in Nat /\ StartOf(f) > 0 /\ StartOf(f) - 1 \in Positions
           /\ EndOf(f) \in Positions /\ EndOf(f) \in Nat /\ StartOf(f) <= EndOf(f) /\ EndOf(f) < Size
           /\ Size \in Nat \ {0}
           /\ image[StartOf(f) - 1] \in Attributes
           /\ Shaped(f)
<1>1. StartOf(f) \in Nat /\ EndOf(f) \in Positions /\ Shaped(f) /\ StartOf(f) <= EndOf(f)
  <2>1. Shaped(f)
    BY DEF InputField, Formed
  <2>2. StartOf(f) \in Nat /\ EndOf(f) \in Positions /\ ~(EndOf(f) < StartOf(f))
    BY <2>1, FieldPlaces DEF InputField
  <2> QED BY <2>1, <2>2, SizeType
<1>2. StartOf(f) > 0 /\ image[StartOf(f) - 1] \in Attributes
  BY DEF InputField, Formed, Attributes
<1> QED BY <1>1, <1>2, SizeType

(* eraseeof at its first place blanks it and nothing else.                 *)
LEMMA FieldErased ==
    ASSUME NEW image \in Screens, NEW f, InputField(image, f)
    PROVE  LET e == EraseEOF(Emulator(image, StartOf(f)))
           IN  /\ e \in Emulators(image) /\ ~e.refused /\ e.cursor = StartOf(f)
               /\ OnlyIn(e.image, image, f)
               /\ \A q \in Positions : StartOf(f) <= q /\ q <= EndOf(f) => e.image[q] = Blank
<1> DEFINE s == Emulator(image, StartOf(f))
           p == StartOf(f)
           rest == {q \in Positions :
                      \A r \in Positions : Distance(r, p) <= Distance(q, p) => image[r] \notin Attributes}
           erased == [q \in Positions |-> IF q \in rest THEN Blank ELSE image[q]]
           e == EraseEOF(s)
<1>1. /\ p \in Positions /\ p \in Nat /\ p > 0 /\ p - 1 \in Positions
      /\ EndOf(f) \in Positions /\ EndOf(f) \in Nat /\ p <= EndOf(f) /\ EndOf(f) < Size
      /\ Size \in Nat \ {0}
      /\ image[p - 1] \in Attributes
  BY InputFieldPlaces
<1>2. s.image = image /\ s.cursor = p /\ ~s.refused /\ s \in Emulators(image)
  <2>1. s \in Emulators(image) /\ ~s.refused
    BY <1>1, EmulatorStarts
  <2> QED BY <2>1 DEF Emulator
<1>3. IsInput(image, p)
  BY <1>1, FieldTakesInput DEF InputField
<1>4. e = [s EXCEPT !.image = erased]
  <2> HIDE DEF s, p
  <2> QED BY <1>2, <1>3 DEF EraseEOF, Distance
<1>5. e \in Emulators(image)
  BY <1>2, Erased
<1>6. e.image = erased /\ e.cursor = p /\ ~e.refused
  <2> HIDE DEF erased
  <2> QED BY <1>2, <1>4 DEF Emulators, EmulatorType
<1>7. \A q \in Positions : /\ q \in Nat /\ q < Size
                           /\ Distance(q, p) = IF p <= q THEN q - p ELSE q + Size - p
  BY <1>1, DistanceIs, SizeType
<1> HIDE DEF p
<1>8. ASSUME NEW q \in Positions, p <= q, q <= EndOf(f) PROVE q \in rest
  <2> SUFFICES ASSUME NEW r \in Positions, Distance(r, p) <= Distance(q, p) PROVE image[r] \notin Attributes
    OBVIOUS
  <2>1. p <= r /\ r <= q
    BY <1>1, <1>7, <1>8
  <2>2. r <= EndOf(f)
    BY <1>1, <1>7, <1>8, <2>1
  <2> QED BY <2>1, <2>2 DEF InputField, Formed, p
<1>9. ASSUME NEW q \in Positions, NEW a \in Positions, Governs(image, a, q), a # p - 1 PROVE q \notin rest
  <2>1. a < q /\ image[a] \in Attributes /\ \A r \in Positions : a < r /\ r <= q => image[r] \notin Attributes
    BY <1>9 DEF Governs
  <2>2. Distance(a, p) <= Distance(q, p)
    <3>1. CASE q < p
      BY <1>1, <1>7, <2>1, <3>1
    <3>2. CASE p <= a
      BY <1>1, <1>7, <2>1, <3>2
    <3>3. CASE p <= q /\ a < p
      <4>1. p - 1 <= q /\ ~(a < p - 1)
        BY <1>1, <1>7, <2>1, <3>3
      <4>2. a = p - 1
        BY <1>1, <1>7, <3>3, <4>1
      <4> QED BY <1>9, <4>2
    <3> QED BY <1>1, <1>7, <3>1, <3>2, <3>3
  <2> QED BY <2>1, <2>2
<1> HIDE DEF rest
<1>10. OnlyIn(e.image, image, f)
  BY <1>6, <1>9 DEF OnlyIn, p
<1>11. \A q \in Positions : p <= q /\ q <= EndOf(f) => e.image[q] = Blank
  BY <1>6, <1>8
<1> QED BY <1>5, <1>6, <1>10, <1>11 DEF p

(* The image after the first k characters of a line, from the place p on. *)
WithText(image, p, line, k) ==
    [q \in Positions |-> IF p <= q /\ q < p + k THEN line[q - p + 1] ELSE image[q]]

(* A line that fits is typed at the cursor and refused nowhere.            *)
LEMMA LineTyped ==
    ASSUME NEW image \in Screens, NEW f, InputField(image, f),
           NEW e \in Emulators(image), ~e.refused,
           StartOf(f) <= e.cursor, NEW line \in Seq(Chars), e.cursor + Len(line) <= EndOf(f) + 1,
           e.cursor <= EndOf(f)
    PROVE  LET d == TypeText(e, line)
           IN  /\ d \in Emulators(image) /\ ~d.refused
               /\ d.cursor = (e.cursor + Len(line)) % Size
               /\ d.image = WithText(e.image, e.cursor, line, Len(line))
<1> DEFINE N == Len(line)
           p == e.cursor
<1>1. N \in Nat /\ \A i \in 1..N : line[i] \in Chars
  OBVIOUS
<1>2. /\ e \in EmulatorType /\ e.image \in Screens /\ p \in Positions /\ p \in Nat /\ p < Size
      /\ Size \in Nat \ {0} /\ StartOf(f) \in Nat /\ EndOf(f) \in Nat /\ EndOf(f) < Size
  <2>1. e \in EmulatorType
    BY DEF Emulators
  <2> QED BY <2>1, InputFieldPlaces, SizeType DEF EmulatorType
<1>3. PICK g \in [0..N -> Emulators(image)] : TypesOn(g, e, line) /\ TypeText(e, line) = g[N]
  BY TypedText
<1>4. StartOf(f) <= p /\ p + N <= EndOf(f) + 1 /\ p <= EndOf(f)
  OBVIOUS
<1> HIDE DEF N, p
<1> DEFINE After(d, k) == /\ ~d.refused /\ d.cursor = (p + k) % Size
                          /\ d.image = WithText(e.image, p, line, k)
           Typed == {k \in 0..N : After(g[k], k)}
<1>5. 0 \in Typed
  <2>1. (p + 0) % Size = p
    BY <1>2, Division
  <2>2. WithText(e.image, p, line, 0) = e.image
    BY <1>2, SizeType DEF WithText, Screens
  <2> QED BY <1>1, <1>3, <2>1, <2>2 DEF TypesOn, p
<1>6. ASSUME NEW n \in 1..N, n - 1 \in Typed PROVE n \in Typed
  <2> DEFINE d == g[n - 1]
             c == d.cursor
  <2>1. n - 1 \in 0..N /\ n \in 0..N /\ line[n] \in Chars
    BY <1>1
  <2>2. g[n] = TypeKey(d, line[n])
    BY <1>3 DEF TypesOn, N
  <2>3. d \in Emulators(image) /\ After(d, n - 1)
    BY <1>3, <1>6, <2>1
  <2> HIDE DEF d
  <2>4. d \in EmulatorType /\ SameAttributes(d.image, image)
    BY <2>3 DEF Emulators
  <2>5. p + (n - 1) \in 0..(Size - 1) /\ p + (n - 1) <= EndOf(f) /\ StartOf(f) <= p + (n - 1)
    BY <1>1, <1>2, <1>4, <2>1
  <2>6. c = p + (n - 1)
    <3> DEFINE k == p + (n - 1)
    <3> HIDE DEF k
    <3>1. k \in 0..(Size - 1)
      BY <2>5 DEF k
    <3>2. k % Size = k
      BY <1>2, <3>1, Division
    <3> QED BY <2>3, <3>2 DEF k
  <2>7. c \in Positions /\ StartOf(f) <= c /\ c <= EndOf(f)
    BY <1>2, <2>5, <2>6, SizeType
  <2>8. IsInput(d.image, c)
    <3>1. IsInput(image, c)
      BY <2>7, FieldTakesInput DEF InputField
    <3> QED BY <2>4, <3>1, InputSame
  <2>9. g[n] = [d EXCEPT !.image[c] = line[n], !.cursor = (c + 1) % Size]
    BY <2>2, <2>8 DEF TypeKey
  <2>10. g[n].cursor = (c + 1) % Size /\ g[n].refused = d.refused /\ g[n].image = [d.image EXCEPT ![c] = line[n]]
    BY <2>4, <2>9 DEF EmulatorType
  <2>11. c + 1 = p + n
    BY <1>2, <2>1, <2>6
  <2>12. [d.image EXCEPT ![c] = line[n]] = WithText(e.image, p, line, n)
    <3>1. d.image = WithText(e.image, p, line, n - 1)
      BY <2>3
    <3>2. ASSUME NEW q \in Positions
          PROVE  (IF q = c THEN line[n] ELSE d.image[q])
                    = IF p <= q /\ q < p + n THEN line[q - p + 1] ELSE e.image[q]
      <4>1. q \in Nat /\ n \in Nat
        BY <1>1, SizeType
      <4>2. d.image[q] = IF p <= q /\ q < p + (n - 1) THEN line[q - p + 1] ELSE e.image[q]
        BY <3>1 DEF WithText
      <4>3. q = c => q - p + 1 = n /\ p <= q /\ q < p + n
        BY <1>2, <2>1, <2>6, <4>1
      <4>4. q # c => (p <= q /\ q < p + n <=> p <= q /\ q < p + (n - 1))
        BY <1>2, <2>6, <4>1
      <4> QED BY <4>2, <4>3, <4>4
    <3>3. [d.image EXCEPT ![c] = line[n]] = [q \in Positions |-> IF q = c THEN line[n] ELSE d.image[q]]
      BY <2>4 DEF EmulatorType, Screens
    <3> HIDE DEF c
    <3> QED BY <3>2, <3>3 DEF WithText
  <2> HIDE DEF c
  <2> QED BY <2>1, <2>3, <2>10, <2>11, <2>12
<1>7. \A n \in 0..N : n \in Typed
  <2> HIDE DEF Typed
  <2> QED BY <1>1, <1>5, <1>6, UpToInduction
<1>8. g[N] \in Emulators(image) /\ After(g[N], N)
  <2>1. N \in 0..N
    BY <1>1
  <2> QED BY <1>3, <1>7, <2>1
<1> QED BY <1>3, <1>8 DEF N, p

RowOf(f, i) == f.startY + i - 1

(* The place of the k-th character of a field's i-th line. *)
PlaceIn(f, i, k) == RowStart(f, RowOf(f, i)) + k - 1

(* How many characters the i-th line holds. *)
Room(f, i) == RowEnd(f, RowOf(f, i)) - RowStart(f, RowOf(f, i)) + 1

(* Where a line of the field is, and how much it holds.                    *)
LEMMA RowFacts ==
    ASSUME NEW f, Shaped(f), ~IsEmpty(f), NEW i \in 1..Lines(f)
    PROVE  /\ RowOf(f, i) \in (f.startY)..(f.endY) /\ RowOf(f, i) \in 0..(Height - 1)
           /\ RowStart(f, RowOf(f, i)) \in Positions /\ RowStart(f, RowOf(f, i)) \in Nat
           /\ Room(f, i) \in Nat \ {0}
           /\ RowEnd(f, RowOf(f, i)) \in Nat
           /\ RowEnd(f, RowOf(f, i)) = RowStart(f, RowOf(f, i)) + Room(f, i) - 1
           /\ StartOf(f) <= RowStart(f, RowOf(f, i)) /\ RowEnd(f, RowOf(f, i)) <= EndOf(f)
           /\ RowOf(f, i) * Width <= RowStart(f, RowOf(f, i))
           /\ RowEnd(f, RowOf(f, i)) < RowOf(f, i) * Width + Width
           /\ RowOf(f, i) * Width \in Nat
<1> DEFINE y == RowOf(f, i)
<1>1. y \in (f.startY)..(f.endY)
  BY LinesType DEF RowOf
<1> HIDE DEF y
<1>2. /\ y \in 0..(Height - 1)
      /\ RowStart(f, y) \in Positions /\ RowEnd(f, y) \in Positions
      /\ StartOf(f) <= RowStart(f, y) /\ RowStart(f, y) <= RowEnd(f, y) /\ RowEnd(f, y) <= EndOf(f)
      /\ y * Width <= RowStart(f, y) /\ RowEnd(f, y) < y * Width + Width
  BY <1>1, FieldRows
<1>3. RowStart(f, y) \in Nat /\ RowEnd(f, y) \in Nat
  BY <1>2, SizeType
<1>4. Room(f, i) = RowEnd(f, y) - RowStart(f, y) + 1
  BY DEF Room, y
<1>5. Room(f, i) \in Nat \ {0} /\ RowEnd(f, y) = RowStart(f, y) + Room(f, i) - 1
  BY <1>2, <1>3, <1>4
<1>6. y * Width \in Nat
  BY <1>2, PlaceAt, DimensionsAssumption, Products
<1> QED BY <1>1, <1>2, <1>3, <1>5, <1>6 DEF y

(* Rows do not overlap.                                                    *)
LEMMA RowsApart ==
    ASSUME NEW f, Shaped(f), ~IsEmpty(f), NEW i \in 1..Lines(f), NEW j \in 1..Lines(f), i < j
    PROVE  RowEnd(f, RowOf(f, i)) < RowStart(f, RowOf(f, j))
<1> DEFINE y == RowOf(f, i)
           z == RowOf(f, j)
<1>1. f.startY \in Nat /\ Lines(f) \in Nat
  BY LinesType, DimensionsAssumption DEF Shaped
<1>2. y + 1 <= z /\ y \in Int /\ z \in Int
  BY <1>1 DEF RowOf
<1> HIDE DEF y, z
<1>3. (y + 1) * Width <= z * Width /\ (y + 1) * Width = y * Width + Width
  BY <1>2, Products, DimensionsAssumption
<1>4. RowEnd(f, y) < y * Width + Width /\ RowEnd(f, y) \in Nat /\ y * Width \in Nat
  BY RowFacts DEF y
<1>5. z * Width <= RowStart(f, z) /\ RowStart(f, z) \in Nat /\ z * Width \in Nat
  BY RowFacts DEF z
<1> QED BY <1>3, <1>4, <1>5, DimensionsAssumption DEF y, z

(* Places of different lines, or different ones of a line, differ. *)
LEMMA PlacesInField ==
    ASSUME NEW f, Shaped(f), ~IsEmpty(f), NEW i \in 1..Lines(f), NEW k \in 1..Room(f, i)
    PROVE  /\ PlaceIn(f, i, k) \in Positions /\ PlaceIn(f, i, k) \in Nat
           /\ StartOf(f) <= PlaceIn(f, i, k) /\ PlaceIn(f, i, k) <= EndOf(f)
           /\ \A j \in 1..Lines(f), l \in Nat :
                /\ RowStart(f, RowOf(f, j)) <= PlaceIn(f, i, k)
                /\ PlaceIn(f, i, k) < RowStart(f, RowOf(f, j)) + l
                /\ l <= Room(f, j)
                => j = i /\ k <= l
<1> DEFINE p == PlaceIn(f, i, k)
           a == RowStart(f, RowOf(f, i))
           b == RowEnd(f, RowOf(f, i))
<1>1. a \in Nat /\ Room(f, i) \in Nat /\ b = a + Room(f, i) - 1 /\ b \in Nat /\ b <= EndOf(f) /\ StartOf(f) <= a
  BY RowFacts
<1>2. p = a + k - 1
  BY DEF PlaceIn
<1>3. EndOf(f) \in Nat /\ EndOf(f) < Size /\ Size \in Nat /\ StartOf(f) \in Nat
  BY FieldPlaces, SizeType
<1> HIDE DEF p, a, b
<1>4. p \in Nat /\ a <= p /\ p <= b
  BY <1>1, <1>2
<1>5. p \in Positions /\ StartOf(f) <= p /\ p <= EndOf(f)
  BY <1>1, <1>3, <1>4, SizeType
<1>6. ASSUME NEW j \in 1..Lines(f), NEW l \in Nat, RowStart(f, RowOf(f, j)) <= p,
             p < RowStart(f, RowOf(f, j)) + l, l <= Room(f, j)
      PROVE  j = i /\ k <= l
  <2> DEFINE c == RowStart(f, RowOf(f, j))
             d == RowEnd(f, RowOf(f, j))
  <2>1. c \in Nat /\ Room(f, j) \in Nat /\ d = c + Room(f, j) - 1 /\ d \in Nat
    BY RowFacts
  <2>2. c <= p /\ p < c + l
    BY <1>6
  <2>3. Lines(f) \in Nat
    BY LinesType
  <2>4. (i < j => b < c) /\ (j < i => d < a)
    BY RowsApart DEF a, b
  <2> HIDE DEF c, d
  <2>5. p <= d
    BY <1>4, <1>6, <2>1, <2>2
  <2>6. j = i
    BY <1>1, <1>4, <2>1, <2>2, <2>3, <2>4, <2>5
  <2>7. a = c
    BY <2>6 DEF a, c
  <2> QED BY <1>1, <1>2, <2>2, <2>6, <2>7
<1> QED BY <1>4, <1>5, <1>6 DEF p

(* A newline in a row of the field that is not its last leads to the next. *)
LEMMA NextRow ==
    ASSUME NEW image \in Screens, NEW f, InputField(image, f), NEW e \in Emulators(image),
           NEW i \in 1..Lines(f), i # Lines(f), Row(e.cursor) = RowOf(f, i)
    PROVE  /\ NewLine(e) \in Emulators(image) /\ NewLine(e).image = e.image
           /\ NewLine(e).refused = e.refused
           /\ NewLine(e).cursor = RowStart(f, RowOf(f, i + 1))
<1> DEFINE y == RowOf(f, i)
           below == (y + 1) * Width
           distance(q) == (q + 2 * Size - below) % Size
           inputs == {q \in Positions : IsInput(e.image, q)}
<1>1. Shaped(f) /\ ~IsEmpty(f) /\ Lines(f) \in Nat /\ i + 1 \in 1..Lines(f) /\ Size \in Nat \ {0}
  <2>1. Shaped(f) /\ ~IsEmpty(f)
    BY DEF InputField, Formed
  <2> QED BY <2>1, LinesType, SizeType
<1>2. y \in Nat /\ y + 1 = RowOf(f, i + 1) /\ RowOf(f, i + 1) # f.startY
  BY <1>1, DimensionsAssumption DEF RowOf, Shaped
<1>3. RowStart(f, RowOf(f, i + 1)) = below
  BY <1>2 DEF RowStart
<1>4. below \in Positions /\ below \in Nat /\ StartOf(f) <= below /\ below <= EndOf(f)
  <2>1. /\ RowStart(f, RowOf(f, i + 1)) \in Positions /\ RowStart(f, RowOf(f, i + 1)) \in Nat
        /\ StartOf(f) <= RowStart(f, RowOf(f, i + 1))
        /\ RowEnd(f, RowOf(f, i + 1)) <= EndOf(f)
        /\ RowEnd(f, RowOf(f, i + 1)) = RowStart(f, RowOf(f, i + 1)) + Room(f, i + 1) - 1
        /\ Room(f, i + 1) \in Nat \ {0} /\ RowEnd(f, RowOf(f, i + 1)) \in Nat
    BY <1>1, RowFacts
  <2>2. EndOf(f) \in Nat
    BY <1>1, FieldPlaces, SizeType
  <2> HIDE DEF below
  <2> QED BY <1>3, <2>1, <2>2
<1>5. e \in EmulatorType /\ SameAttributes(e.image, image) /\ e.cursor \in Positions
  BY DEF Emulators, EmulatorType
<1>6. below \in inputs
  <2>1. IsInput(image, below)
    BY <1>4, FieldTakesInput DEF InputField
  <2>2. IsInput(e.image, below)
    BY <1>5, <2>1, InputSame
  <2> QED BY <1>4, <2>2
<1>7. (Row(e.cursor) + 1) * Width = below
  OBVIOUS
<1> HIDE DEF below
<1>8. ASSUME NEW q \in Positions PROVE distance(q) = IF below <= q THEN q - below ELSE q + Size - below
  <2>1. q \in 0..(Size - 1) /\ below \in 0..(Size - 1) /\ Size \in Nat \ {0}
    BY <1>1, <1>4, SizeType
  <2>2. CASE below <= q
    <3> DEFINE k == q - below
    <3>1. k \in 0..(Size - 1) /\ q + 2 * Size - below = 2 * Size + k
      BY <2>1, <2>2
    <3> HIDE DEF k
    <3>2. (2 * Size + k) % Size = k
      BY <2>1, <3>1, Quotient
    <3> QED BY <2>2, <3>1, <3>2 DEF k
  <2>3. CASE q < below
    <3> DEFINE k == q + Size - below
    <3>1. k \in 0..(Size - 1) /\ q + 2 * Size - below = 1 * Size + k
      BY <2>1, <2>3
    <3> HIDE DEF k
    <3>2. (1 * Size + k) % Size = k
      BY <2>1, <3>1, Quotient
    <3> QED BY <2>1, <2>3, <3>1, <3>2 DEF k
  <2> QED BY <2>1, <2>2, <2>3
<1> DEFINE first == CHOOSE q \in inputs : \A r \in inputs : distance(q) <= distance(r)
<1>9. NewLine(e) = [e EXCEPT !.cursor = first]
  BY <1>6, <1>7 DEF NewLine
<1> HIDE DEF distance
<1>10. \A q \in inputs : q \in Positions /\ q \in Nat /\ q < Size
  BY SizeType
<1> HIDE DEF inputs
<1>11. first = below
  <2>1. distance(below) = 0
    BY <1>4, <1>8
  <2>2. \A r \in inputs : 0 <= distance(r)
    BY <1>1, <1>4, <1>8, <1>10, SizeType
  <2>3. first \in inputs /\ \A r \in inputs : distance(first) <= distance(r)
    BY <1>6, <2>1, <2>2
  <2> HIDE DEF first
  <2>4. distance(first) <= 0
    BY <1>6, <2>1, <2>3
  <2>5. distance(first) = IF below <= first THEN first - below ELSE first + Size - below
    BY <1>8, <1>10, <2>3
  <2>6. first \in Nat /\ below < Size /\ below \in Nat
    BY <1>4, <1>10, <2>3, SizeType
  <2> QED BY <1>1, <2>4, <2>5, <2>6
<1> HIDE DEF first
<1>12. NewLine(e).image = e.image /\ NewLine(e).refused = e.refused /\ NewLine(e).cursor = below
  BY <1>5, <1>9, <1>11 DEF EmulatorType
<1> QED BY <1>3, <1>12, NewLineMoves

(* Lines that a field has room for, none of which but the last fills its   *)
(* row.                                                                    *)
Fits(f, lines) ==
    /\ lines \in Seq(Seq(Chars)) /\ Len(lines) = Lines(f)
    /\ \A j \in 1..Lines(f) : Len(lines[j]) <= Room(f, j)
    /\ ~FillsRow(f, lines)

(* A line that does not fill its row leaves a place.                       *)
LEMMA RoomLeft ==
    ASSUME NEW f, Shaped(f), ~IsEmpty(f), NEW lines, Fits(f, lines),
           NEW j \in 1..Lines(f), j # Lines(f)
    PROVE  Len(lines[j]) < Room(f, j)
<1> DEFINE y == RowOf(f, j)
<1>1. /\ Lines(f) \in Nat /\ f.startY \in Nat /\ f.endY \in Nat /\ f.startX \in 0..(Width - 1)
      /\ Lines(f) = f.endY - f.startY + 1
  <2>1. Lines(f) = FieldHeight(f) /\ Lines(f) \in Nat
    BY LinesType
  <2> QED BY <2>1, DimensionsAssumption DEF Shaped, FieldHeight
<1>2. y # f.endY /\ (y = f.startY <=> j = 1) /\ y \in Nat
  BY <1>1 DEF RowOf
<1>3. y * Width \in Nat
  BY RowFacts
<1>4. RowEnd(f, y) = y * Width + Width - 1
  BY <1>2 DEF RowEnd
<1>5. RowStart(f, y) = y * Width + (IF j = 1 THEN f.startX ELSE 0)
  <2>1. CASE j = 1
    BY <1>2, <2>1 DEF RowStart, StartOf
  <2>2. CASE j # 1
    BY <1>2, <1>3, <2>2 DEF RowStart
  <2> QED BY <2>1, <2>2
<1> DEFINE z == y * Width
<1>6. Room(f, j) = (z + Width - 1) - (z + (IF j = 1 THEN f.startX ELSE 0)) + 1
  BY <1>4, <1>5 DEF Room
<1>7. z \in Nat
  BY <1>3
<1> HIDE DEF y, z
<1>8. Room(f, j) = Width - (IF j = 1 THEN f.startX ELSE 0)
  BY <1>1, <1>6, <1>7, DimensionsAssumption
<1>9. Len(lines) = Lines(f) /\ j \in 1..(Len(lines) - 1)
  BY <1>1 DEF Fits
<1>10. Len(lines[j]) # Room(f, j)
  BY <1>8, <1>9 DEF Fits, FillsRow
<1>11. Len(lines[j]) \in Nat /\ Len(lines[j]) <= Room(f, j)
  BY DEF Fits
<1> QED BY <1>1, <1>8, <1>10, <1>11, DimensionsAssumption

(* A place belongs to one attribute.                                       *)
LEMMA GovernorUnique ==
    ASSUME NEW image, NEW p \in Positions, NEW a, NEW b, Governs(image, a, p), Governs(image, b, p)
    PROVE  a = b
BY AttributeBefore

(* The field has the first j lines, and the cursor is behind them. *)
Filling(d, image, f, lines, j) ==
    /\ d \in Emulators(image) /\ ~d.refused
    /\ OnlyIn(d.image, image, f)
    /\ \A i \in 1..Lines(f) : \A k \in 1..Room(f, i) :
        d.image[PlaceIn(f, i, k)] = IF i <= j /\ k <= Len(lines[i]) THEN lines[i][k] ELSE Blank
    /\ d.cursor = IF j = 0 THEN StartOf(f) ELSE (RowStart(f, RowOf(f, j)) + Len(lines[j])) % Size

(* After a line that leaves a place newline leads to the next row.         *)
LEMMA NextLineStarts ==
    ASSUME NEW image \in Screens, NEW f, InputField(image, f), NEW lines, Fits(f, lines),
           NEW j \in 1..Lines(f), NEW d, Filling(d, image, f, lines, j - 1)
    PROVE  LET b == IF j = 1 THEN d ELSE NewLine(d)
           IN  /\ b \in Emulators(image) /\ ~b.refused /\ b.image = d.image
               /\ b.cursor = RowStart(f, RowOf(f, j))
<1>1. Shaped(f) /\ ~IsEmpty(f) /\ Lines(f) \in Nat /\ f.startY \in Nat
  <2>1. Shaped(f) /\ ~IsEmpty(f)
    BY DEF InputField, Formed
  <2> QED BY <2>1, LinesType, DimensionsAssumption DEF Shaped
<1>2. CASE j = 1
  <2>1. RowOf(f, 1) = f.startY
    BY <1>1 DEF RowOf
  <2>2. RowStart(f, RowOf(f, j)) = StartOf(f)
    BY <1>2, <2>1 DEF RowStart
  <2>3. j - 1 = 0
    BY <1>2
  <2> QED BY <1>2, <2>2, <2>3 DEF Filling
<1>3. CASE j # 1
  <2> DEFINE i == j - 1
             y == RowOf(f, i)
             a == RowStart(f, y)
             n == Len(lines[i])
  <2>1. i \in 1..Lines(f) /\ i # Lines(f) /\ i + 1 = j /\ i # 0
    BY <1>1, <1>3
  <2>2. n < Room(f, i) /\ n \in Nat
    <3>1. n < Room(f, i)
      BY <1>1, <2>1, RoomLeft
    <3>2. lines[i] \in Seq(Chars)
      BY <2>1 DEF Fits
    <3> QED BY <3>1, <3>2
  <2>3. /\ y \in 0..(Height - 1) /\ a \in Nat /\ Room(f, i) \in Nat /\ RowEnd(f, y) \in Nat
        /\ RowEnd(f, y) = a + Room(f, i) - 1 /\ RowEnd(f, y) <= EndOf(f)
        /\ y * Width <= a /\ RowEnd(f, y) < y * Width + Width /\ y * Width \in Nat
    BY <1>1, <2>1, RowFacts
  <2>4. EndOf(f) \in Nat /\ EndOf(f) < Size /\ Size \in Nat \ {0}
    BY InputFieldPlaces
  <2>5. d.cursor = (a + n) % Size
    BY <2>1 DEF Filling
  <2> DEFINE z == y * Width
             b == RowEnd(f, y)
             r == Room(f, i)
  <2> HIDE DEF i, y, a, n
  <2>6. a + n \in 0..(Size - 1) /\ a + n < y * Width + Width /\ y * Width <= a + n
    <3>1. z \in Nat /\ b \in Nat /\ r \in Nat /\ b = a + r - 1 /\ b <= EndOf(f) /\ z <= a /\ b < z + Width
      BY <2>3
    <3>2. n < r /\ Width \in Nat
      BY <2>2, DimensionsAssumption
    <3> HIDE DEF z, b, r
    <3>3. a + n \in 0..(Size - 1)
      BY <2>2, <2>3, <2>4, <3>1, <3>2
    <3>4. a + n < z + Width /\ z <= a + n
      BY <2>2, <2>3, <3>1, <3>2
    <3> QED BY <3>3, <3>4 DEF z
  <2> HIDE DEF z, b, r
  <2> DEFINE c == a + n
             x == c - y * Width
  <2>7. (a + n) % Size = c
    <3>1. c \in 0..(Size - 1)
      BY <2>6
    <3> HIDE DEF c
    <3>2. c % Size = c
      BY <2>4, <3>1, Division
    <3> QED BY <3>2 DEF c
  <2>8. x \in 0..(Width - 1) /\ c = y * Width + x
    BY <2>2, <2>3, <2>6, DimensionsAssumption
  <2> HIDE DEF x, c
  <2>9. Row(c) = y
    BY <2>3, <2>8, PlaceAt
  <2>10. Row(d.cursor) = RowOf(f, i)
    BY <2>5, <2>7, <2>9 DEF y
  <2>11. d \in Emulators(image) /\ ~d.refused
    BY DEF Filling
  <2>12. /\ NewLine(d) \in Emulators(image) /\ NewLine(d).image = d.image
         /\ NewLine(d).refused = d.refused /\ NewLine(d).cursor = RowStart(f, RowOf(f, i + 1))
    BY <2>1, <2>10, <2>11, NextRow
  <2> QED BY <1>3, <2>1, <2>11, <2>12
<1> QED BY <1>2, <1>3

(* Typing a line there fills its row.                                      *)
LEMMA LineFilled ==
    ASSUME NEW image \in Screens, NEW f, InputField(image, f), NEW lines, Fits(f, lines),
           NEW j \in 1..Lines(f), NEW d, Filling(d, image, f, lines, j - 1),
           NEW b \in Emulators(image), ~b.refused, b.image = d.image,
           b.cursor = RowStart(f, RowOf(f, j))
    PROVE  Filling(TypeText(b, lines[j]), image, f, lines, j)
<1> DEFINE e == TypeText(b, lines[j])
           a == RowStart(f, RowOf(f, j))
           n == Len(lines[j])
<1>1. Shaped(f) /\ ~IsEmpty(f)
  BY DEF InputField, Formed
<1>2. lines[j] \in Seq(Chars) /\ n \in Nat /\ n <= Room(f, j)
  BY DEF Fits
<1>3. /\ a \in Nat /\ Room(f, j) \in Nat \ {0} /\ RowEnd(f, RowOf(f, j)) \in Nat
      /\ RowEnd(f, RowOf(f, j)) = a + Room(f, j) - 1
      /\ StartOf(f) <= a /\ RowEnd(f, RowOf(f, j)) <= EndOf(f)
  BY <1>1, RowFacts
<1>4. EndOf(f) \in Nat /\ StartOf(f) \in Nat
  BY InputFieldPlaces
<1>5. b.cursor + Len(lines[j]) <= EndOf(f) + 1 /\ StartOf(f) <= b.cursor /\ b.cursor <= EndOf(f)
  <2> HIDE DEF a
  <2>1. a + n <= EndOf(f) + 1 /\ a <= EndOf(f)
    BY <1>2, <1>3, <1>4
  <2> QED BY <1>3, <2>1 DEF a
<1>6. /\ e \in Emulators(image) /\ ~e.refused /\ e.cursor = (a + n) % Size
      /\ e.image = WithText(d.image, a, lines[j], n)
  BY <1>2, <1>5, LineTyped
<1> HIDE DEF e, n
<1>7. OnlyIn(e.image, image, f)
  <2> SUFFICES ASSUME NEW q \in Positions, NEW g \in Positions, Governs(image, g, q), g # StartOf(f) - 1
               PROVE  e.image[q] = image[q]
    BY DEF OnlyIn
  <2>1. d.image[q] = image[q]
    BY DEF Filling, OnlyIn
  <2>2. ASSUME a <= q, q < a + n PROVE FALSE
    <3>1. StartOf(f) <= q /\ q <= EndOf(f)
      <4> HIDE DEF a
      <4> QED BY <1>2, <1>3, <1>4, <2>2, SizeType
    <3>2. Governs(image, StartOf(f) - 1, q)
      BY <3>1, FieldTakesInput DEF InputField
    <3> QED BY <3>2, GovernorUnique
  <2> QED BY <1>6, <2>1, <2>2 DEF WithText
<1>8. ASSUME NEW i \in 1..Lines(f), NEW k \in 1..Room(f, i)
      PROVE  e.image[PlaceIn(f, i, k)] = IF i <= j /\ k <= Len(lines[i]) THEN lines[i][k] ELSE Blank
  <2> DEFINE p == PlaceIn(f, i, k)
  <2>1. p \in Positions /\ p \in Nat
    BY <1>1, PlacesInField
  <2>2. a <= p /\ p < a + n => i = j /\ k <= n
    BY <1>1, <1>2, PlacesInField
  <2>3. p = RowStart(f, RowOf(f, i)) + k - 1
    BY DEF PlaceIn
  <2>4. d.image[p] = IF i <= j - 1 /\ k <= Len(lines[i]) THEN lines[i][k] ELSE Blank
    BY DEF Filling
  <2> HIDE DEF p
  <2>5. e.image[p] = IF a <= p /\ p < a + n THEN lines[j][p - a + 1] ELSE d.image[p]
    BY <1>6, <2>1 DEF WithText
  <2>6. Room(f, i) \in Nat /\ Lines(f) \in Nat
    BY <1>1, RowFacts, LinesType
  <2>7. CASE i = j
    <3>1. p = a + k - 1 /\ n = Len(lines[i])
      BY <2>3, <2>7 DEF n
    <3> HIDE DEF a
    <3>2. a <= p /\ p - a + 1 = k /\ (p < a + n <=> k <= n)
      BY <1>2, <1>3, <2>6, <3>1
    <3>3. ~(i <= j - 1) /\ i <= j
      BY <2>6, <2>7
    <3>4. d.image[p] = Blank
      BY <2>4, <3>3
    <3>5. CASE k <= n
      <4>1. e.image[p] = lines[j][p - a + 1]
        BY <2>5, <3>2, <3>5
      <4>2. e.image[p] = lines[i][k]
        BY <2>7, <3>2, <4>1
      <4> QED BY <3>1, <3>3, <3>5, <4>2 DEF p
    <3>6. CASE ~(k <= n)
      <4>1. e.image[p] = Blank
        BY <2>5, <3>2, <3>4, <3>6
      <4> QED BY <3>1, <3>6, <4>1 DEF p
    <3> QED BY <3>5, <3>6
  <2>8. CASE i # j
    <3>1. i <= j <=> i <= j - 1
      BY <2>6, <2>8
    <3>2. e.image[p] = d.image[p]
      BY <2>2, <2>5, <2>8
    <3>3. CASE i <= j
      <4> QED BY <2>4, <3>1, <3>2, <3>3 DEF p
    <3>4. CASE ~(i <= j)
      <4> QED BY <2>4, <3>1, <3>2, <3>4 DEF p
    <3> QED BY <3>3, <3>4
  <2> QED BY <2>7, <2>8 DEF p
<1>9. j # 0
  OBVIOUS
<1> QED BY <1>6, <1>7, <1>8, <1>9 DEF Filling, e, n

(* So all lines are in their rows in the end.                              *)
LEMMA FieldFilled ==
    ASSUME NEW image \in Screens, NEW f, InputField(image, f), NEW lines, Fits(f, lines)
    PROVE  Filling(TypeLines(EraseEOF(Emulator(image, StartOf(f))), lines), image, f, lines, Lines(f))
<1> DEFINE N == Lines(f)
           e == EraseEOF(Emulator(image, StartOf(f)))
<1>1. Shaped(f) /\ ~IsEmpty(f) /\ N \in Nat
  <2>1. Shaped(f) /\ ~IsEmpty(f)
    BY DEF InputField, Formed
  <2> QED BY <2>1, LinesType
<1>2. lines \in Seq(Seq(Chars)) /\ Len(lines) = N
  BY DEF Fits
<1>3. /\ e \in Emulators(image) /\ ~e.refused /\ e.cursor = StartOf(f)
      /\ OnlyIn(e.image, image, f)
      /\ \A q \in Positions : StartOf(f) <= q /\ q <= EndOf(f) => e.image[q] = Blank
  BY FieldErased
<1> HIDE DEF e, N
<1>4. PICK g \in [0..N -> Emulators(image)] : TypesLines(g, e, lines) /\ TypeLines(e, lines) = g[N]
  BY <1>2, <1>3, TypedLines
<1> DEFINE Filled_ == {j \in 0..N : Filling(g[j], image, f, lines, j)}
<1>5. 0 \in Filled_
  <2>1. \A i \in 1..Lines(f) : ~(i <= 0)
    BY <1>1 DEF N
  <2>2. \A i \in 1..Lines(f) : \A k \in 1..Room(f, i) : e.image[PlaceIn(f, i, k)] = Blank
    BY <1>1, <1>3, PlacesInField
  <2>3. g[0] = e
    BY <1>4 DEF TypesLines
  <2>4. Filling(e, image, f, lines, 0)
    BY <1>3, <2>1, <2>2 DEF Filling
  <2> QED BY <1>1, <2>3, <2>4
<1>6. ASSUME NEW j \in 1..N, j - 1 \in Filled_ PROVE j \in Filled_
  <2> DEFINE d == g[j - 1]
             b == IF j = 1 THEN d ELSE NewLine(d)
  <2>1. j \in 0..N /\ j \in 1..Lines(f)
    BY <1>1 DEF N
  <2>2. Filling(d, image, f, lines, j - 1)
    BY <1>6
  <2>3. g[j] = TypeText(b, lines[j])
    BY <1>2, <1>4 DEF TypesLines
  <2> HIDE DEF d
  <2>4. b \in Emulators(image) /\ ~b.refused /\ b.image = d.image /\ b.cursor = RowStart(f, RowOf(f, j))
    BY <2>1, <2>2, NextLineStarts
  <2> HIDE DEF b
  <2>5. Filling(TypeText(b, lines[j]), image, f, lines, j)
    BY <2>1, <2>2, <2>4, LineFilled
  <2> QED BY <2>1, <2>3, <2>5
<1>7. \A j \in 0..N : j \in Filled_
  <2> HIDE DEF Filled_
  <2> QED BY <1>1, <1>5, <1>6, UpToInduction
<1>8. N \in 0..N
  BY <1>1
<1> QED BY <1>4, <1>7, <1>8 DEF e, N

(* The text that is read from the field is what was typed. *)
LEMMA FilledText ==
    ASSUME NEW image \in Screens, NEW f, InputField(image, f), NEW lines, Fits(f, lines),
           NEW d, Filling(d, image, f, lines, Lines(f))
    PROVE  Normalize(Substring(Buffer(d.image), f)) = Normalize(lines)
<1> DEFINE buffer == Buffer(d.image)
           text == Substring(buffer, f)
           N == Lines(f)
<1>1. Shaped(f) /\ ~IsEmpty(f) /\ Formed(image, f) /\ N \in Nat
  <2>1. Shaped(f) /\ ~IsEmpty(f) /\ Formed(image, f)
    BY DEF InputField, Formed
  <2> QED BY <2>1, LinesType
<1>2. d \in Emulators(image) /\ d.image \in Screens /\ SameAttributes(d.image, image)
  BY DEF Filling, Emulators, EmulatorType
<1>3. text \in Seq(Seq(Chars)) /\ Len(text) = N /\ buffer \in Buffers
  BY <1>1, <1>2, BufferType, SubstringType
<1>4. lines \in Seq(Seq(Chars)) /\ Len(lines) = N
  BY DEF Fits
<1>5. text = [i \in 1..N |-> Between(buffer, RowStart(f, RowOf(f, i)), RowEnd(f, RowOf(f, i)))]
  BY <1>1, SubstringRows DEF RowOf
<1>6. ASSUME NEW i \in 1..N PROVE Trim(text[i]) = Trim(lines[i])
  <2> DEFINE a == RowStart(f, RowOf(f, i))
             b == RowEnd(f, RowOf(f, i))
  <2>1. text[i] = Between(buffer, a, b)
    <3> HIDE DEF text
    <3> QED BY <1>5
  <2>2. b - a + 1 = Room(f, i)
    BY DEF Room
  <2>3. Room(f, i) \in Nat /\ a \in Nat
    BY <1>1, RowFacts
  <2>4. text[i] = [k \in 1..Room(f, i) |-> buffer[PlaceIn(f, i, k)]]
    BY <2>1, <2>2 DEF Between, PlaceIn
  <2>5. text[i] \in Seq(Chars) /\ lines[i] \in Seq(Chars) /\ Len(lines[i]) <= Room(f, i)
    BY <1>3, <1>4 DEF Fits
  <2> HIDE DEF text
  <2>6. Len(text[i]) = Room(f, i)
    BY <2>3, <2>4, <2>5
  <2>7. ASSUME NEW k \in 1..Room(f, i)
        PROVE  text[i][k] = IF k <= Len(lines[i]) THEN lines[i][k] ELSE Blank
    <3> DEFINE p == PlaceIn(f, i, k)
    <3>1. p \in Positions /\ StartOf(f) <= p /\ p <= EndOf(f)
      BY <1>1, PlacesInField
    <3>2. d.image[p] \notin Attributes
      <4>1. image[p] \notin Attributes
        BY <1>1, <3>1 DEF Formed
      <4> QED BY <1>2, <3>1, <4>1, InputSame
    <3>3. i <= Lines(f)
      BY <1>1
    <3>4. d.image[p] = IF k <= Len(lines[i]) THEN lines[i][k] ELSE Blank
      BY <3>3 DEF Filling
    <3> HIDE DEF p
    <3>5. buffer[p] = d.image[p]
      BY <3>1, <3>2 DEF Buffer
    <3>6. text[i][k] = buffer[p]
      BY <2>4 DEF p
    <3> QED BY <3>4, <3>5, <3>6
  <2> QED BY <2>5, <2>6, <2>7, TrimPadded
<1> HIDE DEF text
<1>7. DOMAIN text = 1..N /\ DOMAIN lines = 1..N
  BY <1>3, <1>4
<1> QED BY <1>6, <1>7 DEF Normalize, text

(* Once the emulator has refused an input it stays so. *)
LEMMA KeyRefused == ASSUME NEW e, e \in EmulatorType, e.refused, NEW c PROVE TypeKey(e, c).refused
BY DEF TypeKey, EmulatorType

(* Typing a line does not undo a refusal.                                  *)
LEMMA TextRefused ==
    ASSUME NEW image \in Screens, NEW e \in Emulators(image), e.refused, NEW line \in Seq(Chars)
    PROVE  TypeText(e, line).refused
<1> DEFINE N == Len(line)
<1>1. N \in Nat
  OBVIOUS
<1>2. PICK g \in [0..Len(line) -> Emulators(image)] : TypesOn(g, e, line) /\ TypeText(e, line) = g[Len(line)]
  BY TypedText
<1> DEFINE S == {n \in 0..N : g[n].refused}
<1>3. 0 \in S
  BY <1>1, <1>2 DEF TypesOn
<1>4. ASSUME NEW n \in 1..N, n - 1 \in S PROVE n \in S
  <2>1. n - 1 \in 0..N /\ n \in 0..N
    BY <1>1
  <2>2. g[n - 1] \in EmulatorType /\ g[n - 1].refused /\ g[n] = TypeKey(g[n - 1], line[n])
    BY <1>2, <1>4, <2>1 DEF TypesOn, Emulators
  <2> QED BY <2>1, <2>2, KeyRefused
<1>5. \A n \in 0..N : n \in S
  <2> HIDE DEF S, N
  <2> QED BY <1>1, <1>3, <1>4, UpToInduction
<1> QED BY <1>1, <1>2, <1>5

(* Nor does typing lines.                                                  *)
LEMMA LinesRefused ==
    ASSUME NEW image \in Screens, NEW e \in Emulators(image), e.refused, NEW lines \in Seq(Seq(Chars))
    PROVE  TypeLines(e, lines).refused
<1> DEFINE N == Len(lines)
<1>1. N \in Nat
  OBVIOUS
<1>2. PICK g \in [0..Len(lines) -> Emulators(image)] :
        TypesLines(g, e, lines) /\ TypeLines(e, lines) = g[Len(lines)]
  BY TypedLines
<1> DEFINE S == {n \in 0..N : g[n].refused}
<1>3. 0 \in S
  BY <1>1, <1>2 DEF TypesLines
<1>4. ASSUME NEW n \in 1..N, n - 1 \in S PROVE n \in S
  <2> DEFINE d == g[n - 1]
             b == IF n = 1 THEN d ELSE NewLine(d)
  <2>1. n - 1 \in 0..N /\ n \in 0..N
    BY <1>1
  <2>2. d \in Emulators(image) /\ d.refused
    BY <1>2, <1>4, <2>1
  <2>3. g[n] = TypeText(b, lines[n])
    BY <1>2 DEF TypesLines
  <2> HIDE DEF d
  <2>4. b \in Emulators(image) /\ b.refused
    BY <2>2, NewLineMoves
  <2> HIDE DEF b
  <2>5. lines[n] \in Seq(Chars)
    OBVIOUS
  <2>6. TypeText(b, lines[n]).refused
    BY <2>4, <2>5, TextRefused
  <2> QED BY <2>1, <2>3, <2>6
<1>5. \A n \in 0..N : n \in S
  <2> HIDE DEF S, N
  <2> QED BY <1>1, <1>3, <1>4, UpToInduction
<1> QED BY <1>1, <1>2, <1>5

(* A field without places begins at an attribute, where nothing can be     *)
(* typed.                                                                  *)
LEMMA EmptyRefused ==
    ASSUME NEW image \in Screens, NEW f, Formed(image, f), IsEmpty(f), f.startY < Height,
           NEW lines \in Seq(Seq(Chars))
    PROVE  TypeLines(EraseEOF(Emulator(image, StartOf(f))), lines).refused
<1> DEFINE e == Emulator(image, StartOf(f))
<1>1. Shaped(f)
  BY DEF Formed
<1>2. StartOf(f) \in Positions
  <2>1. f.startY \in 0..(Height - 1) /\ f.startX \in 0..(Width - 1)
    BY <1>1, DimensionsAssumption DEF Shaped
  <2> QED BY <2>1, PlaceAt DEF StartOf
<1>3. StartOf(f) = EndOf(f) + 1
  <2>1. StartOf(f) \in Nat /\ EndOf(f) \in Nat /\ EndOf(f) < StartOf(f)
    BY <1>1, FieldPlaces, SizeType
  <2> QED BY <2>1 DEF Formed
<1>4. image[StartOf(f)] \in Attributes
  <2>1. EndOf(f) + 1 # Size
    BY <1>2, <1>3, SizeType
  <2> QED BY <1>3, <2>1 DEF Formed
<1>5. e \in Emulators(image) /\ e.image = image /\ e.cursor = StartOf(f)
  <2>1. e \in Emulators(image)
    BY <1>2, EmulatorStarts
  <2> QED BY <2>1 DEF Emulator
<1>6. EraseEOF(e) \in Emulators(image)
  BY <1>5, Erased
<1>7. EraseEOF(e).refused
  <2>1. ~IsInput(e.image, e.cursor)
    BY <1>4, <1>5 DEF IsInput
  <2>2. e \in EmulatorType
    BY <1>5 DEF Emulators
  <2> HIDE DEF e
  <2> QED BY <2>1, <2>2 DEF EraseEOF, EmulatorType
<1> HIDE DEF e
<1>8. TypeLines(EraseEOF(e), lines).refused
  BY <1>6, <1>7, LinesRefused
<1> QED BY <1>8 DEF e

-----------------------------------------------------------------------------
(* What a field shows and what is sent for it                              *)

Text(image, f) == Normalize(Substring(Buffer(image), f))

Edited(image, f, lines) == f.input /\ WithinModel(f) /\ lines # Text(image, f)

(* A field that shows any cell lies in the model's rows.                   *)
LEMMA WithinScreen ==
    ASSUME NEW f, Shaped(f), ~IsEmpty(f) PROVE WithinModel(f)
BY DimensionsAssumption, ModelRowsAssumption DEF Shaped, IsEmpty, WithinModel

(* What a field's posted lines are typed as. *)
Sending(image, f, lines, records) ==
    IF records /\ Cleared(f, lines) THEN Substring(Buffer(image), f) ELSE lines

(* Trimmed lines that the field has room for. *)
Entered(f, lines) ==
    \A j \in DOMAIN lines : Trim(lines[j]) = lines[j] /\ (~IsEmpty(f) => Len(lines[j]) <= Room(f, j))

StepFor(f, lines) == [row |-> f.startY + 1, column |-> f.startX + 1, text |-> Trim(lines[1])]

(* What is sent depends on the field's place only.                         *)
LEMMA SameSent ==
    ASSUME NEW f, NEW g, SamePlace(f, g)
    PROVE  /\ \A image : Text(image, f) = Text(image, g)
           /\ \A image, lines : Edited(image, f, lines) <=> Edited(image, g, lines)
           /\ \A image, lines, records : Sending(image, f, lines, records) = Sending(image, g, lines, records)
           /\ \A lines : Entered(f, lines) <=> Entered(g, lines)
           /\ \A lines : StepFor(f, lines) = StepFor(g, lines)
           /\ \A lines : FillsRow(f, lines) <=> FillsRow(g, lines)
<1>1. /\ f.startX = g.startX /\ f.startY = g.startY /\ f.endY = g.endY /\ f.input = g.input
      /\ StartOf(f) = StartOf(g) /\ EndOf(f) = EndOf(g)
      /\ IsEmpty(f) <=> IsEmpty(g)
      /\ IsMultiline(f) <=> IsMultiline(g)
      /\ \A buffer : Substring(buffer, f) = Substring(buffer, g)
  BY SamePlaces DEF SamePlace
<1>2. \A image : Text(image, f) = Text(image, g)
  BY <1>1 DEF Text
<1>3. \A j : Room(f, j) = Room(g, j)
  BY <1>1 DEF Room, RowOf, RowStart, RowEnd
<1>4. \A image, lines : Edited(image, f, lines) <=> Edited(image, g, lines)
  BY <1>1, <1>2 DEF Edited, WithinModel
<1>5. \A image, lines, records : Sending(image, f, lines, records) = Sending(image, g, lines, records)
  BY <1>1 DEF Sending, Cleared
<1>6. \A lines : Entered(f, lines) <=> Entered(g, lines)
  BY <1>1, <1>3 DEF Entered
<1>7. \A lines : StepFor(f, lines) = StepFor(g, lines)
  BY <1>1 DEF StepFor
<1>8. \A lines : FillsRow(f, lines) <=> FillsRow(g, lines)
  BY <1>1 DEF FillsRow
<1> QED BY <1>2, <1>4, <1>5, <1>6, <1>7, <1>8

(* Posted lines are normalized already.                                    *)
LEMMA EnteredNormal ==
    ASSUME NEW f, NEW lines \in Seq(Seq(Chars)), Entered(f, lines)
    PROVE  Normalize(lines) = lines
BY DEF Normalize, Entered

(* A field's text has a line for each row, as long as it.                  *)
LEMMA TextType ==
    ASSUME NEW image \in Screens, NEW f, Formed(image, f)
    PROVE  /\ Substring(Buffer(image), f) \in Seq(Seq(Chars)) /\ Len(Substring(Buffer(image), f)) = Lines(f)
           /\ ~IsEmpty(f) => \A j \in 1..Lines(f) : Len(Substring(Buffer(image), f)[j]) = Room(f, j)
           /\ Text(image, f) \in Seq(Seq(Chars)) /\ Len(Text(image, f)) = Lines(f)
<1> DEFINE text == Substring(Buffer(image), f)
<1>1. Buffer(image) \in Buffers /\ Shaped(f)
  BY BufferType DEF Formed
<1>2. text \in Seq(Seq(Chars)) /\ Len(text) = Lines(f)
  BY <1>1, SubstringType
<1>3. Text(image, f) \in Seq(Seq(Chars)) /\ Len(Text(image, f)) = Lines(f)
  BY <1>2, NormalizeType DEF Text
<1>4. ASSUME ~IsEmpty(f), NEW j \in 1..Lines(f) PROVE Len(text[j]) = Room(f, j)
  <2> DEFINE a == RowStart(f, RowOf(f, j))
             b == RowEnd(f, RowOf(f, j))
  <2>1. text[j] = Between(Buffer(image), a, b)
    <3>1. text = [i \in 1..Lines(f) |-> Between(Buffer(image), RowStart(f, RowOf(f, i)), RowEnd(f, RowOf(f, i)))]
      BY <1>1, <1>4, SubstringRows DEF RowOf
    <3> HIDE DEF text
    <3> QED BY <3>1
  <2>2. a \in Nat /\ b \in Int /\ Room(f, j) \in Nat /\ b = a + Room(f, j) - 1 /\ b <= EndOf(f)
    BY <1>1, <1>4, RowFacts
  <2>3. b < Size
    BY <1>1, <2>2, FieldPlaces, SizeType
  <2> HIDE DEF a, b, text
  <2>4. a <= b + 1
    BY <2>2
  <2>5. Len(Between(Buffer(image), a, b)) = b - a + 1
    BY <1>1, <2>2, <2>3, <2>4, BetweenType
  <2> QED BY <2>1, <2>2, <2>5
<1> QED BY <1>2, <1>3, <1>4

(* What the page shows could have been entered.                            *)
LEMMA TextEntered ==
    ASSUME NEW image \in Screens, NEW f, Formed(image, f)
    PROVE  Entered(f, Text(image, f))
<1> DEFINE text == Substring(Buffer(image), f)
           n == Lines(f)
<1>1. text \in Seq(Seq(Chars)) /\ Len(text) = n /\ (~IsEmpty(f) => \A j \in 1..n : Len(text[j]) = Room(f, j))
  BY TextType
<1>2. Text(image, f) = Normalize(text)
  BY DEF Text
<1> HIDE DEF text, n
<1>3. DOMAIN Normalize(text) = 1..n /\ \A j \in 1..n : Normalize(text)[j] = Trim(text[j])
  BY <1>1 DEF Normalize
<1>4. ASSUME NEW j \in 1..n
      PROVE  Trim(Trim(text[j])) = Trim(text[j]) /\ (~IsEmpty(f) => Len(Trim(text[j])) <= Room(f, j))
  <2>1. text[j] \in Seq(Chars)
    BY <1>1
  <2> QED BY <1>1, <2>1, TrimTwice, TrimType
<1> QED BY <1>2, <1>3, <1>4 DEF Entered

(* The page's input is not wider than the field's row. *)
LEMMA InputFits ==
    ASSUME NEW f, Shaped(f), ~IsEmpty(f), NEW j \in 1..Lines(f)
    PROVE  InputWidth(f, j) <= Room(f, j)
<1> DEFINE y == RowOf(f, j)
           z == y * Width
<1>1. /\ f.startY \in Nat /\ f.endY \in Nat /\ f.startX \in Nat /\ f.endX \in Nat
      /\ Width \in Nat \ {0} /\ Margin \in Nat
      /\ f.startX < Width /\ f.endX < Width
  BY DimensionsAssumption DEF Shaped
<1>2. Lines(f) = f.endY - f.startY + 1 /\ FieldHeight(f) = f.endY - f.startY + 1 /\ f.startY <= f.endY
  BY <1>1, LinesType DEF FieldHeight, IsEmpty
<1>3. y = f.startY + j - 1 /\ (y = f.startY <=> j = 1) /\ (y = f.endY <=> j = FieldHeight(f))
  BY <1>1, <1>2 DEF RowOf
<1>4. z \in Nat
  BY RowFacts
<1>5. RowStart(f, y) = z + (IF j = 1 THEN f.startX ELSE 0)
  <2>1. CASE j = 1
    BY <1>3, <2>1 DEF RowStart, StartOf
  <2>2. CASE j # 1
    BY <1>3, <1>4, <2>2 DEF RowStart
  <2> QED BY <2>1, <2>2
<1>6. RowEnd(f, y) = z + (IF j = FieldHeight(f) THEN f.endX ELSE Width - 1)
  <2>1. CASE j = FieldHeight(f)
    BY <1>3, <2>1 DEF RowEnd, EndOf
  <2>2. CASE j # FieldHeight(f)
    BY <1>1, <1>3, <1>4, <2>2 DEF RowEnd
  <2> QED BY <2>1, <2>2
<1>7. Room(f, j) = RowEnd(f, y) - RowStart(f, y) + 1
  BY DEF Room
<1> HIDE DEF y, z
<1>8. Room(f, j) = (IF j = FieldHeight(f) THEN f.endX + 1 ELSE Width) - (IF j = 1 THEN f.startX ELSE 0)
  BY <1>1, <1>4, <1>5, <1>6, <1>7
<1>9. CASE ~IsMultiline(f)
  <2>1. FieldHeight(f) = 1 /\ j = 1
    BY <1>1, <1>2, <1>9 DEF IsMultiline
  <2> QED BY <1>1, <1>8, <1>9, <2>1 DEF InputWidth
<1>10. CASE IsMultiline(f)
  <2>1. FieldHeight(f) # 1
    BY <1>1, <1>2, <1>10 DEF IsMultiline
  <2>2. Room(f, j) \in Nat
    BY RowFacts
  <2>3. CASE j = FieldHeight(f)
    BY <1>1, <1>8, <1>10, <2>1, <2>2, <2>3 DEF InputWidth
  <2>4. CASE j = 1 /\ j # FieldHeight(f)
    BY <1>1, <1>8, <1>10, <2>2, <2>4 DEF InputWidth
  <2>5. CASE j # 1 /\ j # FieldHeight(f)
    BY <1>1, <1>8, <1>10, <2>2, <2>5 DEF InputWidth
  <2> QED BY <2>3, <2>4, <2>5
<1> QED BY <1>9, <1>10

(* What is sent fits into the field. *)
LEMMA SendingFits ==
    ASSUME NEW image \in Screens, NEW f, Formed(image, f), ~IsEmpty(f),
           NEW lines \in Seq(Seq(Chars)), Len(lines) = Lines(f), Entered(f, lines), ~FillsRow(f, lines),
           NEW records \in BOOLEAN
    PROVE  Fits(f, Sending(image, f, lines, records))
<1> DEFINE text == Substring(Buffer(image), f)
<1>1. CASE records /\ Cleared(f, lines)
  <2>1. Sending(image, f, lines, records) = text
    BY <1>1 DEF Sending
  <2>2. text \in Seq(Seq(Chars)) /\ Len(text) = Lines(f) /\ \A j \in 1..Lines(f) : Len(text[j]) = Room(f, j)
    BY TextType
  <2>3. Lines(f) = 1
    BY <1>1 DEF Cleared, Lines
  <2> HIDE DEF text
  <2>4. \A j \in 1..Lines(f) : Len(text[j]) <= Room(f, j)
    <3>1. Shaped(f)
      BY DEF Formed
    <3>2. \A j \in 1..Lines(f) : Room(f, j) \in Nat
      BY <3>1, RowFacts
    <3> QED BY <2>2, <3>2
  <2>5. ~FillsRow(f, text)
    BY <2>2, <2>3 DEF FillsRow
  <2> QED BY <2>1, <2>2, <2>4, <2>5 DEF Fits
<1>2. CASE ~(records /\ Cleared(f, lines))
  <2>1. Sending(image, f, lines, records) = lines
    BY <1>2 DEF Sending
  <2>2. DOMAIN lines = 1..Lines(f)
    OBVIOUS
  <2> QED BY <2>1, <2>2 DEF Fits, Entered
<1> QED BY <1>1, <1>2

(* A field's value and its mark, on the way from the page. *)
Staged(i) ==
    LET f == fields[i]
        lines == posted[i]
    IN  /\ pc = "page" => f.value = Substring(Buffer(shown), f) /\ f.changed = FALSE
        /\ pc = "record" =>
            /\ f.changed <=> Edited(shown, f, lines)
            /\ f.value = IF Edited(shown, f, lines) THEN lines ELSE Substring(Buffer(shown), f)
        /\ pc \in {"send", "sent", "failed"} =>
            /\ f.changed <=> Edited(shown, f, lines) /\ next <= i
            /\ Edited(shown, f, lines) => f.value = Sending(shown, f, lines, recording)

StageInv ==
    /\ pc \in {"read", "page", "record"} => cells = shown /\ refused = FALSE
    /\ pc = "sent" => next = Len(fields) + 1
    /\ \A i \in DOMAIN fields : Entered(fields[i], posted[i]) /\ Staged(i)

(* The first state.                                                        *)
LEMMA StageInit == Init => StageInv
BY DEF Init, StageInv

(* Of a field in a state that is not "read". *)
LEMMA FieldFacts ==
    ASSUME TypeInv, NEW i \in DOMAIN fields
    PROVE  /\ pc # "read" /\ fields[i] \in Fields /\ Filled(fields[i])
           /\ fields[i].changed \in BOOLEAN /\ fields[i].input \in BOOLEAN
           /\ Shaped(fields[i]) /\ Formed(cells, fields[i]) /\ Formed(shown, fields[i])
           /\ posted[i] \in Seq(Seq(Chars)) /\ Len(posted[i]) = Lines(fields[i])
           /\ cells \in Screens /\ shown \in Screens
           /\ i \in Nat /\ i \in 1..Len(fields)
           /\ recording \in BOOLEAN /\ next \in Nat
<1>1. pc # "read"
  BY DEF TypeInv
<1>2. Filled(fields[i]) /\ Formed(cells, fields[i]) /\ Shaped(fields[i]) /\ Len(posted[i]) = Lines(fields[i])
  BY <1>1 DEF TypeInv, Laid, Formed
<1>3. fields[i] \in Fields /\ fields[i].changed \in BOOLEAN /\ fields[i].input \in BOOLEAN
  BY <1>2 DEF Filled, Fields
<1>4. /\ cells \in Screens /\ shown \in Screens /\ recording \in BOOLEAN /\ next \in Nat
      /\ fields \in Seq(Fields) /\ posted \in Seq(Seq(Seq(Chars))) /\ DOMAIN posted = DOMAIN fields
  BY LayoutsAssumption DEF TypeInv, TypeOK
<1>5. Formed(shown, fields[i])
  <2>1. SameAttributes(shown, cells)
    BY DEF TypeInv, SameAttributes
  <2>2. SamePlace(fields[i], fields[i])
    BY DEF SamePlace
  <2> QED BY <1>2, <2>1, <2>2, FormedSame
<1>6. posted[i] \in Seq(Seq(Chars)) /\ i \in Nat /\ i \in 1..Len(fields)
  BY <1>4
<1> QED BY <1>1, <1>2, <1>3, <1>4, <1>5, <1>6

(* UpdateScreen: the values are the screen's.                              *)
LEMMA UpdateStaged ==
    ASSUME TypeInv, StageInv, NEW lines \in Dumps(cells), UpdateScreen(lines)
    PROVE  StageInv'
<1>1. /\ pc = "read" /\ pc' = "page" /\ UNCHANGED <<cells, shown, recording, steps, next, refused>>
      /\ posted' = [i \in DOMAIN fields' |-> Normalize(fields'[i].value)]
  BY DEF UpdateScreen
<1>2. cells = shown /\ refused = FALSE /\ cells \in Screens
  BY <1>1 DEF StageInv, TypeInv, TypeOK
<1>3. ASSUME NEW i \in DOMAIN fields'
      PROVE  /\ fields'[i].value = Substring(Buffer(shown'), fields'[i]) /\ fields'[i].changed = FALSE
             /\ Entered(fields'[i], posted'[i])
  <2>1. /\ Formed(cells, fields'[i]) /\ fields'[i].changed = FALSE
        /\ fields'[i].value = Substring(Buffer(cells), fields'[i])
    BY ReadScreen DEF Laid
  <2>2. posted'[i] = Text(cells, fields'[i])
    BY <1>1, <2>1 DEF Text
  <2>3. Entered(fields'[i], posted'[i])
    BY <1>2, <2>1, <2>2, TextEntered
  <2> QED BY <1>1, <1>2, <2>1, <2>3
<1> QED BY <1>1, <1>2, <1>3 DEF StageInv, Staged

(* An edit stays within the field.                                         *)
LEMMA EditStaged ==
    ASSUME TypeInv, StageInv, NEW i \in DOMAIN fields, NEW text \in Texts, NEW j \in DOMAIN posted[i],
           Edit(i, j, text)
    PROVE  StageInv'
<1>1. /\ pc = "page" /\ Len(text) <= InputWidth(fields[i], j)
      /\ UNCHANGED <<pc, cells, shown, fields, recording, steps, next, refused>>
      /\ posted' = [posted EXCEPT ![i] = [posted[i] EXCEPT ![j] = Trim(text)]]
  BY DEF Edit
<1> DEFINE lines == [posted[i] EXCEPT ![j] = Trim(text)]
<1>2. Entered(fields[i], lines)
  <2> SUFFICES ASSUME NEW k \in DOMAIN lines
               PROVE  /\ Trim(lines[k]) = lines[k]
                      /\ ~IsEmpty(fields[i]) => Len(lines[k]) <= Room(fields[i], k)
    BY DEF Entered
  <2>1. k \in DOMAIN posted[i] /\ (k # j => lines[k] = posted[i][k]) /\ (k = j => lines[k] = Trim(text))
    OBVIOUS
  <2> HIDE DEF lines
  <2>2. CASE k # j
    BY <2>1, <2>2 DEF StageInv, Entered
  <2>3. CASE k = j
    <3>1. text \in Seq(Chars)
      BY TextsAssumption
    <3>2. Trim(Trim(text)) = Trim(text) /\ Len(Trim(text)) <= Len(text) /\ Trim(text) \in Seq(Chars)
      BY <3>1, TrimTwice, TrimType
    <3>3. ASSUME ~IsEmpty(fields[i]) PROVE Len(Trim(text)) <= Room(fields[i], j)
      <4>1. Shaped(fields[i]) /\ posted[i] \in Seq(Seq(Chars)) /\ Len(posted[i]) = Lines(fields[i])
        BY FieldFacts
      <4>2. j \in 1..Lines(fields[i])
        BY <4>1
      <4>3. InputWidth(fields[i], j) <= Room(fields[i], j) /\ Room(fields[i], j) \in Int
        BY <3>3, <4>1, <4>2, InputFits, RowFacts
      <4>4. InputWidth(fields[i], j) \in Int
        <5>1. /\ fields[i].startX \in Int /\ fields[i].endX \in Int /\ Width \in Int /\ Margin \in Int
          BY <4>1, DimensionsAssumption DEF Shaped
        <5> QED BY <5>1 DEF InputWidth
      <4>5. Len(text) \in Int /\ Len(Trim(text)) \in Int
        BY <3>1, <3>2
      <4> QED BY <1>1, <3>2, <4>3, <4>4, <4>5
    <3> QED BY <2>1, <2>3, <3>2, <3>3
  <2> QED BY <2>2, <2>3
<1>3. posted' = [posted EXCEPT ![i] = lines]
  BY <1>1
<1> HIDE DEF lines
<1>4. \A k \in DOMAIN fields : posted'[k] = IF k = i THEN lines ELSE posted[k]
  BY <1>3 DEF TypeInv, TypeOK
<1>5. \A k \in DOMAIN fields : Entered(fields[k], posted'[k])
  BY <1>2, <1>4 DEF StageInv
<1> QED BY <1>1, <1>5 DEF StageInv, Staged

(* updateFields marks exactly what was edited.                             *)
LEMMA SubmitStaged == ASSUME TypeInv, StageInv, Submit PROVE StageInv'
<1>1. /\ pc = "page" /\ pc' = "record"
      /\ fields' = [i \in DOMAIN fields |-> UpdateField(fields[i], posted[i])]
      /\ UNCHANGED <<cells, shown, posted, recording, steps, next, refused>>
  BY DEF Submit
<1>2. ASSUME NEW i \in DOMAIN fields
      PROVE  LET g == fields'[i]
                 lines == posted[i]
             IN  /\ Entered(g, lines)
                 /\ g.changed <=> Edited(shown, g, lines)
                 /\ g.value = IF Edited(shown, g, lines) THEN lines ELSE Substring(Buffer(shown), g)
  <2> DEFINE f == fields[i]
             g == fields'[i]
             lines == posted[i]
             shownText == Substring(Buffer(shown), f)
  <2>1. /\ Filled(f) /\ lines \in Seq(Seq(Chars)) /\ Len(lines) = Lines(f)
    BY FieldFacts
  <2>2. Entered(f, lines) /\ f.value = shownText /\ f.changed = FALSE
    BY <1>1 DEF StageInv, Staged
  <2>3. g = UpdateField(f, lines)
    BY <1>1
  <2> HIDE DEF f, g, lines
  <2>4. /\ SamePlace(g, f)
        /\ g.value = IF f.input /\ WithinModel(f) /\ lines # Normalize(f.value) THEN lines
                     ELSE f.value
        /\ g.changed <=> f.input /\ WithinModel(f) /\ lines # Normalize(f.value) /\ lines # f.value
    BY <2>1, <2>2, <2>3, SetField
  <2>5. Normalize(lines) = lines
    BY <2>1, <2>2, EnteredNormal
  <2>6. Normalize(f.value) = Text(shown, f)
    BY <2>2 DEF Text
  <2>7. g.changed <=> Edited(shown, f, lines)
    BY <2>4, <2>5, <2>6 DEF Edited
  <2>8. g.value = IF Edited(shown, f, lines) THEN lines ELSE shownText
    BY <2>2, <2>4, <2>6 DEF Edited
  <2> HIDE DEF shownText
  <2>9. /\ Edited(shown, g, lines) <=> Edited(shown, f, lines)
        /\ Entered(g, lines) <=> Entered(f, lines)
        /\ Substring(Buffer(shown), g) = Substring(Buffer(shown), f)
    BY <2>4, SameSent, SamePlaces
  <2> QED BY <2>2, <2>7, <2>8, <2>9 DEF g, lines, shownText
<1>3. DOMAIN fields' = DOMAIN fields
  BY <1>1
<1> QED BY <1>1, <1>2, <1>3 DEF StageInv, Staged

(* recordFieldUpdates reads a cleared value again.                         *)
LEMMA RecordStaged == ASSUME TypeInv, StageInv, RecordFieldUpdates PROVE StageInv'
<1>1. /\ pc = "record" /\ pc' = "send" /\ next' = 1
      /\ UNCHANGED <<cells, shown, posted, recording, refused>>
      /\ ~recording => UNCHANGED <<fields, steps>>
      /\ recording => fields' = ReadFields(cells, fields) /\ steps' = StepsOf(fields')
  BY RecordIs
<1>2. cells = shown /\ refused = FALSE
  BY <1>1 DEF StageInv
<1>3. DOMAIN fields' = DOMAIN fields
  BY <1>1 DEF ReadFields, TypeInv, TypeOK
<1>4. ASSUME NEW i \in DOMAIN fields
      PROVE  LET g == fields'[i]
                 lines == posted[i]
             IN  /\ Entered(g, lines)
                 /\ g.changed <=> Edited(shown, g, lines)
                 /\ Edited(shown, g, lines) => g.value = Sending(shown, g, lines, recording)
  <2> DEFINE f == fields[i]
             g == fields'[i]
             lines == posted[i]
  <2>1. /\ Filled(f) /\ lines \in Seq(Seq(Chars)) /\ Len(lines) = Lines(f) /\ Formed(cells, f)
        /\ cells \in Screens /\ f \in Fields /\ Shaped(f)
    BY FieldFacts
  <2>2. /\ Entered(f, lines) /\ (f.changed <=> Edited(shown, f, lines))
        /\ Edited(shown, f, lines) => f.value = lines
    BY <1>1 DEF StageInv, Staged
  <2>3. Lines(f) # 1 => lines # Unread
    <3>1. Len(Unread) = 1
      BY DEF Unread
    <3> QED BY <2>1, <3>1
  <2>4. IsMultiline(f) => Lines(f) # 1
    <3>1. f.startY \in Nat /\ f.endY \in Nat
      BY <2>1, DimensionsAssumption DEF Shaped
    <3> QED BY <3>1 DEF Lines, IsMultiline, FieldHeight
  <2>5. Cleared(f, lines) <=> lines = Unread
    BY <2>3, <2>4 DEF Cleared
  <2>6. CASE ~recording
    <3>1. g = f
      BY <1>1, <2>6
    <3> HIDE DEF f, g, lines
    <3>2. Sending(shown, f, lines, recording) = lines
      BY <2>6 DEF Sending
    <3> QED BY <2>2, <3>1, <3>2 DEF g, lines
  <2>7. CASE recording
    <3>1. g = IF Wanted(f) THEN Read(Buffer(cells), f) ELSE f
      BY <1>1, <2>7 DEF ReadFields
    <3> HIDE DEF f, g, lines
    <3>2. Wanted(f) <=> Edited(shown, f, lines)
      BY <2>2 DEF Wanted, Edited
    <3>3. CASE ~Wanted(f)
      <4>1. g = f
        BY <3>1, <3>3
      <4> QED BY <2>2, <3>2, <3>3, <4>1 DEF g, lines
    <3>4. CASE Wanted(f)
      <4>1. g = Read(Buffer(cells), f)
        BY <3>1, <3>4
      <4>2. /\ SamePlace(g, f) /\ g.changed = f.changed
            /\ g.value = IF f.value = Unread THEN Substring(Buffer(cells), f) ELSE f.value
        BY <2>1, <4>1, ReadField
      <4>3. f.value = lines
        BY <2>2, <3>2, <3>4
      <4>4. g.value = Sending(shown, f, lines, recording)
        BY <1>2, <2>5, <2>7, <4>2, <4>3 DEF Sending
      <4>5. /\ Edited(shown, g, lines) <=> Edited(shown, f, lines)
            /\ Entered(g, lines) <=> Entered(f, lines)
            /\ Sending(shown, g, lines, recording) = Sending(shown, f, lines, recording)
        BY <4>2, SameSent
      <4> QED BY <2>2, <4>2, <4>4, <4>5 DEF g, lines
    <3> QED BY <3>3, <3>4
  <2>8. recording \in BOOLEAN
    BY FieldFacts
  <2> QED BY <2>6, <2>7
<1>5. \A i \in DOMAIN fields : i \in Nat /\ 1 <= i
  BY DEF TypeInv, TypeOK
<1> QED BY <1>1, <1>2, <1>3, <1>4, <1>5 DEF StageInv, Staged

(* A field that is skipped was not edited.                                 *)
LEMMA SkipStaged == ASSUME TypeInv, StageInv, SkipField PROVE StageInv'
<1>1. /\ pc = "send" /\ next \in DOMAIN fields /\ next' = next + 1
      /\ ~(fields[next].input /\ fields[next].changed)
      /\ UNCHANGED <<pc, cells, shown, fields, posted, recording, steps, refused>>
  BY DEF SkipField
<1>2. ASSUME NEW i \in DOMAIN fields
      PROVE  fields[i].changed <=> Edited(shown, fields[i], posted[i]) /\ next + 1 <= i
  <2>1. fields[i].changed <=> Edited(shown, fields[i], posted[i]) /\ next <= i
    BY <1>1 DEF StageInv, Staged
  <2>2. i \in Nat /\ next \in Nat
    BY FieldFacts
  <2>3. CASE i = next
    BY <1>1, <2>1, <2>2, <2>3 DEF Edited
  <2>4. CASE i # next
    <3>1. next <= i <=> next + 1 <= i
      BY <2>2, <2>4
    <3> QED BY <2>1, <3>1
  <2> QED BY <2>3, <2>4
<1> QED BY <1>1, <1>2 DEF StageInv, Staged

(* What SubmitField does to the fields. *)
LEMMA SubmitFieldIs ==
    ASSUME TypeInv, SubmitField
    PROVE  /\ pc = "send" /\ next \in DOMAIN fields /\ next' = next + 1
           /\ fields[next].input /\ fields[next].changed /\ fields[next].startY < Height
           /\ cells' = TypeField(fields[next]).image
           /\ refused' = (refused \/ TypeField(fields[next]).refused)
           /\ UNCHANGED <<pc, shown, posted, recording, steps>>
           /\ DOMAIN fields' = DOMAIN fields /\ Len(fields') = Len(fields)
           /\ \A i \in DOMAIN fields :
                /\ SamePlace(fields'[i], fields[i]) /\ fields'[i].value = fields[i].value
                /\ fields'[i].changed = IF i = next THEN FALSE ELSE fields[i].changed
<1> DEFINE f == fields[next]
           g == [f EXCEPT !.changed = FALSE]
<1>1. fields \in Seq(Fields) /\ next \in DOMAIN fields /\ f \in Fields
  BY DEF SubmitField, TypeInv, TypeOK
<1>2. fields' = [fields EXCEPT ![next] = g]
  BY DEF SubmitField
<1> HIDE DEF f
<1>3. SamePlace(g, f) /\ g.value = f.value /\ g.changed = FALSE
  BY <1>1 DEF Fields, SamePlace
<1> HIDE DEF g
<1>4. DOMAIN fields' = DOMAIN fields /\ Len(fields') = Len(fields)
  BY <1>1, <1>2
<1>5. \A i \in DOMAIN fields : fields'[i] = IF i = next THEN g ELSE fields[i]
  BY <1>1, <1>2
<1>6. \A i \in DOMAIN fields : SamePlace(fields[i], fields[i])
  BY DEF SamePlace
<1>7. \A i \in DOMAIN fields :
         /\ SamePlace(fields'[i], fields[i]) /\ fields'[i].value = fields[i].value
         /\ fields'[i].changed = IF i = next THEN FALSE ELSE fields[i].changed
  BY <1>3, <1>5, <1>6 DEF f
<1> QED BY <1>4, <1>7 DEF SubmitField

(* A field that is sent is done.                                           *)
LEMMA FieldStaged == ASSUME TypeInv, StageInv, SubmitField PROVE StageInv'
<1>1. /\ pc = "send" /\ next \in DOMAIN fields /\ next' = next + 1
      /\ UNCHANGED <<pc, shown, posted, recording, steps>>
      /\ DOMAIN fields' = DOMAIN fields
  BY SubmitFieldIs
<1>2. ASSUME NEW i \in DOMAIN fields
      PROVE  LET g == fields'[i]
                 lines == posted[i]
             IN  /\ Entered(g, lines)
                 /\ g.changed <=> Edited(shown, g, lines) /\ next + 1 <= i
                 /\ Edited(shown, g, lines) => g.value = Sending(shown, g, lines, recording)
  <2> DEFINE f == fields[i]
             g == fields'[i]
             lines == posted[i]
  <2>1. /\ SamePlace(g, f) /\ g.value = f.value
        /\ g.changed = IF i = next THEN FALSE ELSE f.changed
    BY SubmitFieldIs
  <2>2. /\ Entered(f, lines) /\ (f.changed <=> Edited(shown, f, lines) /\ next <= i)
        /\ Edited(shown, f, lines) => f.value = Sending(shown, f, lines, recording)
    BY <1>1 DEF StageInv, Staged
  <2>3. i \in Nat /\ next \in Nat /\ f.changed \in BOOLEAN
    BY FieldFacts
  <2> HIDE DEF f, g, lines
  <2>4. /\ Edited(shown, g, lines) <=> Edited(shown, f, lines)
        /\ Entered(g, lines) <=> Entered(f, lines)
        /\ Sending(shown, g, lines, recording) = Sending(shown, f, lines, recording)
    BY <2>1, SameSent
  <2>5. CASE i = next
    <3>1. ~(next + 1 <= i) /\ g.changed = FALSE
      BY <2>1, <2>3, <2>5
    <3> QED BY <2>1, <2>2, <2>4, <3>1 DEF g, lines
  <2>6. CASE i # next
    <3>1. (next <= i <=> next + 1 <= i) /\ g.changed = f.changed
      BY <2>1, <2>3, <2>6
    <3> QED BY <2>1, <2>2, <2>4, <3>1 DEF g, lines
  <2> QED BY <2>5, <2>6
<1> QED BY <1>1, <1>2 DEF StageInv, Staged

(* The stages follow each other.                                           *)
LEMMA StageNext == ASSUME TypeInv, StageInv, [Next]_vars PROVE StageInv'
<1>1. CASE \E lines \in Dumps(cells) : UpdateScreen(lines)
  BY <1>1, UpdateStaged
<1>2. CASE \E i \in DOMAIN fields, text \in Texts : \E j \in DOMAIN posted[i] : Edit(i, j, text)
  BY <1>2, EditStaged
<1>3. CASE Submit
  BY <1>3, SubmitStaged
<1>4. CASE RecordFieldUpdates
  BY <1>4, RecordStaged
<1>5. CASE SkipField
  BY <1>5, SkipStaged
<1>6. CASE SubmitField
  BY <1>6, FieldStaged
<1>7. CASE SubmitFails
  BY <1>7 DEF SubmitFails, StageInv, Staged
<1>8. CASE Sent
  BY <1>8 DEF Sent, StageInv, Staged
<1>9. CASE UNCHANGED vars
  BY <1>9 DEF vars, StageInv, Staged
<1> QED BY <1>1, <1>2, <1>3, <1>4, <1>5, <1>6, <1>7, <1>8, <1>9 DEF Next

RowsKept ==
    \A i \in DOMAIN fields : Edited(shown, fields[i], posted[i]) => ~FillsRow(fields[i], posted[i])

(* The fields before the next one hold what was sent, the others what was  *)
(* shown.                                                                  *)
SendInv ==
    (pc \in {"send", "sent"} /\ refused = FALSE /\ RowsKept) =>
        \A i \in DOMAIN fields :
            fields[i].input /\ ~IsEmpty(fields[i]) =>
                Text(cells, fields[i]) =
                    IF i < next THEN Normalize(Sending(shown, fields[i], posted[i], recording))
                    ELSE Text(shown, fields[i])

(* Every changed one-line field has its step. *)
StepInv ==
    (pc \in {"send", "sent", "failed"} /\ recording) =>
        \A i \in DOMAIN fields :
            Edited(shown, fields[i], posted[i]) /\ ~IsMultiline(fields[i]) =>
                StepFor(fields[i], Sending(shown, fields[i], posted[i], recording)) \in ToSet(steps)

(* A field's text is the same in images that agree on its places. *)
LEMMA TextSame ==
    ASSUME NEW f, Shaped(f), ~IsEmpty(f), NEW one, NEW image,
           \A q \in Positions : StartOf(f) <= q /\ q <= EndOf(f) => one[q] = image[q]
    PROVE  Text(one, f) = Text(image, f)
<1> DEFINE N == Lines(f)
           A == Buffer(one)
           B == Buffer(image)
<1>1. \A q \in Positions : StartOf(f) <= q /\ q <= EndOf(f) => A[q] = B[q]
  BY DEF Buffer
<1> HIDE DEF A, B
<1>2. ASSUME NEW i \in 1..N
      PROVE  Between(A, RowStart(f, RowOf(f, i)), RowEnd(f, RowOf(f, i)))
                = Between(B, RowStart(f, RowOf(f, i)), RowEnd(f, RowOf(f, i)))
  <2> DEFINE a == RowStart(f, RowOf(f, i))
             b == RowEnd(f, RowOf(f, i))
  <2>1. b - a + 1 = Room(f, i)
    BY DEF Room
  <2>2. \A k \in 1..Room(f, i) : a + k - 1 \in Positions /\ StartOf(f) <= a + k - 1 /\ a + k - 1 <= EndOf(f)
    BY PlacesInField DEF PlaceIn
  <2> HIDE DEF a, b
  <2>3. \A k \in 1..(b - a + 1) : A[a + k - 1] = B[a + k - 1]
    BY <1>1, <2>1, <2>2
  <2>4. Between(A, a, b) = Between(B, a, b)
    BY <2>3 DEF Between
  <2> QED BY <2>4 DEF a, b
<1>3. /\ Substring(A, f) = [i \in 1..N |-> Between(A, RowStart(f, RowOf(f, i)), RowEnd(f, RowOf(f, i)))]
      /\ Substring(B, f) = [i \in 1..N |-> Between(B, RowStart(f, RowOf(f, i)), RowEnd(f, RowOf(f, i)))]
  BY SubstringRows DEF RowOf
<1>4. Substring(A, f) = Substring(B, f)
  BY <1>2, <1>3
<1> QED BY <1>4 DEF Text, A, B

(* Nothing is sent yet.                                                    *)
LEMMA RecordSends == ASSUME TypeInv, StageInv, RecordFieldUpdates PROVE SendInv'
<1>1. /\ pc = "record" /\ next' = 1 /\ UNCHANGED <<cells, shown>>
  BY RecordIs
<1>2. cells' = shown'
  BY <1>1 DEF StageInv
<1>3. \A i \in DOMAIN fields' : ~(i < next')
  <2>1. TypeInv'
    BY RecordTyped
  <2>2. \A i \in DOMAIN fields' : i \in Nat /\ 1 <= i
    BY <2>1 DEF TypeInv, TypeOK
  <2> QED BY <1>1, <2>2
<1> QED BY <1>2, <1>3 DEF SendInv

(* A field that is skipped holds what it should already.                   *)
LEMMA SkipSends == ASSUME TypeInv, StageInv, SendInv, SkipField PROVE SendInv'
<1>1. /\ pc = "send" /\ next \in DOMAIN fields /\ next' = next + 1
      /\ ~(fields[next].input /\ fields[next].changed)
      /\ UNCHANGED <<pc, cells, shown, fields, posted, recording, steps, refused>>
  BY DEF SkipField
<1> SUFFICES ASSUME refused = FALSE, RowsKept, NEW i \in DOMAIN fields,
                    fields[i].input, ~IsEmpty(fields[i])
             PROVE  Text(cells, fields[i]) =
                        IF i < next + 1 THEN Normalize(Sending(shown, fields[i], posted[i], recording))
                        ELSE Text(shown, fields[i])
  BY <1>1 DEF SendInv, RowsKept
<1>2. Text(cells, fields[i]) =
        IF i < next THEN Normalize(Sending(shown, fields[i], posted[i], recording))
        ELSE Text(shown, fields[i])
  BY <1>1 DEF SendInv
<1>3. i \in Nat /\ next \in Nat
  BY FieldFacts
<1>4. CASE i # next
  <2>1. i < next <=> i < next + 1
    BY <1>3, <1>4
  <2> QED BY <1>2, <2>1
<1>5. CASE i = next
  <2>1. posted[i] = Text(shown, fields[i]) /\ Entered(fields[i], posted[i])
    <3>1. fields[i].changed <=> Edited(shown, fields[i], posted[i]) /\ next <= i
      BY <1>1 DEF StageInv, Staged
    <3>2. ~Edited(shown, fields[i], posted[i])
      BY <1>1, <1>3, <1>5, <3>1
    <3>3. WithinModel(fields[i])
      BY FieldFacts, WithinScreen
    <3> QED BY <3>2, <3>3 DEF Edited, StageInv
  <2>2. Normalize(posted[i]) = posted[i]
    <3>1. posted[i] \in Seq(Seq(Chars))
      BY FieldFacts
    <3> QED BY <2>1, <3>1, EnteredNormal
  <2>3. Normalize(Sending(shown, fields[i], posted[i], recording)) = Text(shown, fields[i])
    BY <2>1, <2>2 DEF Sending, Text
  <2>4. ~(i < next)
    BY <1>3, <1>5
  <2> QED BY <1>2, <2>3, <2>4
<1> QED BY <1>4, <1>5

(* The field that is sent holds it, and the others hold what they held.    *)
LEMMA FieldSends == ASSUME TypeInv, StageInv, SendInv, SubmitField PROVE SendInv'
<1> DEFINE f == fields[next]
           sent == Sending(shown, f, posted[next], recording)
           e == TypeField(f)
<1>1. /\ pc = "send" /\ next \in DOMAIN fields /\ next' = next + 1
      /\ f.input /\ f.changed /\ f.startY < Height
      /\ cells' = e.image /\ refused' = (refused \/ e.refused)
      /\ UNCHANGED <<pc, shown, posted, recording, steps>>
      /\ DOMAIN fields' = DOMAIN fields
      /\ \A i \in DOMAIN fields : SamePlace(fields'[i], fields[i])
  BY SubmitFieldIs
<1>2. \A i \in DOMAIN fields :
        LET g == fields'[i]
            h == fields[i]
        IN  /\ Text(cells', g) = Text(cells', h) /\ Text(shown, g) = Text(shown, h)
            /\ g.input = h.input /\ (IsEmpty(g) <=> IsEmpty(h))
            /\ Edited(shown, g, posted[i]) <=> Edited(shown, h, posted[i])
            /\ Sending(shown, g, posted[i], recording) = Sending(shown, h, posted[i], recording)
            /\ FillsRow(g, posted[i]) <=> FillsRow(h, posted[i])
  <2> TAKE i \in DOMAIN fields
  <2> DEFINE g == fields'[i]
             h == fields[i]
  <2>1. SamePlace(g, h)
    BY <1>1
  <2> HIDE DEF g, h
  <2>2. g.input = h.input
    BY <2>1 DEF SamePlace
  <2>3. /\ \A image : Text(image, g) = Text(image, h)
        /\ \A image, lines : Edited(image, g, lines) <=> Edited(image, h, lines)
        /\ \A image, lines, records : Sending(image, g, lines, records) = Sending(image, h, lines, records)
        /\ \A lines : FillsRow(g, lines) <=> FillsRow(h, lines)
    BY <2>1, SameSent
  <2>4. IsEmpty(g) <=> IsEmpty(h)
    BY <2>1, SamePlaces
  <2> QED BY <2>2, <2>3, <2>4 DEF g, h
<1> SUFFICES ASSUME refused' = FALSE, RowsKept', NEW i \in DOMAIN fields,
                    fields[i].input, ~IsEmpty(fields[i])
             PROVE  Text(cells', fields[i]) =
                        IF i < next + 1 THEN Normalize(Sending(shown, fields[i], posted[i], recording))
                        ELSE Text(shown, fields[i])
  BY <1>1, <1>2 DEF SendInv
<1>3. RowsKept
  BY <1>1, <1>2 DEF RowsKept
<1>4. /\ cells \in Screens /\ shown \in Screens /\ recording \in BOOLEAN /\ next \in Nat
      /\ Formed(cells, f) /\ Formed(shown, f) /\ Shaped(f)
      /\ posted[next] \in Seq(Seq(Chars)) /\ Len(posted[next]) = Lines(f)
  BY <1>1, FieldFacts
<1>5. Edited(shown, f, posted[next]) /\ f.value = sent /\ Entered(f, posted[next])
  BY <1>1 DEF StageInv, Staged
<1>6. e = TypeLines(EraseEOF(Emulator(cells, StartOf(f))), sent)
  BY <1>5 DEF TypeField, StartOf
<1>7. refused = FALSE /\ ~e.refused
  BY <1>1 DEF TypeInv, TypeOK
<1>8. sent \in Seq(Seq(Chars))
  <2>1. Substring(Buffer(shown), f) \in Seq(Seq(Chars))
    BY <1>4, TextType
  <2> QED BY <1>4, <2>1 DEF Sending
<1> HIDE DEF f, sent, e
<1>9. ~IsEmpty(f)
  BY <1>1, <1>4, <1>6, <1>7, <1>8, EmptyRefused
<1>10. InputField(cells, f)
  BY <1>1, <1>4, <1>9 DEF InputField
<1>11. Fits(f, sent)
  <2>1. ~FillsRow(f, posted[next])
    BY <1>1, <1>3, <1>5 DEF RowsKept, f
  <2> QED BY <1>4, <1>5, <1>9, <2>1, SendingFits DEF sent
<1>12. Filling(e, cells, f, sent, Lines(f))
  BY <1>4, <1>6, <1>10, <1>11, FieldFilled
<1>13. CASE i = next
  <2>1. Text(cells', f) = Normalize(sent)
    BY <1>1, <1>4, <1>10, <1>11, <1>12, FilledText DEF Text
  <2>2. i < next + 1
    BY <1>4, <1>13
  <2> QED BY <1>13, <2>1, <2>2 DEF f, sent
<1>14. CASE i # next
  <2> DEFINE g == fields[i]
  <2>1. Text(cells, g) = IF i < next THEN Normalize(Sending(shown, g, posted[i], recording)) ELSE Text(shown, g)
    BY <1>1, <1>3, <1>7 DEF SendInv
  <2>2. i < next <=> i < next + 1
    <3>1. i \in Nat
      BY FieldFacts
    <3> QED BY <1>4, <1>14, <3>1
  <2>3. Formed(cells, g) /\ Shaped(g) /\ g.input /\ ~IsEmpty(g)
    BY FieldFacts
  <2>4. StartOf(g) # StartOf(f)
    BY <1>1, <1>14 DEF TypeInv, Laid, f
  <2> HIDE DEF g
  <2>5. InputField(cells, g)
    BY <2>3 DEF InputField
  <2>6. StartOf(g) - 1 \in Positions /\ StartOf(g) - 1 # StartOf(f) - 1
    BY <1>10, <2>4, <2>5, InputFieldPlaces
  <2>7. \A q \in Positions : StartOf(g) <= q /\ q <= EndOf(g) => e.image[q] = cells[q]
    <3> TAKE q \in Positions
    <3> HAVE StartOf(g) <= q /\ q <= EndOf(g)
    <3>1. Governs(cells, StartOf(g) - 1, q)
      BY <2>3, FieldTakesInput
    <3> QED BY <1>12, <2>6, <3>1 DEF Filling, OnlyIn
  <2>8. Text(e.image, g) = Text(cells, g)
    BY <2>3, <2>7, TextSame
  <2> QED BY <1>1, <2>1, <2>2, <2>8 DEF g
<1> QED BY <1>13, <1>14

(* The invariant is inductive.                                             *)
LEMMA SendNext == ASSUME TypeInv, StageInv, SendInv, [Next]_vars PROVE SendInv'
<1>1. CASE \E lines \in Dumps(cells) : UpdateScreen(lines)
  BY <1>1 DEF UpdateScreen, SendInv
<1>2. CASE \E i \in DOMAIN fields, text \in Texts : \E j \in DOMAIN posted[i] : Edit(i, j, text)
  BY <1>2 DEF Edit, SendInv
<1>3. CASE Submit
  BY <1>3 DEF Submit, SendInv
<1>4. CASE RecordFieldUpdates
  BY <1>4, RecordSends
<1>5. CASE SkipField
  BY <1>5, SkipSends
<1>6. CASE SubmitField
  BY <1>6, FieldSends
<1>7. CASE SubmitFails
  BY <1>7 DEF SubmitFails, SendInv
<1>8. CASE Sent
  BY <1>8 DEF Sent, SendInv, RowsKept
<1>9. CASE UNCHANGED vars
  BY <1>9 DEF vars, SendInv, RowsKept
<1> QED BY <1>1, <1>2, <1>3, <1>4, <1>5, <1>6, <1>7, <1>8, <1>9 DEF Next

-----------------------------------------------------------------------------
(* What is taken down                                                      *)

(* A changed field's first step is among those taken down.                 *)
LEMMA StepTaken ==
    ASSUME NEW fs, fs \in Seq({f \in Fields : Sound(f)}), NEW k \in DOMAIN fs, Wanted(fs[k])
    PROVE  StepFor(fs[k], fs[k].value) \in ToSet(StepsOf(fs))
<1> DEFINE T == {f \in Fields : Sound(f)}
           chosen == ChangedFields(fs)
           seqs == [i \in DOMAIN chosen |-> FieldSteps(chosen[i])]
<1>1. chosen \in Seq(T) /\ seqs \in Seq(Seq(StepType)) /\ StepsOf(fs) = FlattenSeq(seqs)
      /\ StepsOf(fs) \in Seq(StepType)
  BY StepsTyped DEF StepsOf
<1>2. k \in 1..Len(fs) /\ fs[k] \in {f \in ToSet(fs) : Wanted(f)}
  BY DEF ToSet
<1>3. PICK i \in 1..Len(chosen) : chosen[i] = fs[k]
  <2> DEFINE S == {f \in ToSet(fs) : Wanted(f)}
  <2>1. chosen = Filter(fs, S)
    BY DEF ChangedFields
  <2> HIDE DEF S, T, chosen
  <2>2. fs \in Seq(T) /\ fs[k] \in S
    BY <1>2 DEF S, T
  <2> QED BY <1>2, <2>1, <2>2, FilterComplete
<1>4. Sound(fs[k])
  OBVIOUS
<1>5. seqs[i] = FieldSteps(fs[k]) /\ i \in 1..Len(seqs)
  <2> HIDE DEF chosen
  <2> QED BY <1>1, <1>3
<1> HIDE DEF seqs, chosen
<1>6. Lines(fs[k]) \in Nat \ {0}
  BY <1>4, LinesType DEF Sound
<1>7. 1 \in 1..Len(seqs[i]) /\ seqs[i][1] = StepFor(fs[k], fs[k].value)
  <2> DEFINE f == fs[k]
             taken == FieldSteps(f)
  <2>1. Len(taken) = Lines(f) /\ \A j \in 1..Lines(f) :
            taken[j] = [row |-> f.startY + j, column |-> f.startX + 1, text |-> Trim(f.value[j])]
    BY <1>4, StepsOfField
  <2>2. 1 \in 1..Lines(f) /\ Lines(f) \in Nat
    BY <1>6
  <2> HIDE DEF f, taken
  <2>3. taken[1] = StepFor(f, f.value)
    BY <2>1, <2>2 DEF StepFor
  <2> QED BY <1>5, <2>1, <2>2, <2>3 DEF f, taken
<1>8. PICK j \in 1..Len(FlattenSeq(seqs)) : FlattenSeq(seqs)[j] = seqs[i][1]
  <2>1. seqs \in Seq(Seq(StepType)) /\ i \in 1..Len(seqs) /\ 1 \in 1..Len(seqs[i])
    BY <1>1, <1>5, <1>7
  <2> HIDE DEF StepType
  <2> QED BY <2>1, FlattenHas, Zenon
<1>9. j \in DOMAIN StepsOf(fs) /\ StepsOf(fs)[j] = StepFor(fs[k], fs[k].value)
  BY <1>1, <1>7, <1>8
<1> QED BY <1>9 DEF ToSet

(* The steps are taken down with the values that are sent.                 *)
LEMMA RecordSteps == ASSUME TypeInv, StageInv, RecordFieldUpdates PROVE StepInv'
<1>1. /\ pc' = "send" /\ next' = 1
      /\ recording' = recording
      /\ recording => steps' = StepsOf(fields')
  BY RecordIs
<1>2. TypeInv' /\ StageInv'
  BY RecordTyped, RecordStaged
<1> SUFFICES ASSUME recording, NEW i \in DOMAIN fields', Edited(shown', fields'[i], posted'[i])
             PROVE  StepFor(fields'[i], Sending(shown', fields'[i], posted'[i], recording')) \in ToSet(steps')
  BY <1>1 DEF StepInv
<1>3. fields' \in Seq({f \in Fields : Sound(f)})
  <2>1. fields' \in Seq(Fields) /\ Laid(cells', fields') /\ \A k \in DOMAIN fields' : Filled(fields'[k])
    BY <1>1, <1>2 DEF TypeInv, TypeOK
  <2>2. \A k \in 1..Len(fields') : fields'[k] \in Fields /\ Sound(fields'[k])
    BY <2>1 DEF Laid, Formed, Sound, Filled
  <2> QED BY <2>1, <2>2
<1>4. /\ fields'[i].changed <=> next' <= i
      /\ fields'[i].value = Sending(shown', fields'[i], posted'[i], recording')
  BY <1>1, <1>2 DEF StageInv, Staged
<1>5. 1 <= i
  BY <1>3
<1>6. Wanted(fields'[i])
  BY <1>1, <1>4, <1>5 DEF Wanted, Edited
<1> QED BY <1>1, <1>3, <1>4, <1>6, StepTaken

(* Sending does not change them.                                           *)
LEMMA FieldStepsKept == ASSUME TypeInv, StageInv, StepInv, SubmitField PROVE StepInv'
<1>1. /\ pc = "send" /\ UNCHANGED <<pc, shown, posted, recording, steps>>
      /\ DOMAIN fields' = DOMAIN fields
      /\ \A i \in DOMAIN fields : SamePlace(fields'[i], fields[i])
  BY SubmitFieldIs
<1> SUFFICES ASSUME recording, NEW i \in DOMAIN fields, Edited(shown, fields'[i], posted[i]), ~IsMultiline(fields'[i])
             PROVE  StepFor(fields'[i], Sending(shown, fields'[i], posted[i], recording)) \in ToSet(steps)
  BY <1>1 DEF StepInv
<1> DEFINE g == fields'[i]
           f == fields[i]
<1>2. SamePlace(g, f)
  BY <1>1
<1> HIDE DEF f, g
<1>3. /\ Edited(shown, g, posted[i]) <=> Edited(shown, f, posted[i])
      /\ Sending(shown, g, posted[i], recording) = Sending(shown, f, posted[i], recording)
      /\ \A lines : StepFor(g, lines) = StepFor(f, lines)
  <2>1. \A lines : StepFor(g, lines) = StepFor(f, lines)
    BY <1>2, SameSent
  <2>2. Edited(shown, g, posted[i]) <=> Edited(shown, f, posted[i])
    BY <1>2, SameSent
  <2>3. Sending(shown, g, posted[i], recording) = Sending(shown, f, posted[i], recording)
    <3>1. \A image, lines, records : Sending(image, g, lines, records) = Sending(image, f, lines, records)
      BY <1>2, SameSent
    <3> QED BY <3>1, Zenon
  <2> QED BY <2>1, <2>2, <2>3
<1>4. IsMultiline(g) <=> IsMultiline(f)
  BY <1>2, SamePlaces
<1>5. StepFor(f, Sending(shown, f, posted[i], recording)) \in ToSet(steps)
  BY <1>1, <1>3, <1>4 DEF StepInv, f, g
<1> QED BY <1>3, <1>5 DEF g

(* The invariant is inductive.                                             *)
LEMMA StepNext == ASSUME TypeInv, StageInv, StepInv, [Next]_vars PROVE StepInv'
<1>1. CASE \E lines \in Dumps(cells) : UpdateScreen(lines)
  BY <1>1 DEF UpdateScreen, StepInv
<1>2. CASE \E i \in DOMAIN fields, text \in Texts : \E j \in DOMAIN posted[i] : Edit(i, j, text)
  BY <1>2 DEF Edit, StepInv
<1>3. CASE Submit
  BY <1>3 DEF Submit, StepInv
<1>4. CASE RecordFieldUpdates
  BY <1>4, RecordSteps
<1>5. CASE SkipField
  BY <1>5 DEF SkipField, StepInv
<1>6. CASE SubmitField
  BY <1>6, FieldStepsKept
<1>7. CASE SubmitFails
  BY <1>7 DEF SubmitFails, StepInv
<1>8. CASE Sent
  BY <1>8 DEF Sent, StepInv
<1>9. CASE UNCHANGED vars
  BY <1>9 DEF vars, StepInv
<1> QED BY <1>1, <1>2, <1>3, <1>4, <1>5, <1>6, <1>7, <1>8, <1>9 DEF Next

(* What was sent, as the emulator holds it in the end. *)
LEMMA SentHeld ==
    ASSUME TypeInv, StageInv, SendInv, SentInOrder, NEW i \in DOMAIN fields,
           fields[i].input, ~IsEmpty(fields[i])
    PROVE  Text(cells, fields[i]) = Normalize(Sending(shown, fields[i], posted[i], recording))
<1>1. pc = "sent" /\ refused = FALSE /\ RowsKept
  BY DEF SentInOrder, RowsKept, Edited, Shown, Text, TypeInv, TypeOK
<1>2. next = Len(fields) + 1
  BY <1>1 DEF StageInv
<1>3. i < next
  BY <1>2 DEF TypeInv, TypeOK
<1> QED BY <1>1, <1>3 DEF SendInv

(* After SubmitScreen has gone through, the emulator holds in every input  *)
(* field what the page sent for it, edited or not, for every screen and    *)
(* every number of edited fields and lines; a field that was cleared under *)
(* a recording has its old text back.  As in the property, a full row      *)
(* inside a field is left out.                                             *)
THEOREM TerminalTypes == Spec => []TypedAsPosted
<1> DEFINE Inv == TypeInv /\ StageInv /\ SendInv
<1>1. Init => Inv
  BY TypeInit, StageInit DEF Init, SendInv
<1>2. Inv /\ [Next]_vars => Inv'
  BY TypeNext, StageNext, SendNext
<1>3. Inv => TypedAsPosted
  <2> SUFFICES ASSUME Inv, SentInOrder, NEW i \in DOMAIN fields, fields[i].input, ~IsEmpty(fields[i])
               PROVE  Text(cells, fields[i]) =
                        IF recording /\ Cleared(fields[i], posted[i]) THEN Text(shown, fields[i])
                        ELSE posted[i]
    BY DEF TypedAsPosted, Text, Shown
  <2>1. Text(cells, fields[i]) = Normalize(Sending(shown, fields[i], posted[i], recording))
    BY SentHeld
  <2>2. Normalize(posted[i]) = posted[i]
    <3>1. posted[i] \in Seq(Seq(Chars)) /\ Entered(fields[i], posted[i])
      BY FieldFacts DEF StageInv
    <3> QED BY <3>1, EnteredNormal
  <2> QED BY <2>1, <2>2 DEF Sending, Text
<1> QED BY <1>1, <1>2, <1>3, PTL DEF Spec

(* A recording says of every edited one-line field what SubmitScreen typed *)
(* into it, and where.                                                     *)
THEOREM RecordingMatches == Spec => []RecordedAsTyped
<1> DEFINE Inv == TypeInv /\ StageInv /\ SendInv /\ StepInv
<1>1. Init => Inv
  BY TypeInit, StageInit DEF Init, SendInv, StepInv
<1>2. Inv /\ [Next]_vars => Inv'
  BY TypeNext, StageNext, SendNext, StepNext
<1>3. Inv => RecordedAsTyped
  <2> SUFFICES ASSUME Inv, SentInOrder, recording, NEW i \in DOMAIN fields, fields[i].input,
                      ~IsEmpty(fields[i]), ~IsMultiline(fields[i]), posted[i] # Shown(fields[i])
               PROVE  [row |-> fields[i].startY + 1, column |-> fields[i].startX + 1,
                       text |-> Trim(Substring(Buffer(cells), fields[i])[1])] \in ToSet(steps)
    BY DEF RecordedAsTyped
  <2> DEFINE f == fields[i]
             sent == Sending(shown, f, posted[i], recording)
             text == Substring(Buffer(cells), f)
  <2>1. Edited(shown, f, posted[i]) /\ pc = "sent"
    <3>1. WithinModel(f)
      BY FieldFacts, WithinScreen
    <3> QED BY <3>1 DEF Edited, Text, Shown, SentInOrder
  <2>2. StepFor(f, sent) \in ToSet(steps)
    BY <2>1 DEF StepInv
  <2>3. Normalize(text) = Normalize(sent)
    BY SentHeld DEF Text
  <2>4. text \in Seq(Seq(Chars)) /\ sent \in Seq(Seq(Chars)) /\ Len(text) = 1 /\ Len(sent) = 1
    <3>1. /\ cells \in Screens /\ shown \in Screens /\ Formed(cells, f) /\ Formed(shown, f)
          /\ posted[i] \in Seq(Seq(Chars)) /\ Len(posted[i]) = Lines(f)
      BY FieldFacts
    <3>2. /\ text \in Seq(Seq(Chars)) /\ Len(text) = Lines(f)
          /\ Substring(Buffer(shown), f) \in Seq(Seq(Chars)) /\ Len(Substring(Buffer(shown), f)) = Lines(f)
      BY <3>1, TextType
    <3>3. Lines(f) = 1
      BY DEF Lines
    <3> QED BY <3>1, <3>2, <3>3 DEF Sending
  <2> HIDE DEF text, sent
  <2>5. Normalize(text)[1] = Trim(text[1]) /\ Normalize(sent)[1] = Trim(sent[1])
    BY <2>4 DEF Normalize
  <2>6. Trim(text[1]) = Trim(sent[1])
    BY <2>3, <2>5
  <2> QED BY <2>2, <2>6 DEF StepFor, text
<1> QED BY <1>1, <1>2, <1>3, PTL DEF Spec

(* In whatever form the emulator dumps its screen, the program finds the   *)
(* same rows and so the same fields, for a screen of any size and content. *)
THEOREM ShapeIsIgnored == Spec => []DecodeIgnoresShape
<1>1. DecodeIgnoresShape
  <2> SUFFICES ASSUME NEW lines \in Dumps(cells)
               PROVE  Decode(lines) = Decode(Rows(cells))
    BY DEF DecodeIgnoresShape, Rows
  <2>1. NormalizeTokens(lines) = Rows(cells)
    BY OneScreen, RepeatedScreen, LinePerRow DEF Dumps, Rows
  <2>2. NormalizeTokens(Rows(cells)) = Rows(cells)
    BY LinePerRow
  <2> QED BY <2>1, <2>2 DEF Decode
<1> QED BY <1>1, PTL
=============================================================================
